------------------------------ MODULE PackSpec ------------------------------
(***************************************************************************)
(* What a writer of containers promises, whatever the pieces in which it   *)
(* is given the text and whatever the sink does: the file is either the    *)
(* container that pack_bytes makes of the whole text, byte for byte, or    *)
(* the caller was told that there is none.  The writer may refuse a text   *)
(* only if pack_bytes refuses it too; any other failure is the             *)
(* environment's.                                                          *)
(***************************************************************************)
EXTENDS Container

VARIABLES
    input,      \* all bytes accepted so far
    status,     \* "open", "packed", "refused" or "failed"
    file        \* the finished file, empty until then

packVars == <<input, status, file>>

Init ==
    /\ input = <<>>
    /\ status = "open"
    /\ file = <<>>

\* More text is accepted.
Accept ==
    /\ status = "open"
    /\ input' \in Text
    /\ IsPrefix(input, input')
    /\ UNCHANGED <<status, file>>

\* The container of the accepted text is complete.
Complete ==
    /\ status = "open"
    /\ pack_bytes(input) # Rejected
    /\ file' = pack_bytes(input).bytes
    /\ status' = "packed"
    /\ UNCHANGED input

\* The text has no container.
Refuse ==
    /\ status = "open"
    /\ pack_bytes(input) = Rejected
    /\ status' = "refused"
    /\ UNCHANGED <<input, file>>

\* The sink or the memory failed the writer.
Fail ==
    /\ status = "open"
    /\ status' = "failed"
    /\ UNCHANGED <<input, file>>

Next == Accept \/ Complete \/ Refuse \/ Fail

Spec == Init /\ [][Next]_packVars
=============================================================================
