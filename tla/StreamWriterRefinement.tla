----------------------- MODULE StreamWriterRefinement -----------------------
(***************************************************************************)
(* The streaming writer implements PackSpec: its file, when there is one,  *)
(* is the container of pack_bytes.                                         *)
(***************************************************************************)
EXTENDS StreamWriter

Pack == INSTANCE PackSpec WITH
    input <- hashed,
    status <- IF finished THEN "packed"
              ELSE IF error = "refused" THEN "refused"
              ELSE IF error # "none" THEN "failed" ELSE "open",
    file <- IF finished THEN content ELSE <<>>

\* However the text was cut into pushes, QztFileWriter ends with the bytes of
\* pack_bytes, refuses only what pack_bytes refuses, and otherwise reports a
\* failure of its environment.
ImplementsPack == Pack!Spec
=============================================================================
