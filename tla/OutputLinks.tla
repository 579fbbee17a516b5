---------------------------- MODULE OutputLinks ----------------------------
(***************************************************************************)
(* AtomicOutput in a directory that another program changes: at any moment *)
(* it may put a link in the place of the output, be it a hard link to the  *)
(* input or a symlink.  write_atomically of src/src/main.rs checks the     *)
(* output again just before it replaces it, for what was checked at the    *)
(* start may have changed while the temporary file was written.            *)
(***************************************************************************)
EXTENDS AtomicOutput

CONSTANT MaxLinks       \* bound: links put in place of the output

ASSUME MaxLinksAssumption == MaxLinks \in Nat

VARIABLES
    links,              \* links put in place of the output so far
    late                \* processes past their last check when the latest of
                        \* them came, and not past their rename

Links == <<links, late>>

LinksInit ==
    /\ Init
    /\ links = 0
    /\ late = {}

\* link(2) or rename(2) by the other program: the output's name is bound to the
\* input's inode.
HardLink ==
    /\ ChangeDir([dir EXCEPT ![Out] = dir[In]])
    /\ UNCHANGED <<kind, perms, data, synced>>

\* The output's name is bound to a new symlink, which is not a file that any
\* command wrote.
Symlink ==
    /\ free_inodes # {}
    /\ LET i == Min(free_inodes)
       IN  /\ ChangeDir([dir EXCEPT ![Out] = i])
           /\ kind' = [kind EXCEPT ![i] = "symlink"]
           /\ perms' = [perms EXCEPT ![i] = "default"]
           /\ data' = [data EXCEPT ![i] = "old"]
           /\ synced' = synced \cup {i}

PlaceLink ==
    /\ links < MaxLinks
    /\ HardLink \/ Symlink
    /\ links' = links + 1
    /\ late' = {p \in Procs : pc[p] = "replace"}
    /\ UNCHANGED <<pc, local, report, deaths>>

LinksNext ==
    \/ /\ Next
       /\ late' = {p \in late : pc'[p] = "replace"}
       /\ UNCHANGED links
    \/ PlaceLink

LinksSpec == LinksInit /\ [][LinksNext]_<<vars, Links>>

-----------------------------------------------------------------------------
(* Properties.                                                             *)

is_link(i) == i # NoFile /\ (i = dir[In] \/ kind[i] # "file")

\* A link in the place of the output, there from the start or put there by
\* another program while a command writes, is not replaced by any command
\* (check_output_collision before the rename in write_atomically).  Only a
\* command that was past that check when the link came still replaces it, and a
\* crash may undo a link that had not reached the disk.
LinkedOutputKept ==
    [][is_link(dir[Out]) /\ dir'[Out] # dir[Out] =>
          \/ \E p \in late : output[p] = Out /\ replaced'[p] # replaced[p]
          \/ deaths' # deaths
          \/ links' # links]_<<vars, Links>>
=============================================================================
