---------------------------- MODULE AtomicOutput ----------------------------
(***************************************************************************)
(* How the command line writes an output file: write_atomically of         *)
(* src/src/main.rs with the helpers it calls, on a Unix file system, run   *)
(* by several processes that may be killed and on a machine that may       *)
(* crash.                                                                  *)
(*                                                                         *)
(* A directory maps names to inodes; an inode has a type, permissions      *)
(* (mode and access ACL together) and data.  Data survives a crash if it   *)
(* was synced.  Directory changes reach the disk in order, and are certain *)
(* to be there after the directory is synced: recoverable holds the        *)
(* directories that a crash may leave.  Processes that run at the same     *)
(* time have different process ids; a killed process may be followed by    *)
(* one that has its id and finds its temporary files.                      *)
(***************************************************************************)
EXTENDS Integers, Sequences, FiniteSets, FiniteSetsExt, Functions

CONSTANTS
    Procs,          \* processes, each with its id
    Inodes,         \* inode numbers
    attempts,       \* names create_atomic_output tries: 128 in the code
    MaxDeaths       \* bound: kills and crashes in a behaviour

ASSUME AtomicOutputConstants ==
    /\ IsFiniteSet(Procs) /\ IsFiniteSet(Inodes)
    /\ Inodes \subseteq Nat /\ 0 \in Inodes /\ 1 \in Inodes
    /\ attempts \in Nat \ {0} /\ MaxDeaths \in Nat

\* The input file, the usual output file, and the temporary names beside an
\* output: .{file}.qzt-tmp-{pid}-{attempt}.
In == <<"in">>
Out == <<"out">>
Outputs == {In, Out}
temp_name(path, p, n) == path \o <<p, n>>
Temps == {temp_name(o, p, n) : o \in Outputs, p \in Procs, n \in 1..attempts}
NoFile == -1
NoPath == <<>>

VARIABLES
    dir,            \* the directory: a function from names to inodes
    recoverable,    \* directories a crash may leave
    kind,           \* inode -> "file", "symlink" or "other"
    perms,          \* inode -> "default" or "private"
    data,           \* inode -> "empty", "part", "old", "input", "torn" or the
                    \*          process whose complete output it holds
    synced,         \* inodes whose data is on disk
    pc,             \* process -> step of write_atomically
    output,         \* process -> the output path it was given
    inherited,      \* process -> permissions read in create_atomic_output
    attempt,        \* process -> number of the temporary name to try
    temp_path,      \* process -> temporary file it created, or NoPath
    result,         \* process -> what the command reports
    leftover,       \* process -> was a temporary file reported as left behind
    replaced,       \* process -> did its rename take effect
    deaths          \* kills and crashes so far

fs == <<dir, recoverable, kind, perms, data, synced>>
local == <<output, inherited, attempt, temp_path>>
report == <<result, leftover, replaced>>
vars == <<fs, pc, local, report, deaths>>

Init ==
    /\ \E out \in {NoFile, 0, 1} :
          dir = [name \in Outputs \cup Temps |->
                    IF name = In THEN 0 ELSE IF name = Out THEN out ELSE NoFile]
    /\ recoverable = {dir}
    /\ kind \in {[i \in Inodes |-> IF i = 1 THEN k ELSE "file"] :
                    k \in {"file", "symlink", "other"}}
    /\ perms \in {[i \in Inodes |-> IF i = 1 THEN m ELSE "default"] :
                    m \in {"default", "private"}}
    /\ data = [i \in Inodes |->
                  IF i = 0 THEN "input" ELSE IF i = 1 THEN "old" ELSE "empty"]
    /\ synced = Inodes
    /\ pc = [p \in Procs |-> "start"]
    /\ output = [p \in Procs |-> Out]
    /\ inherited = [p \in Procs |-> "none"]
    /\ attempt = [p \in Procs |-> 1]
    /\ temp_path = [p \in Procs |-> NoPath]
    /\ result = [p \in Procs |-> "none"]
    /\ leftover = [p \in Procs |-> FALSE]
    /\ replaced = [p \in Procs |-> FALSE]
    /\ deaths = 0

-----------------------------------------------------------------------------
(* Steps of a process.                                                     *)

goto(p, step) == pc' = [pc EXCEPT ![p] = step]

\* The command ends with this result.
Return(p, r) ==
    /\ goto(p, "done")
    /\ result' = [result EXCEPT ![p] = r]
    /\ UNCHANGED <<leftover, replaced>>

\* Mutant of Fail: the error is returned at once.
FailWithoutCleanup(p, r) ==
    /\ goto(p, "done")
    /\ result' = [result EXCEPT ![p] = r]
    /\ UNCHANGED leftover

\* An error after the temporary file was created goes through
\* cleanup_atomic_output.
Fail(p, r) ==
    /\ goto(p, "cleanup")
    /\ result' = [result EXCEPT ![p] = r]
    /\ UNCHANGED leftover

\* The directory after some names were bound to inodes, or removed.
ChangeDir(changed) ==
    /\ dir' = changed
    /\ recoverable' = recoverable \cup {changed}

temp_inode(p) == dir[temp_path[p]]

\* The command is started with an output path, which it checks before it reads
\* its input.
Begin(p, path) ==
    /\ pc[p] = "start"
    /\ goto(p, "precheck")
    /\ output' = [output EXCEPT ![p] = path]
    /\ inherited' = [inherited EXCEPT ![p] = "none"]
    /\ attempt' = [attempt EXCEPT ![p] = 1]
    /\ temp_path' = [temp_path EXCEPT ![p] = NoPath]
    /\ result' = [result EXCEPT ![p] = "none"]
    /\ leftover' = [leftover EXCEPT ![p] = FALSE]
    /\ replaced' = [replaced EXCEPT ![p] = FALSE]
    /\ UNCHANGED <<fs, deaths>>

\* Mutant of collides: the paths are compared, not the files.
collides_by_path(path) ==
    /\ dir[path] # NoFile
    /\ kind[dir[path]] # "file" \/ path = In

\* check_output_collision: a symlink, something else that is no regular file,
\* or the input itself under this or another name.
collides(path) ==
    /\ dir[path] # NoFile
    /\ kind[dir[path]] # "file" \/ dir[path] = dir[In]

after_check == [precheck |-> "check", check |-> "permissions", recheck |-> "replace"]

\* The check runs before the input is read, at the start of write_atomically
\* and again just before the replacement.
Check(p) ==
    /\ pc[p] \in DOMAIN after_check
    /\ \/ /\ ~collides(output[p])
          /\ goto(p, after_check[pc[p]])
          /\ UNCHANGED report
       \/ /\ pc[p] = "recheck"          \* collision, or the check failed
          /\ Fail(p, "failed") /\ UNCHANGED replaced
       \/ /\ pc[p] # "recheck"
          /\ Return(p, "rejected")
    /\ UNCHANGED <<fs, local, deaths>>

\* Mutant of inherited_permissions: the mode of a new file is kept.
default_permissions(path) == "none"

\* The permissions of an existing regular output.
inherited_permissions(path) ==
    IF dir[path] # NoFile /\ kind[dir[path]] = "file"
    THEN perms[dir[path]] ELSE "none"

\* create_atomic_output, before its loop.
Permissions(p) ==
    /\ pc[p] = "permissions"
    /\ \/ /\ inherited' = [inherited EXCEPT ![p] = inherited_permissions(output[p])]
          /\ goto(p, "create")
          /\ UNCHANGED report
       \/ /\ Return(p, "failed")
          /\ UNCHANGED inherited
    /\ UNCHANGED <<fs, output, attempt, temp_path, deaths>>

\* Inodes that no directory, on disk or in memory, refers to.
free_inodes ==
    {i \in Inodes : \A d \in recoverable : \A name \in DOMAIN d : d[name] # i}

\* Mutant of next_attempt: the same name is tried again.
same_attempt(p) == attempt[p]

next_attempt(p) == attempt[p] + 1

\* create_atomic_output: open with create_new; a name that exists is skipped.
Create(p) ==
    LET path == temp_name(output[p], p, attempt[p])
    IN  /\ pc[p] = "create"
        /\ \/ /\ dir[path] = NoFile
              /\ free_inodes # {}
              /\ LET i == Min(free_inodes)
                 IN  /\ ChangeDir([dir EXCEPT ![path] = i])
                     /\ kind' = [kind EXCEPT ![i] = "file"]
                     /\ perms' = [perms EXCEPT ![i] = "default"]
                     /\ data' = [data EXCEPT ![i] = "empty"]
                     /\ synced' = synced \ {i}
              /\ temp_path' = [temp_path EXCEPT ![p] = path]
              /\ goto(p, "secure")
              /\ UNCHANGED <<attempt, report>>
           \/ /\ dir[path] # NoFile /\ attempt[p] < attempts
              /\ attempt' = [attempt EXCEPT ![p] = next_attempt(p)]
              /\ UNCHANGED <<fs, temp_path, pc, report>>
           \/ /\ dir[path] = NoFile \/ attempt[p] = attempts
              /\ Return(p, "failed")
              /\ UNCHANGED <<fs, attempt, temp_path>>
        /\ UNCHANGED <<output, inherited, deaths>>

\* create_atomic_output: set_permissions and preserve_output_security, which
\* takes the ACL from the output as it is now.  Mode and ACL are one value, the
\* one read in Permissions: nobody changes the permissions of an output.
Secure(p) ==
    /\ pc[p] = "secure"
    /\ \/ /\ perms' = [perms EXCEPT ![temp_inode(p)] =
                           IF inherited[p] = "none" THEN @ ELSE inherited[p]]
          /\ goto(p, "write")
          /\ UNCHANGED report
       \/ /\ inherited[p] # "none"
          /\ Fail(p, "failed")
          /\ UNCHANGED <<perms, replaced>>
    /\ UNCHANGED <<dir, recoverable, kind, data, synced, local, deaths>>

\* The writer's calls on the temporary file: part of the output, then all.
Write(p) ==
    /\ pc[p] = "write"
    /\ \/ /\ data[temp_inode(p)] = "empty"
          /\ data' = [data EXCEPT ![temp_inode(p)] = "part"]
          /\ UNCHANGED <<pc, report>>
       \/ /\ data[temp_inode(p)] = "part"
          /\ data' = [data EXCEPT ![temp_inode(p)] = p]
          /\ goto(p, "sync")
          /\ UNCHANGED report
       \/ /\ Fail(p, "failed")
          /\ UNCHANGED <<data, replaced>>
    /\ UNCHANGED <<dir, recoverable, kind, perms, synced, local, deaths>>

\* Mutant of sync_all: the data stays in the page cache.
flush_only(p) == synced

sync_all(p) == synced \cup {temp_inode(p)}

\* Mutant of Sync: the output is not checked again.
SyncWithoutRecheck(p) ==
    /\ pc[p] = "sync"
    /\ \/ /\ synced' = sync_all(p)
          /\ goto(p, "replace")
          /\ UNCHANGED report
       \/ /\ Fail(p, "failed")
          /\ UNCHANGED <<synced, replaced>>
    /\ UNCHANGED <<dir, recoverable, kind, perms, data, local, deaths>>

\* flush and sync_all of the temporary file.
Sync(p) ==
    /\ pc[p] = "sync"
    /\ \/ /\ synced' = sync_all(p)
          /\ goto(p, "recheck")
          /\ UNCHANGED report
       \/ /\ Fail(p, "failed")
          /\ UNCHANGED <<synced, replaced>>
    /\ UNCHANGED <<dir, recoverable, kind, perms, data, local, deaths>>

\* Mutant of rename: a hard link, the temporary name stays.
link_output(p) ==
    /\ ChangeDir([dir EXCEPT ![output[p]] = temp_inode(p)])
    /\ replaced' = [replaced EXCEPT ![p] = TRUE]

\* rename of the temporary file over the output.
rename(p) ==
    /\ ChangeDir([dir EXCEPT ![output[p]] = temp_inode(p),
                             ![temp_path[p]] = NoFile])
    /\ replaced' = [replaced EXCEPT ![p] = TRUE]

\* Mutant of rename_error: an error like any other.
ordinary_error == "failed"

rename_error == "replacement_unconfirmed"

\* An error of rename does not tell whether it took effect.
Replace(p) ==
    /\ pc[p] = "replace"
    /\ \/ /\ rename(p)
          /\ goto(p, "dirsync")
          /\ UNCHANGED <<result, leftover>>
       \/ /\ rename(p)
          /\ Fail(p, rename_error)
       \/ /\ Fail(p, rename_error)
          /\ UNCHANGED <<dir, recoverable, replaced>>
    /\ UNCHANGED <<kind, perms, data, synced, local, deaths>>

\* Mutant of sync_output_directory: nothing is synced.
no_directory_sync == recoverable

sync_output_directory == {dir}

\* The directory is synced, the last step before success.
SyncDirectory(p) ==
    /\ pc[p] = "dirsync"
    /\ \/ /\ recoverable' = sync_output_directory
          /\ Return(p, "ok")
       \/ /\ Fail(p, "durability_unconfirmed")
          /\ UNCHANGED <<recoverable, replaced>>
    /\ UNCHANGED <<dir, kind, perms, data, synced, local, deaths>>

\* cleanup_atomic_output: remove the temporary file; one that is gone is
\* fine.  Any other error makes one error of the two: the text of the first one,
\* which is what result stands for, followed by the name left behind.
Cleanup(p) ==
    /\ pc[p] = "cleanup"
    /\ goto(p, "done")
    /\ \/ /\ IF temp_inode(p) = NoFile
             THEN UNCHANGED <<dir, recoverable>>
             ELSE ChangeDir([dir EXCEPT ![temp_path[p]] = NoFile])
          /\ UNCHANGED leftover
       \/ /\ leftover' = [leftover EXCEPT ![p] = TRUE]
          /\ UNCHANGED <<dir, recoverable>>
    /\ UNCHANGED <<kind, perms, data, synced, local, result, replaced, deaths>>

-----------------------------------------------------------------------------
(* The environment.                                                        *)

running(p) == pc[p] \notin {"start", "done"}

\* A process is killed; its process id may be used again.
Kill(p) ==
    /\ running(p) /\ deaths < MaxDeaths
    /\ goto(p, "start")
    /\ deaths' = deaths + 1
    /\ UNCHANGED <<fs, local, report>>

\* The machine crashes: the directory is one that had reached the disk, data
\* that was not synced may be torn.
Crash ==
    /\ deaths < MaxDeaths
    /\ dir' \in recoverable
    /\ recoverable' = {dir'}
    /\ \E lost \in SUBSET {i \in Inodes \ synced : data[i] # "empty"} :
          data' = [i \in Inodes |-> IF i \in lost THEN "torn" ELSE data[i]]
    /\ synced' = Inodes
    /\ pc' = [p \in Procs |-> IF running(p) THEN "start" ELSE pc[p]]
    /\ deaths' = deaths + 1
    /\ UNCHANGED <<kind, perms, local, report>>

Step(p) ==
    \/ Check(p) \/ Permissions(p) \/ Create(p) \/ Secure(p) \/ Write(p)
    \/ Sync(p) \/ Replace(p) \/ SyncDirectory(p) \/ Cleanup(p)

Next ==
    \/ \E p \in Procs : Step(p)
    \/ \E p \in Procs, path \in Outputs : Begin(p, path)
    \/ \E p \in Procs : Kill(p)
    \/ Crash

Spec == Init /\ [][Next]_vars

\* A process that is not killed goes on: its system calls return.
FairSpec == Spec /\ \A p \in Procs : WF_vars(Step(p))

-----------------------------------------------------------------------------
(* Properties.                                                             *)

Steps == {"start", "precheck", "check", "permissions", "create", "secure",
          "write", "sync", "recheck", "replace", "dirsync", "cleanup", "done"}
Directories == [Outputs \cup Temps -> Inodes \cup {NoFile}]

\* The state has its types; the directory in use is one a crash may leave, a
\* process past create_atomic_output has its own temporary file until the
\* rename, and no two names but a hard linked pair of input and output share
\* an inode.
TypeOK ==
    /\ dir \in recoverable /\ recoverable \subseteq Directories
    /\ kind \in [Inodes -> {"file", "symlink", "other"}]
    /\ perms \in [Inodes -> {"default", "private"}]
    /\ DOMAIN data = Inodes
    /\ \A i \in Inodes : data[i] \in {"empty", "part", "old", "input", "torn"} \cup Procs
    /\ synced \subseteq Inodes
    /\ pc \in [Procs -> Steps]
    /\ output \in [Procs -> Outputs]
    /\ inherited \in [Procs -> {"none", "default", "private"}]
    /\ attempt \in [Procs -> 1..attempts]
    /\ temp_path \in [Procs -> Temps \cup {NoPath}]
    /\ result \in [Procs -> {"none", "ok", "rejected", "failed",
                             "replacement_unconfirmed", "durability_unconfirmed"}]
    /\ leftover \in [Procs -> BOOLEAN]
    /\ replaced \in [Procs -> BOOLEAN]
    /\ deaths \in 0..MaxDeaths
    /\ \A p \in Procs :
          pc[p] \in {"secure", "write", "sync", "recheck", "replace"} =>
             temp_path[p] # NoPath /\ temp_inode(p) # NoFile
    /\ \A d \in recoverable : \A a, b \in DOMAIN d :
          a # b /\ d[a] = d[b] /\ d[a] # NoFile => {a, b} = {In, Out}

\* write_atomically never exposes unfinished data under the output's name:
\* at every moment, and after every kill or crash, the output is absent, what
\* it was before, or the complete output of some process.
OutputComplete ==
    dir[Out] # NoFile => data[dir[Out]] \in {"old", "input"} \cup Procs

\* A command that reported success has a durable output: whatever directory a
\* crash leaves, the output in it is complete and its data is on disk.
SuccessIsDurable ==
    (\E p \in Procs : result[p] = "ok") =>
       \A d \in recoverable :
          d[Out] # NoFile /\ data[d[Out]] \in Procs /\ d[Out] \in synced

\* The input is never replaced, truncated or written, also when the output is
\* given as the input's name (check_output_collision), and no crash leaves it
\* missing.  An output that is a hard link to the input stays one: it is so in
\* the directory and in every directory a crash may leave, or in none of them.
InputUntouched ==
    /\ data[0] = "input" /\ perms[0] = "default"
    /\ \A d \in recoverable : d[In] = 0 /\ (d[Out] = 0 <=> dir[Out] = 0)

\* The report tells whether the output was replaced: a command that failed or
\* was rejected replaced nothing, one that succeeded or could not confirm
\* durability did.  Only a failed rename leaves it open.
ReportIsTruthful ==
    \A p \in Procs : pc[p] = "done" =>
       /\ result[p] \in {"failed", "rejected"} => ~replaced[p]
       /\ result[p] \in {"ok", "durability_unconfirmed"} => replaced[p]

\* A temporary file that is still there when its command ends was reported by
\* cleanup_atomic_output.
LeftoverIsReported ==
    [][\A p \in Procs :
          running(p) /\ pc'[p] = "done" /\ temp_path[p] # NoPath =>
             dir'[temp_path[p]] = NoFile \/ leftover'[p]]_vars

\* Replacing a private output keeps it private, and no bytes of the new output
\* are ever in a less private temporary file beside it.
private(name) == dir[name] # NoFile /\ perms[dir[name]] = "private"
PrivacyKept ==
    private(Out) =>
       \A t \in Temps : dir[t] # NoFile /\ data[dir[t]] # "empty" =>
          private(t) \/ t[1] # Out[1]
PrivateOutputStaysPrivate == [][private(Out) => private(Out)']_vars

\* Every command that is not killed ends, whatever fails and however many
\* temporary names earlier processes with its id left behind.
CommandsEnd ==
    \A p \in Procs : running(p) ~> ~running(p)
=============================================================================
