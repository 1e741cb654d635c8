------------------------------ MODULE Identity ------------------------------
(***************************************************************************)
(* Provisioning of an identity key file by `lys key generate`, that is     *)
(* Ed25519Identity::load_or_generate, called on one path by any number of  *)
(* threads of any number of processes (crates/lys-core/src/keys/           *)
(* identity.rs, crates/lys/src/commands/key.rs).  Every file system call   *)
(* is a step and may fail, the stat behind path.exists() included.         *)
(* Processes end or are killed at any point, and a later process may get   *)
(* the same process id and starts its counter from zero.                   *)
(*                                                                         *)
(* Each call draws a fresh random seed and creates at most one file, so    *)
(* that the call itself, <<caller, number>>, stands for both: seeds do not *)
(* collide, and a file is identified by the call that created it.          *)
(***************************************************************************)
EXTENDS Naturals, FiniteSets

CONSTANTS
  Callers,      \* the threads that call generate
  Process,      \* the processes they belong to
  ProcOf,       \* the process of each caller
  Pid,          \* process ids
  PidOf,        \* the process id of each process, reused by its successor
  FaultSets,    \* the sets of kinds of faults that may happen together
  MaxCalls,     \* bound on the number of calls a caller makes
  None,         \* no file, no name
  Partial       \* the bytes of a file that are not a whole seed

ASSUME ProcessAssumption == ProcOf \in [Callers -> Process] /\ PidOf \in [Process -> Pid]

\* A process is killed; a file system call fails and ends the call; so does the
\* removal of a temporary file, or the stat of the key path, and the call goes on.
FaultKinds == {"kill", "io", "unlink", "stat"}

ASSUME FaultsAssumption == FaultSets \subseteq SUBSET FaultKinds
ASSUME BoundAssumption == MaxCalls \in Nat

\* Calls: also the seeds they draw and the files they create.
Call == Callers \X (1..MaxCalls)

\* Names of temporary files: <key file name>.<pid>.<counter>.tmp
Name == Pid \X Nat

ASSUME DistinctAssumption ==
  None \notin Call /\ None \notin Name /\ Partial \notin Call /\ Partial # None

VARIABLES
  keyFile,      \* the file that the key path names, or None
  tmpName,      \* the temporary name that each file has, or None
  content,      \* the bytes of each file: a seed or Partial
  counter,      \* TMP_NAME_COUNTER of each process
  calls,        \* the number of calls each caller has made
  pc,           \* the next step of each caller
  name,         \* tmp_path of each caller
  fd,           \* the file each caller has open for writing
  returned,     \* what calls returned
  met           \* the faults that calls met

disk == <<keyFile, tmpName, content>>
locals == <<name, fd>>
vars == <<keyFile, tmpName, content, counter, calls, pc, name, fd, returned, met>>

Steps == {"idle", "exists", "draw", "tmp_open", "tmp_write", "tmp_chmod", "tmp_link",
          "win", "lose", "err", "load"}

TypeOK ==
  /\ keyFile \in Call \cup {None}
  /\ tmpName \in [Call -> Name \cup {None}]
  /\ content \in [Call -> Call \cup {Partial}]
  /\ counter \in [Process -> Nat]
  /\ calls \in [Callers -> 0..MaxCalls]
  /\ pc \in [Callers -> Steps]
  /\ name \in [Callers -> Name \cup {None}]
  /\ fd \in [Callers -> Call \cup {None}]
  /\ returned \subseteq [by : Call, seed : Call]
  /\ met \subseteq Call \X FaultKinds

Init ==
  /\ keyFile = None
  /\ tmpName = [f \in Call |-> None]
  /\ content = [f \in Call |-> Partial]
  /\ counter = [pr \in Process |-> 0]
  /\ calls = [c \in Callers |-> 0]
  /\ pc = [c \in Callers |-> "idle"]
  /\ name = [c \in Callers |-> None]
  /\ fd = [c \in Callers |-> None]
  /\ returned = {}
  /\ met = {}

\* The call that c is in.
Me(c) == <<c, calls[c]>>

Goto(c, step) == pc' = [pc EXCEPT ![c] = step]

\* A fault may happen that goes together with those that have happened.
May(kind) == \E F \in FaultSets : {kind} \cup {m[2] : m \in met} \subseteq F

\* A fault strikes the call of c.
Meet(c, kind) ==
  /\ May(kind)
  /\ met' = met \cup {<<Me(c), kind>>}

\* A call ends, and its local variables with it.
End(c) ==
  /\ Goto(c, "idle")
  /\ name' = [name EXCEPT ![c] = None]
  /\ fd' = [fd EXCEPT ![c] = None]

\* The call of c returns the identity of seed s.
Return(c, s) ==
  /\ End(c)
  /\ returned' = returned \cup {[by |-> Me(c), seed |-> s]}

-----------------------------------------------------------------------------
\* generate and load_identity.

\* generate looks whether the file exists, but only to word its report, and then
\* calls load_or_generate.
Generate(c) ==
  /\ pc[c] = "idle" /\ calls[c] < MaxCalls
  /\ Goto(c, "exists")
  /\ calls' = [calls EXCEPT ![c] = @ + 1]
  /\ UNCHANGED <<disk, counter, name, fd, returned, met>>

\* The commands that use a key only load it; a missing file is an error.
LoadIdentity(c) ==
  /\ pc[c] = "idle" /\ calls[c] < MaxCalls
  /\ keyFile # None
  /\ Goto(c, "load")
  /\ calls' = [calls EXCEPT ![c] = @ + 1]
  /\ UNCHANGED <<disk, counter, name, fd, returned, met>>

-----------------------------------------------------------------------------
\* load_or_generate.

\* Mutant: load_or_generate goes straight to generate_and_persist.
CheckNothing(c) ==
  /\ pc[c] = "exists"
  /\ Goto(c, "draw")
  /\ UNCHANGED <<disk, counter, calls, locals, returned, met>>

\* path.exists() is false as well when the stat fails, whatever is there.
CheckExists(c) ==
  /\ pc[c] = "exists"
  /\ \/ Goto(c, IF keyFile # None THEN "load" ELSE "draw") /\ UNCHANGED met
     \/ Goto(c, "draw") /\ Meet(c, "stat")
  /\ UNCHANGED <<disk, counter, calls, locals, returned>>

\* load_existing: a file of another length than 32 bytes is an error.
LoadExisting(c) ==
  /\ pc[c] = "load"
  /\ \/ /\ keyFile # None
        /\ content[keyFile] # Partial
        /\ Return(c, content[keyFile])
     \/ /\ keyFile = None \/ content[keyFile] = Partial
        /\ End(c)
        /\ UNCHANGED returned
  /\ UNCHANGED <<disk, counter, calls, met>>

-----------------------------------------------------------------------------
\* generate_and_persist.

\* Mutant: the counter is read but not advanced.
DrawSameName(c) ==
  /\ pc[c] = "draw"
  /\ Goto(c, "tmp_open")
  /\ name' = [name EXCEPT ![c] = <<PidOf[ProcOf[c]], counter[ProcOf[c]]>>]
  /\ UNCHANGED <<disk, counter, calls, fd, returned, met>>

\* The seed is drawn, and the temporary name from pid and counter.
DrawName(c) ==
  LET pr == ProcOf[c] IN
  /\ pc[c] = "draw"
  /\ Goto(c, "tmp_open")
  /\ name' = [name EXCEPT ![c] = <<PidOf[pr], counter[pr]>>]
  /\ counter' = [counter EXCEPT ![pr] = @ + 1]
  /\ UNCHANGED <<disk, calls, fd, returned, met>>

\* write_identity_file, create and truncate: a file that already has the name
\* is opened, otherwise a new one is created.
OpenTmp(c) ==
  /\ pc[c] = "tmp_open"
  /\ Goto(c, "tmp_write")
  /\ \E f \in Call :
       /\ \/ tmpName[f] = name[c]
          \/ f = Me(c) /\ \A g \in Call : tmpName[g] # name[c]
       /\ tmpName' = [tmpName EXCEPT ![f] = name[c]]
       /\ content' = [content EXCEPT ![f] = Partial]
       /\ fd' = [fd EXCEPT ![c] = f]
  /\ UNCHANGED <<keyFile, counter, calls, name, returned, met>>

WriteTmp(c) ==
  /\ pc[c] = "tmp_write"
  /\ Goto(c, "tmp_chmod")
  /\ content' = [content EXCEPT ![fd[c]] = Me(c)]
  /\ fd' = [fd EXCEPT ![c] = None]
  /\ UNCHANGED <<keyFile, tmpName, counter, calls, name, returned, met>>

\* set_permissions goes by name.
ChmodTmp(c) ==
  /\ pc[c] = "tmp_chmod"
  /\ Goto(c, IF \E f \in Call : tmpName[f] = name[c] THEN "tmp_link" ELSE "err")
  /\ UNCHANGED <<disk, counter, calls, locals, returned, met>>

\* Mutant: the file is renamed over the key path.
RenameTmp(c) ==
  /\ pc[c] = "tmp_link"
  /\ \E f \in Call :
       /\ tmpName[f] = name[c]
       /\ keyFile' = f
       /\ tmpName' = [tmpName EXCEPT ![f] = None]
  /\ Goto(c, "win")
  /\ UNCHANGED <<content, counter, calls, locals, returned, met>>

\* Mutant: AlreadyExists is an error like any other.
LinkOrFail(c) ==
  /\ pc[c] = "tmp_link"
  /\ \/ \E f \in Call :
          /\ tmpName[f] = name[c] /\ keyFile = None
          /\ keyFile' = f
          /\ Goto(c, "win")
     \/ /\ keyFile # None \/ \A f \in Call : tmpName[f] # name[c]
        /\ Goto(c, "err")
        /\ UNCHANGED keyFile
  /\ UNCHANGED <<tmpName, content, counter, calls, locals, returned, met>>

\* hard_link publishes the file unless the key path exists.
LinkTmp(c) ==
  /\ pc[c] = "tmp_link"
  /\ \/ \E f \in Call :
          /\ tmpName[f] = name[c] /\ keyFile = None
          /\ keyFile' = f
          /\ Goto(c, "win")
     \/ /\ \E f \in Call : tmpName[f] = name[c] /\ keyFile # None
        /\ Goto(c, "lose")
        /\ UNCHANGED keyFile
     \/ /\ \A f \in Call : tmpName[f] # name[c]
        /\ Goto(c, "err")
        /\ UNCHANGED keyFile
  /\ UNCHANGED <<tmpName, content, counter, calls, locals, returned, met>>

\* remove_tmp_file is best effort: a removal that fails is only logged.
RemoveTmpFile(c) ==
  \/ /\ tmpName' = [f \in Call |-> IF tmpName[f] = name[c] THEN None ELSE tmpName[f]]
     /\ UNCHANGED met
  \/ Meet(c, "unlink") /\ UNCHANGED tmpName

\* Mutant: the seed is wiped before the identity is made from it.
WonWiped(c) ==
  /\ pc[c] = "win"
  /\ RemoveTmpFile(c)
  /\ Return(c, Partial)
  /\ UNCHANGED <<keyFile, content, counter, calls>>

\* The three arms of the match on the result of hard_link; the last one is
\* also what follows a failed write.
Won(c) ==
  /\ pc[c] = "win"
  /\ RemoveTmpFile(c)
  /\ Return(c, Me(c))
  /\ UNCHANGED <<keyFile, content, counter, calls>>

\* Mutant: the loser leaves its temporary file behind.
LostKeepTmp(c) ==
  /\ pc[c] = "lose"
  /\ Goto(c, "load")
  /\ name' = [name EXCEPT ![c] = None]
  /\ UNCHANGED <<disk, counter, calls, fd, returned, met>>

Lost(c) ==
  /\ pc[c] = "lose"
  /\ RemoveTmpFile(c)
  /\ Goto(c, "load")
  /\ name' = [name EXCEPT ![c] = None]
  /\ UNCHANGED <<keyFile, content, counter, calls, fd, returned>>

Failed(c) ==
  /\ pc[c] = "err"
  /\ RemoveTmpFile(c)
  /\ End(c)
  /\ UNCHANGED <<keyFile, content, counter, calls, returned>>

-----------------------------------------------------------------------------
\* A file system call of c fails: create_dir_all, or the read of the key file,
\* ends the call; otherwise the temporary file is removed first.
IoError(c) ==
  /\ Meet(c, "io")
  /\ \/ pc[c] \in {"draw", "load"} /\ End(c)
     \/ /\ pc[c] \in {"tmp_open", "tmp_write", "tmp_chmod", "tmp_link"}
        /\ Goto(c, "err")
        /\ fd' = [fd EXCEPT ![c] = None]
        /\ UNCHANGED name
  /\ UNCHANGED <<disk, counter, calls, returned>>

\* A process ends, or is killed in the middle of its calls; the next process
\* with its process id counts from zero.
Die(pr) ==
  LET mine == {c \in Callers : ProcOf[c] = pr}
      Reset(f, v) == [c \in Callers |-> IF c \in mine THEN v ELSE f[c]]
  IN
  /\ May("kill") \/ \A c \in mine : pc[c] = "idle"
  /\ counter[pr] > 0 \/ \E c \in mine : pc[c] # "idle"
  /\ counter' = [counter EXCEPT ![pr] = 0]
  /\ pc' = Reset(pc, "idle")
  /\ name' = Reset(name, None)
  /\ fd' = Reset(fd, None)
  /\ met' = met \cup {<<Me(c), "kill">> : c \in {d \in mine : pc[d] # "idle"}}
  /\ UNCHANGED <<disk, calls, returned>>

Step(c) ==
  \/ CheckExists(c) \/ LoadExisting(c)
  \/ DrawName(c) \/ OpenTmp(c) \/ WriteTmp(c) \/ ChmodTmp(c) \/ LinkTmp(c)
  \/ Won(c) \/ Lost(c) \/ Failed(c)

Next ==
  \/ \E c \in Callers : Generate(c) \/ LoadIdentity(c) \/ Step(c) \/ IoError(c)
  \/ \E pr \in Process : Die(pr)

Spec == Init /\ [][Next]_vars

\* Every thread is scheduled: no step of a call waits for another caller.
Fairness == \A c \in Callers : WF_vars(Step(c))

FairSpec == Spec /\ Fairness

-----------------------------------------------------------------------------
\* Properties.

Key == INSTANCE WriteOnceKey WITH
  Seeds <- Call, NoSeed <- None,
  key <- IF keyFile = None THEN None ELSE content[keyFile],
  held <- {r.seed : r \in returned}

(***************************************************************************)
(* Racing calls of load_or_generate, cut short anywhere and followed by    *)
(* processes with the same id, implement a key that is written once: the   *)
(* key file appears whole, never changes, and only its seed is returned.   *)
(***************************************************************************)
ImplementsWriteOnceKey == Key!Spec

(***************************************************************************)
(* No caller ever holds an identity that differs from the persisted file:  *)
(* winners and losers of the publish race return the seed that is on disk, *)
(* and it is still there at any later time.                                *)
(***************************************************************************)
ReturnedIsPersisted ==
  \A r \in returned : keyFile # None /\ content[keyFile] = r.seed

(***************************************************************************)
(* Concurrent generators never clobber each other's in-flight temporary    *)
(* file: what a caller is about to publish is the seed it drew.            *)
(***************************************************************************)
TmpOwned ==
  \A c \in Callers : pc[c] \in {"tmp_chmod", "tmp_link"} =>
    \E f \in Call : tmpName[f] = name[c] /\ f # keyFile /\ content[f] = Me(c)

(***************************************************************************)
(* No temporary file, and so no candidate seed, is left behind: a call     *)
(* that returns, fails or goes on to load the winner's key has removed the *)
(* file it made, whoever raced with it, unless it was killed or that very  *)
(* removal failed.                                                         *)
(***************************************************************************)
NoTmpLeft ==
  \A f \in Call : tmpName[f] # None =>
    \/ Me(f[1]) = f /\ pc[f[1]] \notin {"idle", "load"}
    \/ <<f, "kill">> \in met \/ <<f, "unlink">> \in met

(***************************************************************************)
(* Every call returns an identity unless it is killed or one of its own    *)
(* file system calls fails: losing the race, a failed stat or removal, and *)
(* what others left behind are never an error.                             *)
(***************************************************************************)
EveryCallReturns ==
  \A k \in Call :
    pc[k[1]] # "idle" /\ Me(k[1]) = k ~>
      \/ \E r \in returned : r.by = k
      \/ <<k, "io">> \in met \/ <<k, "kill">> \in met

=============================================================================
