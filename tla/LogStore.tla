------------------------------- MODULE LogStore -------------------------------
(***************************************************************************)
(* The on-disk log directory behind the `lys log` commands                 *)
(* (crates/lys/src/commands/log/store.rs), run by any number of operating  *)
(* system processes.  A process executes one command at a time: init,      *)
(* append, checkpoint, prove inclusion or prove consistency.  Every file   *)
(* system call of a command is a step of its own, so that commands         *)
(* interleave between the calls and a process may die after any of them.   *)
(*                                                                         *)
(* The directory holds log.json (the origin), leaves/<index> (one file per *)
(* leaf), state.json (the pinned tree size and root) and, while a state is *)
(* being replaced, state.json.tmp, a name all processes share.             *)
(*                                                                         *)
(* The serial regime that store.rs calls "single-writer" is the instance   *)
(* with one process; Initers, Appenders and Signers assign the commands.   *)
(***************************************************************************)
EXTENDS Naturals, Sequences

CONSTANTS
  Procs,        \* operating system processes (slots: each runs commands in turn)
  Initers,      \* the processes that may run `log init`
  Appenders,    \* the processes that may run `log append`
  Signers,      \* the processes that may run `log checkpoint` and `log prove`
  Crashes,      \* may a process die, or meet an I/O error, between two calls?
  Damage,       \* may leaf files be lost or altered from outside (bit rot)?
  Origin,       \* origins that CheckpointBody::from_root accepts and sign_note signs
  Payload,      \* leaf bytes; one element per `log append` ever issued
  MaxLeaves,    \* bound on the number of leaf files
  Absent,       \* a file that does not exist, a value that is not set
  Malformed,    \* a JSON file that does not parse: truncated or half written
  Empty         \* the bytes of a leaf file just created: none

ASSUME RolesAssumption == Initers \cup Appenders \cup Signers \subseteq Procs
ASSUME FaultsAssumption == Crashes \in BOOLEAN /\ Damage \in BOOLEAN
ASSUME BoundAssumption == MaxLeaves \in Nat

Index == 0..(MaxLeaves - 1)

\* A leaf file whose write_all was cut short: a proper non-empty prefix of d.
Torn(d) == <<"torn", d>>

\* What a leaf file may hold.
Bytes == Payload \cup {Empty} \cup {Torn(d) : d \in Payload}

(***************************************************************************)
(* The pinned state for a sequence of leaves.  The RFC 6962 root is taken  *)
(* to be collision free, so it is represented by what it commits to.       *)
(***************************************************************************)
Pin(leaves) == [tree_size |-> Len(leaves), root_hash |-> leaves]

PinSet == [tree_size : Nat, root_hash : Seq(Bytes)]

\* The absent, unparsable and empty values are none of the real ones.
ASSUME DistinctAssumption ==
  /\ Absent # Malformed
  /\ {Absent, Malformed} \cap (Origin \cup Bytes) = {}
  /\ Absent \notin PinSet /\ Malformed \notin PinSet
  /\ Empty \notin Payload
  /\ \A d \in Payload : Torn(d) \notin Payload

VARIABLES
  logJson,      \* log.json: an origin, Malformed or Absent
  leaf,         \* leaves/<i>, by index: bytes or Absent
  stateJson,    \* state.json: a pin, Malformed or Absent
  tmp,          \* state.json.tmp: a pin, Malformed or Absent
  pc,           \* the next call of each process
  loc,          \* the local state of each process's command
  fd,           \* the file each process holds open inside write_state
  pending,      \* payloads not yet given to an append
  acked,        \* (index, bytes) pairs reported by a successful append
  signed,       \* (origin, pin) pairs for which a signed note was written
  inited        \* origins reported by a successful init

files == <<logJson, leaf, stateJson, tmp>>
reports == <<acked, signed, inited>>
vars == <<logJson, leaf, stateJson, tmp, pc, loc, fd, pending,
          acked, signed, inited>>

Commands == {"init", "append", "checkpoint", "inclusion", "consistency"}

Steps == {"idle", "log_open", "log_write",                  \* init
          "read_log", "read_state", "list", "read_leaf", "check",    \* open
          "tmp_open", "tmp_write", "rename",                         \* write_state
          "leaf_create", "leaf_write", "sign", "report"}

\* The local variables of a command: its name and inputs, the pinned state and
\* the number of leaves it found, the tree in memory, the caller of write_state.
Locals == [cmd : Commands \cup {"none"},
           origin : Origin \cup {Absent},
           data : Payload \cup {Absent},
           pinned : PinSet \cup {Absent},
           count : 0..MaxLeaves,
           mem : Seq(Bytes),
           after : {"none", "init", "open", "append"}]

NoCommand == [cmd |-> "none", origin |-> Absent, data |-> Absent,
              pinned |-> Absent, count |-> 0, mem |-> << >>, after |-> "none"]

TypeOK ==
  /\ logJson \in Origin \cup {Absent, Malformed}
  /\ leaf \in [Index -> Bytes \cup {Absent}]
  /\ stateJson \in PinSet \cup {Absent, Malformed}
  /\ tmp \in PinSet \cup {Absent, Malformed}
  /\ pc \in [Procs -> Steps]
  /\ loc \in [Procs -> Locals]
  /\ fd \in [Procs -> {"none", "tmp", "state", "gone"}]
  /\ pending \subseteq Payload
  /\ acked \subseteq [index : Index, data : Payload]
  /\ signed \subseteq [origin : Origin, pin : PinSet]
  /\ inited \subseteq Origin

Init ==
  /\ logJson = Absent
  /\ leaf = [i \in Index |-> Absent]
  /\ stateJson = Absent
  /\ tmp = Absent
  /\ pc = [p \in Procs |-> "idle"]
  /\ loc = [p \in Procs |-> NoCommand]
  /\ fd = [p \in Procs |-> "none"]
  /\ pending = Payload
  /\ acked = {}
  /\ signed = {}
  /\ inited = {}

-------------------------------------------------------------------------------
\* Control flow of one process.

At(p, step) == pc[p] = step

Goto(p, step) == pc' = [pc EXCEPT ![p] = step]

\* The command ends, successfully or with an error: its process is gone.
Exit(p) ==
  /\ pc' = [pc EXCEPT ![p] = "idle"]
  /\ loc' = [loc EXCEPT ![p] = NoCommand]
  /\ fd' = [fd EXCEPT ![p] = "none"]

\* The command ends with an error and leaves the directory as it is.
Fail(p) ==
  /\ Exit(p)
  /\ UNCHANGED <<files, pending, reports>>

\* The in-memory tree of an open store, and its length.
mem(p) == loc[p].mem

-------------------------------------------------------------------------------
\* Starting a command.

StartInit(p, o) ==
  /\ At(p, "idle") /\ p \in Initers
  /\ logJson = Absent              \* otherwise refused: already initialized
  /\ Goto(p, "log_open")
  /\ loc' = [loc EXCEPT ![p] = [NoCommand EXCEPT !.cmd = "init", !.origin = o,
                                                 !.after = "init"]]
  /\ UNCHANGED <<files, fd, pending, reports>>

StartAppend(p, d) ==
  /\ At(p, "idle") /\ p \in Appenders
  /\ d \in pending
  /\ Goto(p, "read_log")
  /\ loc' = [loc EXCEPT ![p] = [NoCommand EXCEPT !.cmd = "append", !.data = d]]
  /\ pending' = pending \ {d}
  /\ UNCHANGED <<files, fd, reports>>

StartSign(p, c) ==
  /\ At(p, "idle") /\ p \in Signers
  /\ Goto(p, "read_log")
  /\ loc' = [loc EXCEPT ![p] = [NoCommand EXCEPT !.cmd = c]]
  /\ UNCHANGED <<files, fd, pending, reports>>

-------------------------------------------------------------------------------
\* LogStore::init, after the existence check.  It creates leaves/ before
\* log.json, so whoever finds log.json finds leaves/ as well.

\* fs::write opens the file with O_CREAT and O_TRUNC, then writes.  If another
\* init wrote a longer document in between, its tail stays behind.
OpenLogJson(p) ==
  /\ At(p, "log_open")
  /\ Goto(p, "log_write")
  /\ logJson' = Malformed
  /\ UNCHANGED <<leaf, stateJson, tmp, loc, fd, pending, reports>>

WriteLogJson(p) ==
  /\ At(p, "log_write")
  /\ Goto(p, "tmp_open")
  /\ logJson' \in {loc[p].origin} \cup
                  IF logJson \in Origin \ {loc[p].origin} THEN {Malformed} ELSE {}
  /\ UNCHANGED <<leaf, stateJson, tmp, loc, fd, pending, reports>>

-------------------------------------------------------------------------------
\* LogStore::open.

ReadLogJson(p) ==
  /\ At(p, "read_log")
  /\ \/ /\ logJson \in Origin
        /\ Goto(p, "read_state")
        /\ loc' = [loc EXCEPT ![p].origin = logJson]
        /\ UNCHANGED <<files, fd, pending, reports>>
     \/ logJson \notin Origin /\ Fail(p)      \* LogDirMissing, LogDirInvalid

ReadStateJson(p) ==
  /\ At(p, "read_state")
  /\ \/ /\ stateJson \notin {Absent, Malformed}
        /\ Goto(p, "list")
        /\ loc' = [loc EXCEPT ![p].pinned = stateJson]
        /\ UNCHANGED <<files, fd, pending, reports>>
     \/ stateJson \in {Absent, Malformed} /\ Fail(p)

\* The indices listed are exactly 0..n-1.
Listed(n) == \A i \in Index : leaf[i] # Absent <=> i < n

\* read_leaves, first half: list the directory and check contiguity.
ListLeaves(p) ==
  /\ At(p, "list")
  /\ \/ \E n \in 0..MaxLeaves :
          /\ Listed(n)
          /\ Goto(p, IF n = 0 THEN "check" ELSE "read_leaf")
          /\ loc' = [loc EXCEPT ![p].count = n]
          /\ UNCHANGED <<files, fd, pending, reports>>
     \/ (\A n \in 0..MaxLeaves : ~Listed(n)) /\ Fail(p)

\* read_leaves, second half: the listed files are read one after the other.
\* A file that has gone since it was listed is an error.
ReadLeaf(p) ==
  LET i == Len(mem(p)) IN
  /\ At(p, "read_leaf")
  /\ \/ /\ leaf[i] # Absent
        /\ Goto(p, IF i + 1 = loc[p].count THEN "check" ELSE "read_leaf")
        /\ loc' = [loc EXCEPT ![p].mem = Append(@, leaf[i])]
        /\ UNCHANGED <<files, fd, pending, reports>>
     \/ leaf[i] = Absent /\ Fail(p)

\* Where a command goes on once its store is open.
Opened(p) == IF loc[p].cmd = "append" THEN "leaf_create" ELSE "sign"

Agrees(p) == Pin(mem(p)) = loc[p].pinned

\* Mutant: the recovery does not compare the prefix root.
InterruptedBySize(p) == Len(mem(p)) = loc[p].pinned.tree_size + 1

\* Exactly one extra leaf, and the prefix root is the pinned root.
Interrupted(p) ==
  LET n == loc[p].pinned.tree_size IN
  /\ Len(mem(p)) = n + 1
  /\ Pin(SubSeq(mem(p), 1, n)).root_hash = loc[p].pinned.root_hash

\* Mutant: the recovery does not write the repaired state back.
CheckWithoutRepair(p) ==
  /\ At(p, "check")
  /\ \/ /\ Agrees(p) \/ Interrupted(p)
        /\ Goto(p, Opened(p))
        /\ UNCHANGED <<files, loc, fd, pending, reports>>
     \/ ~Agrees(p) /\ ~Interrupted(p) /\ Fail(p)

CheckAgainstState(p) ==
  /\ At(p, "check")
  /\ \/ /\ Agrees(p)
        /\ Goto(p, Opened(p))
        /\ UNCHANGED <<files, loc, fd, pending, reports>>
     \/ /\ ~Agrees(p) /\ Interrupted(p)
        /\ Goto(p, "tmp_open")
        /\ loc' = [loc EXCEPT ![p].after = "open"]
        /\ UNCHANGED <<files, fd, pending, reports>>
     \/ ~Agrees(p) /\ ~Interrupted(p) /\ Fail(p)       \* LogDirInvalid

-------------------------------------------------------------------------------
(***************************************************************************)
(* write_state: truncate and write state.json.tmp, then rename it.  Two    *)
(* processes that open the shared name hold the same file, and keep        *)
(* writing to it after one of them renamed it: fd[p] says whether p's file *)
(* is now called state.json.tmp, state.json or nothing.                    *)
(***************************************************************************)

OpenTmp(p) ==
  /\ At(p, "tmp_open")
  /\ Goto(p, "tmp_write")
  /\ tmp' = Malformed
  /\ fd' = [fd EXCEPT ![p] = "tmp"]
  /\ UNCHANGED <<logJson, leaf, stateJson, loc, pending, reports>>

WriteTmp(p) ==
  /\ At(p, "tmp_write")
  /\ Goto(p, "rename")
  /\ tmp' = IF fd[p] = "tmp" THEN Pin(mem(p)) ELSE tmp
  /\ stateJson' = IF fd[p] = "state" THEN Pin(mem(p)) ELSE stateJson
  /\ fd' = [fd EXCEPT ![p] = "none"]
  /\ UNCHANGED <<logJson, leaf, loc, pending, reports>>

\* What a name change of state.json.tmp makes of an open file.
Renamed(f) == CASE f = "tmp" -> "state" [] f = "state" -> "gone" [] OTHER -> f

\* Mutant: an append that fails here takes its leaf file back.
RenameOrUndo(p) ==
  /\ At(p, "rename")
  /\ \/ /\ tmp # Absent
        /\ Goto(p, IF loc[p].after = "open" THEN Opened(p) ELSE "report")
        /\ stateJson' = tmp
        /\ tmp' = Absent
        /\ fd' = [q \in Procs |-> Renamed(fd[q])]
        /\ UNCHANGED <<logJson, leaf, loc, pending, reports>>
     \/ /\ tmp = Absent
        /\ Exit(p)
        /\ leaf' = IF loc[p].after = "append"
                   THEN [leaf EXCEPT ![Len(mem(p)) - 1] = Absent] ELSE leaf
        /\ UNCHANGED <<logJson, stateJson, tmp, pending, reports>>

Rename(p) ==
  /\ At(p, "rename")
  /\ \/ /\ tmp # Absent
        /\ Goto(p, IF loc[p].after = "open" THEN Opened(p) ELSE "report")
        /\ stateJson' = tmp
        /\ tmp' = Absent
        /\ fd' = [q \in Procs |-> Renamed(fd[q])]
        /\ UNCHANGED <<logJson, leaf, loc, pending, reports>>
     \/ tmp = Absent /\ Fail(p)

-------------------------------------------------------------------------------
\* LogStore::append.

\* Mutant: create and truncate instead of create_new.
CreateLeafClobber(p) ==
  LET i == Len(mem(p)) IN
  /\ At(p, "leaf_create")
  /\ i \in Index
  /\ Goto(p, "leaf_write")
  /\ leaf' = [leaf EXCEPT ![i] = Empty]
  /\ UNCHANGED <<logJson, stateJson, tmp, loc, fd, pending, reports>>

\* create_new: O_EXCL makes a second creator of the same index fail.
CreateLeaf(p) ==
  LET i == Len(mem(p)) IN
  /\ At(p, "leaf_create")
  /\ i \in Index                              \* the bound of the model
  /\ \/ /\ leaf[i] = Absent
        /\ Goto(p, "leaf_write")
        /\ leaf' = [leaf EXCEPT ![i] = Empty]
        /\ UNCHANGED <<logJson, stateJson, tmp, loc, fd, pending, reports>>
     \/ leaf[i] # Absent /\ Fail(p)

\* write_all may need several writes ...
WriteLeafPart(p) ==
  /\ At(p, "leaf_write")
  /\ leaf' = [leaf EXCEPT ![Len(mem(p))] = Torn(loc[p].data)]
  /\ UNCHANGED <<logJson, stateJson, tmp, pc, loc, fd, pending, reports>>

\* ... and then the in-memory tree is extended.
WriteLeaf(p) ==
  /\ At(p, "leaf_write")
  /\ Goto(p, "tmp_open")
  /\ leaf' = [leaf EXCEPT ![Len(mem(p))] = loc[p].data]
  /\ loc' = [loc EXCEPT ![p].mem = Append(@, loc[p].data), ![p].after = "append"]
  /\ UNCHANGED <<logJson, stateJson, tmp, fd, pending, reports>>

\* Mutant: append returns the new length instead of the index.
ReportLength(p) ==
  /\ At(p, "report")
  /\ Exit(p)
  /\ acked' = IF loc[p].cmd = "append"
              THEN acked \cup {[index |-> Len(mem(p)), data |-> loc[p].data]}
              ELSE acked
  /\ inited' = IF loc[p].cmd = "init" THEN inited \cup {loc[p].origin} ELSE inited
  /\ UNCHANGED <<files, pending, signed>>

\* The command returns Ok and prints what it did.
Report(p) ==
  /\ At(p, "report")
  /\ Exit(p)
  /\ acked' = IF loc[p].cmd = "append"
              THEN acked \cup {[index |-> Len(mem(p)) - 1, data |-> loc[p].data]}
              ELSE acked
  /\ inited' = IF loc[p].cmd = "init" THEN inited \cup {loc[p].origin} ELSE inited
  /\ UNCHANGED <<files, pending, signed>>

-------------------------------------------------------------------------------
\* Commands that sign roots of the open store and write them out.

Note(p, leaves) == [origin |-> loc[p].origin, pin |-> Pin(leaves)]

Checkpoint(p) ==
  /\ At(p, "sign") /\ loc[p].cmd = "checkpoint"
  /\ Exit(p)
  /\ signed' = signed \cup {Note(p, mem(p))}
  /\ UNCHANGED <<files, pending, acked, inited>>

\* An index outside the tree is an error; otherwise the artifact embeds a
\* checkpoint of the current root.
ProveInclusion(p, i) ==
  /\ At(p, "sign") /\ loc[p].cmd = "inclusion"
  /\ Exit(p)
  /\ signed' = IF i < Len(mem(p)) THEN signed \cup {Note(p, mem(p))} ELSE signed
  /\ UNCHANGED <<files, pending, acked, inited>>

\* Mutant: the old tree is built from the last leaves instead of the first.
ProveSuffix(p, old) ==
  LET n == Len(mem(p)) IN
  /\ At(p, "sign") /\ loc[p].cmd = "consistency"
  /\ Exit(p)
  /\ signed' = IF old < n
               THEN signed \cup {Note(p, SubSeq(mem(p), n - old + 1, n)), Note(p, mem(p))}
               ELSE signed
  /\ UNCHANGED <<files, pending, acked, inited>>

\* The command line excludes an old size of zero.  One that is not smaller is an
\* error; otherwise the artifact embeds checkpoints of the prefix and of the
\* current root.
ProveConsistency(p, old) ==
  /\ At(p, "sign") /\ loc[p].cmd = "consistency"
  /\ Exit(p)
  /\ signed' = IF old < Len(mem(p))
               THEN signed \cup {Note(p, SubSeq(mem(p), 1, old)), Note(p, mem(p))}
               ELSE signed
  /\ UNCHANGED <<files, pending, acked, inited>>

-------------------------------------------------------------------------------
\* The process dies, or a call returns an I/O error that ends the command.
Crash(p) ==
  /\ Crashes
  /\ pc[p] # "idle"
  /\ Exit(p)
  /\ UNCHANGED <<files, pending, reports>>

\* A leaf file nobody is writing is lost or altered: the local bit-rot or
\* tampering that the pinned root is there to detect.
Rot(i, b) ==
  /\ Damage
  /\ leaf[i] \notin {Absent, b}
  /\ \A p \in Procs : pc[p] = "leaf_write" => Len(mem(p)) # i
  /\ leaf' = [leaf EXCEPT ![i] = b]
  /\ UNCHANGED <<logJson, stateJson, tmp, pc, loc, fd, pending, reports>>

Step(p) ==
  \/ OpenLogJson(p) \/ WriteLogJson(p)
  \/ ReadLogJson(p) \/ ReadStateJson(p) \/ ListLeaves(p) \/ ReadLeaf(p)
  \/ CheckAgainstState(p)
  \/ OpenTmp(p) \/ WriteTmp(p) \/ Rename(p)
  \/ CreateLeaf(p) \/ WriteLeafPart(p) \/ WriteLeaf(p)
  \/ Report(p)
  \/ Checkpoint(p)
  \/ \E i \in 0..MaxLeaves : ProveInclusion(p, i)
  \/ \E old \in 1..MaxLeaves : ProveConsistency(p, old)

Start(p) ==
  \/ \E o \in Origin : StartInit(p, o)
  \/ \E d \in Payload : StartAppend(p, d)
  \/ \E c \in {"checkpoint", "inclusion", "consistency"} : StartSign(p, c)

Next ==
  \/ \E p \in Procs : Start(p) \/ Step(p) \/ Crash(p)
  \/ \E i \in Index, b \in Payload \cup {Empty, Absent} : Rot(i, b)

Spec == Init /\ [][Next]_vars

-------------------------------------------------------------------------------
\* Refinement.  The log that others rely on is the one state.json pins.

Abstract == INSTANCE AppendOnlyLog WITH
  Names <- Origin, Entries <- Bytes, NoName <- Absent,
  name <- IF logJson \in Origin THEN logJson ELSE Absent,
  log <- IF stateJson \in {Absent, Malformed} THEN << >> ELSE stateJson.root_hash

(***************************************************************************)
(* Run one command at a time, the directory is an append-only log: every   *)
(* step of init, open (its repair included), append, checkpoint and prove, *)
(* every crash and every damaged leaf file is a step of AppendOnlyLog or   *)
(* changes nothing it can see.                                             *)
(***************************************************************************)
ImplementsAppendOnlyLog == Abstract!Spec

-------------------------------------------------------------------------------
\* Properties.

\* LogStore::open would accept the directory as it is on disk now.
Openable ==
  /\ logJson \in Origin
  /\ stateJson \notin {Absent, Malformed}
  /\ \E n \in 0..MaxLeaves :
       LET leaves == [i \in 1..n |-> leaf[i - 1]] IN
       /\ Listed(n)
       /\ \/ Pin(leaves) = stateJson
          \/ n > 0 /\ Pin(SubSeq(leaves, 1, n - 1)) = stateJson

\* The leaf files that state.json pins hold what it pins.
PinnedIntact ==
  stateJson \notin {Absent, Malformed} =>
    \A i \in 1..stateJson.tree_size : leaf[i - 1] = stateJson.root_hash[i]

(***************************************************************************)
(* Once an init has succeeded, the directory opens whenever no command is  *)
(* running, unless leaf files that state.json pins were damaged: neither   *)
(* finished nor interrupted appends, checkpoints and proofs, nor damage to *)
(* the leaf that an interrupted append left, ever leave a directory behind *)
(* that store.rs rejects.                                                  *)
(***************************************************************************)
DirOpens ==
  /\ inited # {} /\ (\A p \in Procs : pc[p] = "idle")
  /\ Damage => PinnedIntact
  => Openable

(***************************************************************************)
(* All notes ever signed by checkpoint and prove, through crashes and      *)
(* recoveries, name one origin and commit to prefixes of one log: the log  *)
(* never signs two different roots for one tree size.                      *)
(***************************************************************************)
NoEquivocation ==
  \A s, t \in signed :
    /\ s.origin = t.origin
    /\ s.pin.tree_size <= t.pin.tree_size =>
         s.pin.root_hash = SubSeq(t.pin.root_hash, 1, s.pin.tree_size)

(***************************************************************************)
(* An index and bytes that append reported stay in the log: the leaf file  *)
(* keeps those bytes whatever other commands, crashes and recoveries do.   *)
(***************************************************************************)
AckDurable == \A a \in acked : leaf[a.index] = a.data

\* The leaf files are always exactly the indices 0..n-1, so that the
\* contiguity check of read_leaves never rejects what append wrote.
LeavesContiguous == \E n \in 0..MaxLeaves : Listed(n)

(***************************************************************************)
(* A whole leaf that a signed root commits to is the leaf on disk, for     *)
(* ever: the only bytes under a signature that can still change are those  *)
(* of a leaf that was read while append was writing it.                    *)
(***************************************************************************)
SignedWholeLeaves ==
  \A s \in signed : \A i \in 1..Len(s.pin.root_hash) :
    s.pin.root_hash[i] \in Payload => leaf[i - 1] = s.pin.root_hash[i]

===============================================================================
