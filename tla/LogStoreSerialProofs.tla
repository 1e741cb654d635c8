------------------------- MODULE LogStoreSerialProofs -------------------------
(***************************************************************************)
(* What store.rs promises of the "single-writer" regime: with one command  *)
(* at a time, cut short anywhere, and whatever becomes of the leaf files,  *)
(* the directory is an append-only log that never signs two histories; and *)
(* it opens again unless leaf files that state.json pins were damaged.     *)
(*                                                                         *)
(* The log that matters is the one that state.json pins (TheLog).  The     *)
(* inductive invariant says how the tree in the memory of a command is     *)
(* related to it at each step: equal once the store is open, longer by one *)
(* leaf while a state is being written.                                    *)
(***************************************************************************)
EXTENDS LogStoreProofs, SignedLog, MerkleProofs

\* One process runs the commands, one after the other.
Serial == \A p, q \in Procs : p = q

\* The log that state.json pins.
TheLog == IF stateJson = Absent THEN << >> ELSE stateJson.root_hash

\* state.json is missing or whole; leaf files go at most one beyond it.
DirInv ==
  /\ \/ stateJson = Absent
     \/ /\ TheLog \in Seq(Bytes) /\ stateJson = Pin(TheLog) /\ Len(TheLog) <= MaxLeaves
        /\ logJson \in Origin
  /\ stateJson = Absent =>
       inited = {} /\ signed = {} /\ \A i \in Index : leaf[i] = Absent
  /\ \A i \in Index : i > Len(TheLog) => leaf[i] = Absent
  /\ ~Damage => \A j \in 1..Len(TheLog) : leaf[j - 1] = TheLog[j]

\* What was signed are prefixes of the log, under its origin.
SignedInv ==
  \A s \in signed :
    s.origin = logJson /\ \E n \in 0..Len(TheLog) : s.pin = Pin(SubSeq(TheLog, 1, n))

\* The steps of init.
InitInv(p) ==
  /\ pc[p] = "log_open" => logJson = Absent
  /\ pc[p] = "log_write" => logJson = Malformed
  /\ loc[p].cmd = "init" => mem(p) = << >>
  /\ pc[p] \in WriteStateSteps /\ loc[p].cmd = "init" =>
       stateJson = Absent /\ logJson = loc[p].origin

\* What the command has read of the directory is what is there.
ReadInv(p) ==
  /\ pc[p] \in OpenSteps \cup {"leaf_create", "leaf_write", "sign"} =>
       logJson \in Origin /\ loc[p].origin = logJson
  /\ pc[p] \in {"list", "read_leaf", "check"} =>
       stateJson # Absent /\ loc[p].pinned = stateJson
  /\ ~Damage => \A j \in 1..Len(mem(p)) : leaf[j - 1] = mem(p)[j]

\* The tree in memory and the log.
TreeInv(p) ==
  /\ pc[p] \in {"leaf_create", "leaf_write", "sign", "report"} =>
       stateJson # Absent /\ mem(p) = TheLog
  /\ pc[p] \in WriteStateSteps /\ loc[p].cmd # "init" =>
       /\ stateJson # Absent /\ loc[p].origin = logJson
       /\ Len(mem(p)) = Len(TheLog) + 1
       /\ TheLog = SubSeq(mem(p), 1, Len(TheLog))
  /\ pc[p] = "tmp_write" => fd[p] = "tmp"
  /\ pc[p] = "rename" => tmp = Pin(mem(p))

SerialProc(p) == InitInv(p) /\ ReadInv(p) /\ TreeInv(p)

SerialInv ==
  FlowInv /\ DirInv /\ SignedInv /\ \A p \in Procs : SerialProc(p)

-------------------------------------------------------------------------------
\* Facts used throughout.

LEMMA PinIs ==
  ASSUME NEW s
  PROVE  Pin(s).root_hash = s /\ Pin(s).tree_size = Len(s)
  BY DEF Pin

LEMMA PrefixOfPrefix ==
  ASSUME NEW S, NEW s \in Seq(S), NEW k \in 0..Len(s), NEW n \in 0..k
  PROVE  SubSeq(SubSeq(s, 1, k), 1, n) = SubSeq(s, 1, n)
  OBVIOUS

LEMMA LogType ==
  ASSUME SerialInv
  PROVE  /\ TheLog \in Seq(Bytes) /\ Len(TheLog) \in Nat /\ Len(TheLog) <= MaxLeaves
         /\ stateJson # Malformed
         /\ stateJson # Absent => stateJson = Pin(TheLog) /\ logJson \in Origin
         /\ stateJson = Absent => TheLog = << >>
         /\ Absent \notin Origin /\ Malformed \notin Origin
  BY PinType, DistinctAssumption, BoundAssumption DEF SerialInv, DirInv, TheLog

LEMMA SerialKnows ==
  ASSUME SerialInv, NEW p \in Procs
  PROVE  /\ TypeOK /\ FlowInv /\ DirInv /\ SignedInv /\ SerialProc(p)
         /\ loc[p] \in Locals /\ mem(p) \in Seq(Bytes) /\ Len(mem(p)) \in Nat
         /\ Flow(p) /\ CommandInv(p) /\ InitInv(p) /\ ReadInv(p) /\ TreeInv(p)
  <1>1. FlowInv /\ SerialProc(p)  BY DEF SerialInv
  <1>2. mem(p) \in Seq(Bytes)  BY <1>1, FlowKnows
  <1>3. Len(mem(p)) \in Nat  BY <1>2
  <1>4. QED  BY <1>1, <1>2, <1>3, FlowKnows DEF SerialInv, SerialProc

\* The one process takes a step.
LEMMA SerialStep ==
  ASSUME Serial, SerialInv, Next, NEW p \in Procs, DirInv', SignedInv', SerialProc(p)'
  PROVE  SerialInv'
  <1>1. FlowInv'  BY FlowNext DEF SerialInv
  <1>2. QED  BY <1>1 DEF SerialInv, Serial

\* A step that the log does not notice.
LEMMA UnseenStep ==
  ASSUME SerialInv, UNCHANGED <<logJson, leaf, stateJson, inited, signed>>
  PROVE  DirInv' /\ SignedInv' /\ TheLog' = TheLog
  BY DEF SerialInv, DirInv, SignedInv, TheLog

LEMMA ExitSerial ==
  ASSUME SerialInv, NEW p \in Procs, Exit(p)
  PROVE  SerialProc(p)'
  <1>1. pc'[p] = "idle" /\ loc'[p] = NoCommand
    BY SerialKnows DEF TypeOK, Exit
  <1>2. QED
    BY <1>1
    DEF SerialProc, InitInv, ReadInv, TreeInv, mem, NoCommand, OpenSteps, WriteStateSteps

LEMMA FailSerial ==
  ASSUME Serial, SerialInv, Next, NEW p \in Procs, Fail(p)
  PROVE  SerialInv'
  <1>1. DirInv' /\ SignedInv'  BY UnseenStep DEF Fail, files, reports
  <1>2. QED  BY <1>1, ExitSerial, SerialStep DEF Fail

LEMMA InitSerial == Init => SerialInv
  <1> SUFFICES ASSUME Init PROVE SerialInv  OBVIOUS
  <1>1. FlowInv  BY FlowInit
  <1>2. DirInv /\ SignedInv  BY DEF Init, DirInv, SignedInv, TheLog
  <1>3. ASSUME NEW p \in Procs PROVE SerialProc(p)
    BY DEF Init, SerialProc, InitInv, ReadInv, TreeInv, mem, NoCommand, OpenSteps, WriteStateSteps
  <1>4. QED  BY <1>1, <1>2, <1>3 DEF SerialInv

LEMMA StartSerial ==
  ASSUME Serial, SerialInv, Next, NEW p \in Procs, Start(p)
  PROVE  SerialInv'
  <1>1. PICK l \in Locals : Starts(p, l)  BY StartForm
  <1>2. UNCHANGED <<logJson, leaf, stateJson, inited, signed>>  BY StartForm
  <1>3. loc'[p] = l  BY <1>1, SerialKnows DEF Starts, TypeOK
  <1>4. \/ pc'[p] = "log_open" /\ logJson' = Absent
        \/ pc'[p] = "read_log"
    BY <1>1, <1>2, SerialKnows DEF Starts, TypeOK
  <1>5. mem(p)' = << >>  BY <1>1, <1>3 DEF Starts, mem
  <1>6. SerialProc(p)'
    BY <1>3, <1>4, <1>5 DEF SerialProc, InitInv, ReadInv, TreeInv, OpenSteps, WriteStateSteps
  <1>7. QED  BY <1>2, <1>6, UnseenStep, SerialStep

-------------------------------------------------------------------------------
\* init.

LEMMA OpenLogJsonSerial ==
  ASSUME Serial, SerialInv, Next, NEW p \in Procs, OpenLogJson(p)
  PROVE  SerialInv'
  <1>1. /\ pc[p] = "log_open" /\ pc'[p] = "log_write" /\ logJson' = Malformed
        /\ UNCHANGED <<leaf, stateJson, tmp, loc, fd, signed, inited>>
    BY SerialKnows DEF OpenLogJson, At, Goto, TypeOK, reports
  <1>2. logJson = Absent /\ stateJson = Absent
    BY <1>1, SerialKnows, LogType DEF InitInv
  <1>3. DirInv' /\ SignedInv'
    BY <1>1, <1>2, SerialKnows DEF DirInv, SignedInv, TheLog
  <1>4. SerialProc(p)'
    BY <1>1, SerialKnows
    DEF SerialProc, InitInv, ReadInv, TreeInv, mem, OpenSteps, WriteStateSteps
  <1>5. QED  BY <1>3, <1>4, SerialStep

LEMMA WriteLogJsonSerial ==
  ASSUME Serial, SerialInv, Next, NEW p \in Procs, WriteLogJson(p)
  PROVE  SerialInv'
  <1>1. logJson = Malformed /\ stateJson = Absent
    BY SerialKnows, LogType DEF InitInv, WriteLogJson, At
  <1>2. /\ pc[p] = "log_write" /\ pc'[p] = "tmp_open" /\ logJson' = loc[p].origin
        /\ UNCHANGED <<leaf, stateJson, tmp, loc, fd, signed, inited>>
    BY <1>1, SerialKnows, LogType DEF WriteLogJson, At, Goto, TypeOK, reports
  <1>3. DirInv' /\ SignedInv'
    BY <1>1, <1>2, SerialKnows DEF DirInv, SignedInv, TheLog
  <1>4. loc[p].cmd = "init"  BY <1>2, SerialKnows DEF CommandInv
  <1>5. SerialProc(p)'
    BY <1>1, <1>2, <1>4, SerialKnows
    DEF SerialProc, InitInv, ReadInv, TreeInv, mem, OpenSteps, WriteStateSteps
  <1>6. QED  BY <1>3, <1>5, SerialStep

-------------------------------------------------------------------------------
\* open.

LEMMA ReadLogJsonSerial ==
  ASSUME Serial, SerialInv, Next, NEW p \in Procs, ReadLogJson(p), ~Fail(p)
  PROVE  SerialInv'
  <1>1. /\ logJson \in Origin /\ pc[p] = "read_log" /\ pc'[p] = "read_state"
        /\ loc'[p] = [loc[p] EXCEPT !.origin = logJson]
        /\ UNCHANGED <<logJson, leaf, stateJson, tmp, fd, signed, inited>>
    BY SerialKnows DEF ReadLogJson, At, Goto, TypeOK, files, reports
  <1>2. loc'[p].origin = logJson /\ loc'[p].cmd = loc[p].cmd /\ mem(p)' = mem(p)
    BY <1>1, SerialKnows, LocalsKept DEF mem
  <1>3. SerialProc(p)'
    BY <1>1, <1>2, SerialKnows
    DEF SerialProc, InitInv, ReadInv, TreeInv, OpenSteps, WriteStateSteps
  <1>4. QED  BY <1>1, <1>3, UnseenStep, SerialStep

LEMMA ReadStateJsonSerial ==
  ASSUME Serial, SerialInv, Next, NEW p \in Procs, ReadStateJson(p), ~Fail(p)
  PROVE  SerialInv'
  <1>1. /\ stateJson # Absent /\ pc[p] = "read_state" /\ pc'[p] = "list"
        /\ loc'[p] = [loc[p] EXCEPT !.pinned = stateJson]
        /\ UNCHANGED <<logJson, leaf, stateJson, tmp, fd, signed, inited>>
    BY SerialKnows DEF ReadStateJson, At, Goto, TypeOK, files, reports
  <1>2. /\ loc'[p].pinned = stateJson /\ loc'[p].cmd = loc[p].cmd
        /\ loc'[p].origin = loc[p].origin /\ mem(p)' = mem(p)
    BY <1>1, SerialKnows, LocalsKept DEF mem
  <1>3. SerialProc(p)'
    BY <1>1, <1>2, SerialKnows
    DEF SerialProc, InitInv, ReadInv, TreeInv, OpenSteps, WriteStateSteps
  <1>4. QED  BY <1>1, <1>3, UnseenStep, SerialStep

LEMMA ListLeavesSerial ==
  ASSUME Serial, SerialInv, Next, NEW p \in Procs, ListLeaves(p), ~Fail(p)
  PROVE  SerialInv'
  <1>1. PICK n :
          /\ pc[p] = "list" /\ pc'[p] = IF n = 0 THEN "check" ELSE "read_leaf"
          /\ loc'[p] = [loc[p] EXCEPT !.count = n]
          /\ UNCHANGED <<logJson, leaf, stateJson, tmp, fd, signed, inited>>
    BY SerialKnows DEF ListLeaves, At, Goto, TypeOK, files, reports
  <1>2. /\ loc'[p].pinned = loc[p].pinned /\ loc'[p].cmd = loc[p].cmd
        /\ loc'[p].origin = loc[p].origin /\ mem(p)' = mem(p)
    BY <1>1, SerialKnows, LocalsKept DEF mem
  <1>3. SerialProc(p)'
    BY <1>1, <1>2, SerialKnows
    DEF SerialProc, InitInv, ReadInv, TreeInv, OpenSteps, WriteStateSteps
  <1>4. QED  BY <1>1, <1>3, UnseenStep, SerialStep

LEMMA ReadLeafSerial ==
  ASSUME Serial, SerialInv, Next, NEW p \in Procs, ReadLeaf(p), ~Fail(p)
  PROVE  SerialInv'
  <1> DEFINE n == Len(mem(p))
             m == Append(mem(p), leaf[n])
  <1>1. /\ leaf[n] # Absent /\ pc[p] = "read_leaf" /\ pc'[p] \in {"check", "read_leaf"}
        /\ loc'[p] = [loc[p] EXCEPT !.mem = m]
        /\ UNCHANGED <<logJson, leaf, stateJson, tmp, fd, signed, inited>>
    BY SerialKnows DEF ReadLeaf, At, Goto, TypeOK, files, reports, mem
  <1>2. leaf[n] \in Bytes
    BY <1>1, SerialKnows, ReadIndex DEF TypeOK
  <1>3. Len(m) = n + 1 /\ m[n + 1] = leaf[n] /\ \A j \in 1..n : m[j] = mem(p)[j]
    BY <1>2, SerialKnows
  <1>4. /\ loc'[p].pinned = loc[p].pinned /\ loc'[p].cmd = loc[p].cmd
        /\ loc'[p].origin = loc[p].origin /\ mem(p)' = m
    BY <1>1, SerialKnows, LocalsKept DEF mem
  <1> HIDE DEF m
  <1>5. ~Damage => \A j \in 1..Len(mem(p)') : leaf'[j - 1] = mem(p)'[j]
    <2> SUFFICES ASSUME ~Damage, NEW j \in 1..(n + 1) PROVE leaf[j - 1] = m[j]
      BY <1>1, <1>3, <1>4
    <2>1. n \in Nat  BY SerialKnows
    <2>2. CASE j = n + 1  BY <1>3, <2>1, <2>2
    <2>3. CASE j \in 1..n  BY <1>3, <2>3, SerialKnows DEF ReadInv
    <2>4. QED  BY <2>1, <2>2, <2>3
  <1>6. loc[p].cmd # "init"  BY <1>1, SerialKnows DEF CommandInv, OpenSteps
  <1>7. SerialProc(p)'
    BY <1>1, <1>4, <1>5, <1>6, SerialKnows
    DEF SerialProc, InitInv, ReadInv, TreeInv, OpenSteps, WriteStateSteps
  <1>8. QED  BY <1>1, <1>7, UnseenStep, SerialStep

LEMMA CheckSerial ==
  ASSUME Serial, SerialInv, Next, NEW p \in Procs, CheckAgainstState(p), ~Fail(p)
  PROVE  SerialInv'
  <1>1. /\ pc[p] = "check"
        /\ UNCHANGED <<logJson, leaf, stateJson, tmp, fd, signed, inited>>
    BY DEF CheckAgainstState, At, files, reports
  <1>2. stateJson # Absent /\ loc[p].pinned = Pin(TheLog)
    BY <1>1, SerialKnows, LogType DEF ReadInv
  <1>3. TheLog' = TheLog /\ DirInv' /\ SignedInv'  BY <1>1, UnseenStep
  <1>4. loc[p].cmd # "init" /\ loc[p].origin = logJson /\ logJson \in Origin
    BY <1>1, SerialKnows DEF CommandInv, ReadInv, OpenSteps
  <1>5. CASE Agrees(p)
    <2>1. pc'[p] \in {"leaf_create", "sign"} /\ loc' = loc
      BY <1>5, SerialKnows DEF CheckAgainstState, Goto, Opened, TypeOK
    <2>2. mem(p) = TheLog  BY <1>2, <1>5, PinIs DEF Agrees
    <2>3. SerialProc(p)'
      BY <1>1, <1>2, <1>3, <1>4, <2>1, <2>2, SerialKnows
      DEF SerialProc, InitInv, ReadInv, TreeInv, mem, OpenSteps, WriteStateSteps
    <2>4. QED  BY <1>3, <2>3, SerialStep
  <1>6. CASE ~Agrees(p)
    <2>1. /\ Interrupted(p) /\ pc'[p] = "tmp_open"
          /\ loc'[p] = [loc[p] EXCEPT !.after = "open"]
      BY <1>6, SerialKnows DEF CheckAgainstState, Goto, TypeOK
    <2>2. Len(mem(p)) = Len(TheLog) + 1 /\ TheLog = SubSeq(mem(p), 1, Len(TheLog))
      <3>1. loc[p].pinned.tree_size = Len(TheLog) /\ loc[p].pinned.root_hash = TheLog
        BY <1>2, PinIs
      <3>2. Pin(SubSeq(mem(p), 1, Len(TheLog))).root_hash = SubSeq(mem(p), 1, Len(TheLog))
        BY PinIs
      <3>3. QED  BY <2>1, <3>1, <3>2 DEF Interrupted
    <2>3. /\ loc'[p].cmd = loc[p].cmd /\ loc'[p].origin = loc[p].origin
          /\ mem(p)' = mem(p)
      BY <2>1, SerialKnows, LocalsKept DEF mem
    <2>4. SerialProc(p)'
      BY <1>1, <1>2, <1>3, <1>4, <2>1, <2>2, <2>3, SerialKnows
      DEF SerialProc, InitInv, ReadInv, TreeInv, OpenSteps, WriteStateSteps
    <2>5. QED  BY <1>3, <2>4, SerialStep
  <1>7. QED  BY <1>5, <1>6

-------------------------------------------------------------------------------
\* write_state.

LEMMA OpenTmpSerial ==
  ASSUME Serial, SerialInv, Next, NEW p \in Procs, OpenTmp(p)
  PROVE  SerialInv'
  <1>1. /\ pc[p] = "tmp_open" /\ pc'[p] = "tmp_write" /\ fd'[p] = "tmp"
        /\ UNCHANGED <<logJson, leaf, stateJson, loc, signed, inited>>
    BY SerialKnows DEF OpenTmp, At, Goto, TypeOK, reports
  <1>2. TheLog' = TheLog /\ DirInv' /\ SignedInv'  BY <1>1, UnseenStep
  <1>3. SerialProc(p)'
    BY <1>1, <1>2, SerialKnows
    DEF SerialProc, InitInv, ReadInv, TreeInv, mem, OpenSteps, WriteStateSteps
  <1>4. QED  BY <1>2, <1>3, SerialStep

LEMMA WriteTmpSerial ==
  ASSUME Serial, SerialInv, Next, NEW p \in Procs, WriteTmp(p)
  PROVE  SerialInv'
  <1>1. fd[p] = "tmp"  BY SerialKnows DEF WriteTmp, At, TreeInv
  <1>2. /\ pc[p] = "tmp_write" /\ pc'[p] = "rename" /\ tmp' = Pin(mem(p))
        /\ UNCHANGED <<logJson, leaf, stateJson, loc, signed, inited>>
    BY <1>1, SerialKnows DEF WriteTmp, At, Goto, TypeOK, reports
  <1>3. TheLog' = TheLog /\ DirInv' /\ SignedInv'  BY <1>2, UnseenStep
  <1>4. SerialProc(p)'
    BY <1>2, <1>3, SerialKnows
    DEF SerialProc, InitInv, ReadInv, TreeInv, mem, OpenSteps, WriteStateSteps
  <1>5. QED  BY <1>3, <1>4, SerialStep

\* The log becomes the tree in memory.
LEMMA RenameForm ==
  ASSUME SerialInv, NEW p \in Procs, Rename(p)
  PROVE  /\ pc[p] = "rename" /\ stateJson' = Pin(mem(p)) /\ TheLog' = mem(p)
         /\ pc'[p] = IF loc[p].after = "open" THEN Opened(p) ELSE "report"
         /\ UNCHANGED <<logJson, leaf, loc, acked, signed, inited>>
         /\ logJson \in Origin
         /\ SubSeq(mem(p), 1, Len(TheLog)) = TheLog
         /\ Len(TheLog) <= Len(mem(p))
         /\ \/ loc[p].cmd = "init" /\ stateJson = Absent /\ TheLog = << >> /\ mem(p) = << >>
            \/ /\ loc[p].cmd # "init" /\ stateJson # Absent /\ loc[p].origin = logJson
               /\ Len(mem(p)) = Len(TheLog) + 1
  <1>1. pc[p] = "rename"  BY DEF Rename, At
  <1>2. tmp = Pin(mem(p)) /\ tmp # Absent
    BY <1>1, SerialKnows, PinType DEF TreeInv
  <1>3. /\ stateJson' = Pin(mem(p))
        /\ pc'[p] = IF loc[p].after = "open" THEN Opened(p) ELSE "report"
        /\ UNCHANGED <<logJson, leaf, loc, acked, signed, inited>>
    BY <1>2, SerialKnows DEF Rename, Goto, TypeOK, reports
  <1>4. TheLog' = mem(p)  BY <1>2, <1>3, PinIs DEF TheLog
  <1>5. CASE loc[p].cmd = "init"
    <2>1. stateJson = Absent /\ mem(p) = << >> /\ logJson \in Origin
      BY <1>1, <1>5, SerialKnows DEF InitInv, WriteStateSteps, CommandInv
    <2>2. TheLog = << >>  BY <2>1 DEF TheLog
    <2>3. QED  BY <1>1, <1>3, <1>4, <1>5, <2>1, <2>2
  <1>6. CASE loc[p].cmd # "init"
    <2>1. /\ stateJson # Absent /\ loc[p].origin = logJson
          /\ Len(mem(p)) = Len(TheLog) + 1
          /\ TheLog = SubSeq(mem(p), 1, Len(TheLog))
      BY <1>1, <1>6, SerialKnows DEF TreeInv, WriteStateSteps
    <2>2. QED  BY <1>1, <1>3, <1>4, <1>6, <2>1, LogType
  <1>7. QED  BY <1>5, <1>6

LEMMA RenameSerial ==
  ASSUME Serial, SerialInv, Next, NEW p \in Procs, Rename(p)
  PROVE  SerialInv'
  <1> USE RenameForm, SerialKnows, LogType
  <1>1. stateJson' # Absent  BY PinType
  <1>2. DirInv'
    <2>1. \A i \in Index : i > Len(TheLog') => leaf'[i] = Absent
      <3> SUFFICES ASSUME NEW i \in Index, i > Len(mem(p)) PROVE leaf[i] = Absent
        OBVIOUS
      <3>1. i > Len(TheLog)  BY BoundAssumption DEF Index
      <3>2. QED  BY <3>1 DEF DirInv
    <2>2. ~Damage => \A j \in 1..Len(TheLog') : leaf'[j - 1] = TheLog'[j]
      BY DEF ReadInv
    <2>3. QED  BY <1>1, <2>1, <2>2 DEF DirInv, Flow
  <1>3. SignedInv'
    <2> SUFFICES ASSUME NEW s \in signed
                 PROVE  s.origin = logJson /\ \E n \in 0..Len(mem(p)) : s.pin = Pin(SubSeq(mem(p), 1, n))
      BY DEF SignedInv
    <2>1. PICK n \in 0..Len(TheLog) : s.origin = logJson /\ s.pin = Pin(SubSeq(TheLog, 1, n))
      BY DEF SignedInv
    <2>2. SubSeq(mem(p), 1, n) = SubSeq(TheLog, 1, n)
      BY PrefixOfPrefix
    <2>3. n \in 0..Len(mem(p))  OBVIOUS
    <2>4. s.pin = Pin(SubSeq(mem(p), 1, n))  BY <2>1, <2>2
    <2>5. QED  BY <2>1, <2>3, <2>4
  <1>4. SerialProc(p)'
    BY <1>1 DEF SerialProc, InitInv, ReadInv, TreeInv, mem, Opened, OpenSteps, WriteStateSteps, CommandInv
  <1>5. QED  BY <1>2, <1>3, <1>4, SerialStep

-------------------------------------------------------------------------------
\* append.

\* A command writes the leaf file after the last leaf of the log.
LEMMA LeafWritten ==
  ASSUME SerialInv, NEW p \in Procs, pc[p] \in {"leaf_create", "leaf_write"},
         NEW b, leaf' = [leaf EXCEPT ![Len(mem(p))] = b], Len(mem(p)) \in Index,
         UNCHANGED <<logJson, stateJson, inited, signed>>
  PROVE  /\ DirInv' /\ SignedInv' /\ TheLog' = TheLog /\ stateJson # Absent
         /\ mem(p) = TheLog /\ leaf'[Len(mem(p))] = b
         /\ logJson \in Origin /\ loc[p].origin = logJson /\ loc[p].cmd = "append"
         /\ ~Damage => \A j \in 1..Len(mem(p)) : leaf'[j - 1] = mem(p)[j]
  <1>1. /\ stateJson # Absent /\ mem(p) = TheLog
        /\ logJson \in Origin /\ loc[p].origin = logJson /\ loc[p].cmd = "append"
    BY SerialKnows DEF TreeInv, ReadInv, CommandInv
  <1>2. leaf'[Len(mem(p))] = b /\ \A i \in Index : i # Len(mem(p)) => leaf'[i] = leaf[i]
    BY SerialKnows DEF TypeOK
  <1>3. TheLog' = TheLog /\ SignedInv'  BY SerialKnows DEF TheLog, SignedInv
  <1>4. ~Damage => \A j \in 1..Len(mem(p)) : leaf'[j - 1] = mem(p)[j]
    <2> SUFFICES ASSUME ~Damage, NEW j \in 1..Len(mem(p)) PROVE leaf'[j - 1] = mem(p)[j]
      OBVIOUS
    <2>1. j - 1 \in Index /\ j - 1 # Len(mem(p))  BY SerialKnows, BoundAssumption DEF Index
    <2>2. QED  BY <1>2, <2>1, SerialKnows DEF ReadInv
  <1>5. \A i \in Index : i > Len(TheLog) => leaf'[i] = Absent
    BY <1>1, <1>2, SerialKnows, LogType, BoundAssumption DEF DirInv, Index
  <1>6. DirInv'
    BY <1>1, <1>3, <1>4, <1>5, LogType, SerialKnows DEF DirInv
  <1>7. QED  BY <1>1, <1>2, <1>3, <1>4, <1>6

LEMMA CreateLeafSerial ==
  ASSUME Serial, SerialInv, Next, NEW p \in Procs, CreateLeaf(p), ~Fail(p)
  PROVE  SerialInv'
  <1>1. /\ pc[p] = "leaf_create" /\ pc'[p] = "leaf_write" /\ Len(mem(p)) \in Index
        /\ leaf' = [leaf EXCEPT ![Len(mem(p))] = Empty]
        /\ UNCHANGED <<logJson, stateJson, loc, inited, signed>>
    BY SerialKnows DEF CreateLeaf, At, Goto, TypeOK, reports
  <1>2. /\ DirInv' /\ SignedInv' /\ TheLog' = TheLog /\ stateJson # Absent
        /\ mem(p) = TheLog /\ mem(p)' = mem(p)
        /\ logJson \in Origin /\ loc[p].origin = logJson /\ loc[p].cmd = "append"
        /\ ~Damage => \A j \in 1..Len(mem(p)) : leaf'[j - 1] = mem(p)[j]
    <2>1. mem(p)' = mem(p)  BY <1>1 DEF mem
    <2>2. QED  BY <1>1, <2>1, LeafWritten
  <1>3. SerialProc(p)'
    BY <1>1, <1>2
    DEF SerialProc, InitInv, ReadInv, TreeInv, OpenSteps, WriteStateSteps
  <1>4. QED  BY <1>2, <1>3, SerialStep

LEMMA WriteLeafPartSerial ==
  ASSUME Serial, SerialInv, Next, NEW p \in Procs, WriteLeafPart(p)
  PROVE  SerialInv'
  <1>1. /\ pc[p] = "leaf_write" /\ pc'[p] = "leaf_write" /\ Len(mem(p)) \in Index
        /\ leaf' = [leaf EXCEPT ![Len(mem(p))] = Torn(loc[p].data)]
        /\ UNCHANGED <<logJson, stateJson, loc, inited, signed>>
    BY SerialKnows DEF WriteLeafPart, At, Flow, reports
  <1>2. /\ DirInv' /\ SignedInv' /\ TheLog' = TheLog /\ stateJson # Absent
        /\ mem(p) = TheLog /\ mem(p)' = mem(p)
        /\ logJson \in Origin /\ loc[p].origin = logJson /\ loc[p].cmd = "append"
        /\ ~Damage => \A j \in 1..Len(mem(p)) : leaf'[j - 1] = mem(p)[j]
    <2>1. mem(p)' = mem(p)  BY <1>1 DEF mem
    <2>2. QED  BY <1>1, <2>1, LeafWritten
  <1>3. SerialProc(p)'
    BY <1>1, <1>2
    DEF SerialProc, InitInv, ReadInv, TreeInv, OpenSteps, WriteStateSteps
  <1>4. QED  BY <1>2, <1>3, SerialStep

LEMMA WriteLeafSerial ==
  ASSUME Serial, SerialInv, Next, NEW p \in Procs, WriteLeaf(p)
  PROVE  SerialInv'
  <1> DEFINE n == Len(mem(p))
             d == loc[p].data
             m == Append(mem(p), d)
  <1>1. /\ pc[p] = "leaf_write" /\ pc'[p] = "tmp_open" /\ n \in Index
        /\ leaf' = [leaf EXCEPT ![n] = d]
        /\ loc'[p] = [loc[p] EXCEPT !.mem = m, !.after = "append"]
        /\ UNCHANGED <<logJson, stateJson, inited, signed>>
    BY SerialKnows DEF WriteLeaf, At, Goto, TypeOK, Flow, reports, mem
  <1>2. /\ DirInv' /\ SignedInv' /\ TheLog' = TheLog /\ stateJson # Absent
        /\ mem(p) = TheLog /\ leaf'[n] = d
        /\ logJson \in Origin /\ loc[p].origin = logJson /\ loc[p].cmd = "append"
        /\ ~Damage => \A j \in 1..n : leaf'[j - 1] = mem(p)[j]
    BY <1>1, LeafWritten
  <1>3. d \in Bytes  BY <1>2, SerialKnows, BytesType DEF CommandInv
  <1>4. /\ Len(m) = n + 1 /\ m[n + 1] = d /\ n \in Nat
        /\ \A j \in 1..n : m[j] = mem(p)[j]
        /\ SubSeq(m, 1, n) = mem(p)
    BY <1>3, SerialKnows
  <1>5. /\ mem(p)' = m /\ loc'[p].cmd = "append" /\ loc'[p].origin = loc[p].origin
    BY <1>1, <1>2, SerialKnows, LocalsKept DEF mem
  <1> HIDE DEF m, d
  <1>6. ~Damage => \A j \in 1..Len(mem(p)') : leaf'[j - 1] = mem(p)'[j]
    <2> SUFFICES ASSUME ~Damage, NEW j \in 1..(n + 1) PROVE leaf'[j - 1] = m[j]
      BY <1>4, <1>5
    <2>1. CASE j = n + 1  BY <1>2, <1>4, <2>1
    <2>2. CASE j \in 1..n  BY <1>2, <1>4, <2>2
    <2>3. QED  BY <1>4, <2>1, <2>2
  <1>7. SerialProc(p)'
    BY <1>1, <1>2, <1>4, <1>5, <1>6
    DEF SerialProc, InitInv, ReadInv, TreeInv, OpenSteps, WriteStateSteps
  <1>8. QED  BY <1>2, <1>7, SerialStep

LEMMA ReportSerial ==
  ASSUME Serial, SerialInv, Next, NEW p \in Procs, Report(p)
  PROVE  SerialInv'
  <1>1. stateJson # Absent  BY SerialKnows DEF Report, At, TreeInv
  <1>2. UNCHANGED <<logJson, leaf, stateJson, signed>>  BY DEF Report, files
  <1>3. DirInv' /\ SignedInv'  BY <1>1, <1>2, SerialKnows DEF DirInv, SignedInv, TheLog
  <1>4. QED  BY <1>3, ExitSerial, SerialStep DEF Report

-------------------------------------------------------------------------------
\* Signing.

\* Each signing command signs the log, and consistency a prefix of it as well.
LEMMA SignForm ==
  ASSUME SerialInv, NEW p \in Procs,
         \/ Checkpoint(p)
         \/ \E i \in 0..MaxLeaves : ProveInclusion(p, i)
         \/ \E old \in 1..MaxLeaves : ProveConsistency(p, old)
  PROVE  /\ Exit(p) /\ UNCHANGED <<files, acked, inited>>
         /\ logJson \in Origin /\ stateJson # Absent /\ stateJson = Pin(TheLog)
         /\ \/ signed' = signed
            \/ \E n \in 0..Len(TheLog) :
                 signed' = signed \cup
                   {[origin |-> logJson, pin |-> Pin(SubSeq(TheLog, 1, n))],
                    [origin |-> logJson, pin |-> Pin(TheLog)]}
  <1>1. pc[p] = "sign" /\ Exit(p) /\ UNCHANGED <<files, acked, inited>>
    BY DEF Checkpoint, ProveInclusion, ProveConsistency, At
  <1>2. /\ logJson \in Origin /\ loc[p].origin = logJson
        /\ stateJson # Absent /\ mem(p) = TheLog
    BY <1>1, SerialKnows DEF ReadInv, TreeInv
  <1>3. \A s : Note(p, s) = [origin |-> logJson, pin |-> Pin(s)]  BY <1>2 DEF Note
  <1>4. SubSeq(TheLog, 1, Len(TheLog)) = TheLog /\ Len(TheLog) \in 0..Len(TheLog)
    BY LogType
  <1>5. \/ signed' = signed
        \/ signed' = signed \cup {Note(p, TheLog)}
        \/ \E old \in 1..MaxLeaves :
             /\ old < Len(TheLog)
             /\ signed' = signed \cup {Note(p, SubSeq(TheLog, 1, old)), Note(p, TheLog)}
    BY <1>2 DEF Checkpoint, ProveInclusion, ProveConsistency
  <1>6. \A old \in 1..MaxLeaves : old < Len(TheLog) => old \in 0..Len(TheLog)
    BY LogType, BoundAssumption
  <1>7. CASE signed' = signed \cup {Note(p, TheLog)}
    <2>1. signed' = signed \cup {Note(p, SubSeq(TheLog, 1, Len(TheLog))), Note(p, TheLog)}
      BY <1>4, <1>7
    <2>2. QED  BY <1>1, <1>2, <1>3, <1>4, <2>1, LogType
  <1>8. QED  BY <1>1, <1>2, <1>3, <1>5, <1>6, <1>7, LogType

LEMMA SignSerial ==
  ASSUME Serial, SerialInv, Next, NEW p \in Procs,
         \/ Checkpoint(p)
         \/ \E i \in 0..MaxLeaves : ProveInclusion(p, i)
         \/ \E old \in 1..MaxLeaves : ProveConsistency(p, old)
  PROVE  SerialInv'
  <1>1. UNCHANGED <<logJson, leaf, stateJson, inited>> /\ stateJson # Absent /\ Exit(p)
    BY SignForm DEF files
  <1>2. TheLog' = TheLog /\ DirInv'
    BY <1>1, SerialKnows DEF DirInv, TheLog
  <1>3. SignedInv'
    <2>1. ASSUME NEW n \in 0..Len(TheLog),
                 signed' = signed \cup
                   {[origin |-> logJson, pin |-> Pin(SubSeq(TheLog, 1, n))],
                    [origin |-> logJson, pin |-> Pin(TheLog)]}
          PROVE  SignedInv'
      <3>1. SubSeq(TheLog, 1, Len(TheLog)) = TheLog /\ Len(TheLog) \in 0..Len(TheLog)
        BY LogType
      <3> SUFFICES ASSUME NEW s \in signed'
                   PROVE  /\ s.origin = logJson
                          /\ \E k \in 0..Len(TheLog) : s.pin = Pin(SubSeq(TheLog, 1, k))
        BY <1>1, <1>2 DEF SignedInv
      <3>2. CASE s \in signed  BY <3>2, SerialKnows DEF SignedInv
      <3>3. CASE s = [origin |-> logJson, pin |-> Pin(SubSeq(TheLog, 1, n))]  BY <3>3
      <3>4. CASE s = [origin |-> logJson, pin |-> Pin(TheLog)]
        <4>1. s.origin = logJson /\ s.pin = Pin(SubSeq(TheLog, 1, Len(TheLog)))
          BY <3>1, <3>4
        <4>2. QED  BY <3>1, <4>1
      <3>5. QED  BY <2>1, <3>2, <3>3, <3>4
    <2>2. CASE signed' = signed  BY <1>1, <1>2, <2>2, SerialKnows DEF SignedInv
    <2>3. QED  BY <2>1, <2>2, SignForm
  <1>4. QED  BY <1>1, <1>2, <1>3, ExitSerial, SerialStep

-------------------------------------------------------------------------------
\* Damage.

LEMMA RotSerial ==
  ASSUME SerialInv, Next, NEW i \in Index, NEW b \in Payload \cup {Empty, Absent}, Rot(i, b)
  PROVE  SerialInv'
  <1>1. FlowInv'  BY FlowNext DEF SerialInv
  <1>2. /\ Damage /\ leaf[i] # Absent /\ leaf' = [leaf EXCEPT ![i] = b]
        /\ UNCHANGED <<logJson, stateJson, tmp, pc, loc, fd, signed, inited>>
    BY DEF Rot, reports
  <1>3. TheLog' = TheLog  BY <1>2 DEF TheLog
  <1>4. DirInv'
    <2>1. ~(i > Len(TheLog)) /\ stateJson # Absent  BY <1>2 DEF SerialInv, DirInv
    <2>2. \A k \in Index : k > Len(TheLog) => leaf'[k] = Absent
      BY <1>2, <2>1 DEF SerialInv, DirInv, FlowInv, TypeOK
    <2>3. QED  BY <1>2, <1>3, <2>1, <2>2 DEF SerialInv, DirInv
  <1>5. SignedInv'  BY <1>2, <1>3 DEF SerialInv, SignedInv
  <1>6. \A p \in Procs : SerialProc(p)'
    BY <1>2, <1>3 DEF SerialInv, SerialProc, InitInv, ReadInv, TreeInv, mem
  <1>7. QED  BY <1>1, <1>4, <1>5, <1>6 DEF SerialInv

LEMMA StepSerial ==
  ASSUME Serial, SerialInv, Next, NEW p \in Procs, Step(p)
  PROVE  SerialInv'
  <1>1. CASE Fail(p)  BY <1>1, FailSerial
  <1>2. CASE ~Fail(p)
    BY <1>2, OpenLogJsonSerial, WriteLogJsonSerial, ReadLogJsonSerial, ReadStateJsonSerial,
       ListLeavesSerial, ReadLeafSerial, CheckSerial, OpenTmpSerial, WriteTmpSerial,
       RenameSerial, CreateLeafSerial, WriteLeafPartSerial, WriteLeafSerial, ReportSerial,
       SignSerial DEF Step
  <1>3. QED  BY <1>1, <1>2

LEMMA NextSerial ==
  ASSUME Serial, SerialInv, [Next]_vars
  PROVE  SerialInv'
  <1>1. CASE UNCHANGED vars
    <2>1. FlowInv'  BY <1>1, FlowNext DEF SerialInv
    <2>2. DirInv' /\ SignedInv' /\ TheLog' = TheLog  BY <1>1, UnseenStep DEF vars
    <2>3. \A p \in Procs : SerialProc(p)'
      BY <1>1, <2>2 DEF vars, SerialInv, SerialProc, InitInv, ReadInv, TreeInv, mem
    <2>4. QED  BY <2>1, <2>2, <2>3 DEF SerialInv
  <1>2. CASE Next
    <2>1. ASSUME NEW p \in Procs, Start(p) PROVE SerialInv'  BY <1>2, <2>1, StartSerial
    <2>2. ASSUME NEW p \in Procs, Step(p) PROVE SerialInv'  BY <1>2, <2>2, StepSerial
    <2>3. ASSUME NEW p \in Procs, Crash(p) PROVE SerialInv'
      BY <1>2, <2>3, FailSerial DEF Crash, Fail
    <2>4. ASSUME NEW i \in Index, NEW b \in Payload \cup {Empty, Absent}, Rot(i, b)
          PROVE  SerialInv'
      BY <1>2, <2>4, RotSerial
    <2>5. QED  BY <1>2, <2>1, <2>2, <2>3, <2>4 DEF Next
  <1>3. QED  BY <1>1, <1>2

\* One command at a time, cut short anywhere, over leaf files that are damaged
\* in any way, keeps every part of the invariant.
THEOREM SerialInvariance == ASSUME Serial PROVE Spec => []SerialInv
  <1>1. Init => SerialInv  BY InitSerial
  <1>2. SerialInv /\ [Next]_vars => SerialInv'  BY NextSerial
  <1>3. QED  BY <1>1, <1>2, PTL DEF Spec

-------------------------------------------------------------------------------
\* What one command at a time gives: one history under every signature.

LEMMA PrefixesAgree ==
  ASSUME NEW S, NEW s \in Seq(S), NEW m \in 0..Len(s), NEW n \in 0..Len(s), m <= n
  PROVE  /\ Len(SubSeq(s, 1, m)) = m
         /\ SubSeq(s, 1, m) = SubSeq(SubSeq(s, 1, n), 1, m)
  BY PrefixOfPrefix

LEMMA SignedInOneLog == SerialInv => NoEquivocation
  <1> SUFFICES ASSUME SerialInv, NEW s \in signed, NEW t \in signed
               PROVE  /\ s.origin = t.origin
                      /\ s.pin.tree_size <= t.pin.tree_size =>
                           s.pin.root_hash = SubSeq(t.pin.root_hash, 1, s.pin.tree_size)
    BY DEF NoEquivocation
  <1>1. PICK m \in 0..Len(TheLog) : s.origin = logJson /\ s.pin = Pin(SubSeq(TheLog, 1, m))
    BY DEF SerialInv, SignedInv
  <1>2. PICK n \in 0..Len(TheLog) : t.origin = logJson /\ t.pin = Pin(SubSeq(TheLog, 1, n))
    BY DEF SerialInv, SignedInv
  <1>3. Len(SubSeq(TheLog, 1, m)) = m /\ Len(SubSeq(TheLog, 1, n)) = n
    BY LogType, PrefixesAgree
  <1>4. /\ s.pin.tree_size = m /\ s.pin.root_hash = SubSeq(TheLog, 1, m)
        /\ t.pin.tree_size = n /\ t.pin.root_hash = SubSeq(TheLog, 1, n)
    BY <1>1, <1>2, <1>3, PinIs
  <1>5. m <= n => SubSeq(TheLog, 1, m) = SubSeq(SubSeq(TheLog, 1, n), 1, m)
    BY LogType, PrefixesAgree
  <1>6. QED  BY <1>1, <1>2, <1>4, <1>5

\* The commands of a single writer never sign two histories: whatever crashes
\* and whatever happens to the leaf files, all notes that checkpoint and prove
\* wrote name one origin and commit to prefixes of one log.
THEOREM OneSignedHistory == ASSUME Serial PROVE Spec => []NoEquivocation
  BY SerialInvariance, SignedInOneLog, PTL

LEMMA SameLeaves ==
  ASSUME NEW S, NEW s \in Seq(S), NEW t \in Seq(S), Len(s) = Len(t),
         \A j \in 1..Len(t) : s[j] = t[j]
  PROVE  s = t
  OBVIOUS

LEMMA DirectoryOpens == SerialInv => DirOpens
  <1> SUFFICES ASSUME SerialInv, inited # {}, Damage => PinnedIntact PROVE Openable
    BY DEF DirOpens
  <1> DEFINE k == Len(TheLog)
  <1>1. /\ stateJson # Absent /\ stateJson # Malformed /\ logJson \in Origin
        /\ stateJson = Pin(TheLog) /\ TheLog \in Seq(Bytes) /\ k \in Nat /\ k <= MaxLeaves
    BY LogType DEF SerialInv, DirInv
  <1>2. \A j \in 1..k : leaf[j - 1] = TheLog[j] /\ leaf[j - 1] # Absent
    <2>1. \A j \in 1..k : leaf[j - 1] = TheLog[j]
      <3>1. CASE ~Damage  BY <3>1 DEF SerialInv, DirInv
      <3>2. CASE PinnedIntact  BY <1>1, <3>2, PinIs DEF PinnedIntact
      <3>3. QED  BY <3>1, <3>2
    <2>2. \A j \in 1..k : TheLog[j] # Absent
      BY <1>1, DistinctAssumption
    <2>3. QED  BY <2>1, <2>2
  <1>3. \A i \in Index : i < k => leaf[i] # Absent
    <2> SUFFICES ASSUME NEW i \in Index, i < k PROVE leaf[i] # Absent  OBVIOUS
    <2>1. i + 1 \in 1..k /\ (i + 1) - 1 = i  BY <1>1, BoundAssumption DEF Index
    <2>2. QED  BY <1>2, <2>1
  <1>4. \A i \in Index : i > k => leaf[i] = Absent  BY DEF SerialInv, DirInv
  <1>5. CASE k \in Index /\ leaf[k] # Absent
    <2> DEFINE leaves == [i \in 1..(k + 1) |-> leaf[i - 1]]
    <2>1. k + 1 \in 0..MaxLeaves /\ (k + 1) - 1 = k  BY <1>1, <1>5, BoundAssumption DEF Index
    <2>2. Listed(k + 1)  BY <1>1, <1>3, <1>4, <1>5, BoundAssumption DEF Listed, Index
    <2>3. leaves \in Seq(Bytes) /\ Len(leaves) = k + 1
      <3>1. \A i \in 1..(k + 1) : leaf[i - 1] \in Bytes
        <4> SUFFICES ASSUME NEW i \in 1..(k + 1) PROVE leaf[i - 1] \in Bytes  OBVIOUS
        <4>1. i - 1 \in Index /\ (i - 1 < k \/ i - 1 = k)
          BY <1>1, <1>5, BoundAssumption DEF Index
        <4>2. QED  BY <1>3, <1>5, <4>1 DEF SerialInv, FlowInv, TypeOK
      <3>2. QED  BY <1>1, <3>1
    <2>4. SubSeq(leaves, 1, k) = TheLog
      <3>1. SubSeq(leaves, 1, k) \in Seq(Bytes) /\ Len(SubSeq(leaves, 1, k)) = k
        BY <1>1, <2>3
      <3>2. \A j \in 1..k : SubSeq(leaves, 1, k)[j] = TheLog[j]
        BY <1>1, <1>2, <2>3
      <3> HIDE DEF leaves
      <3>3. QED  BY <1>1, <3>1, <3>2, SameLeaves
    <2>5. Pin(SubSeq(leaves, 1, (k + 1) - 1)) = stateJson  BY <1>1, <2>1, <2>4
    <2> HIDE DEF leaves
    <2>6. k + 1 > 0  BY <1>1
    <2>7. QED  BY <1>1, <2>1, <2>2, <2>5, <2>6 DEF Openable, leaves
  <1>6. CASE ~(k \in Index /\ leaf[k] # Absent)
    <2> DEFINE leaves == [i \in 1..k |-> leaf[i - 1]]
    <2>1. k \in 0..MaxLeaves  BY <1>1, BoundAssumption
    <2>2. Listed(k)  BY <1>1, <1>3, <1>4, <1>6, BoundAssumption DEF Listed, Index
    <2>3. leaves = TheLog  BY <1>1, <1>2
    <2>4. QED  BY <1>1, <2>1, <2>2, <2>3 DEF Openable
  <1>7. QED  BY <1>5, <1>6

\* With a single writer LogStore::open always accepts the directory between
\* commands, once an init has succeeded and as long as the leaf files that
\* state.json pins are intact: no command, cut short at whatever file system
\* call, leaves a state behind that the recovery of open does not know.
THEOREM DirectoryReopens == ASSUME Serial PROVE Spec => []DirOpens
  BY SerialInvariance, DirectoryOpens, PTL

-------------------------------------------------------------------------------
\* Refinement of AppendOnlyLog.

\* The name and the entries that AppendOnlyLog sees.
TheName == IF logJson \in Origin THEN logJson ELSE Absent

LEMMA SeenLog ==
  ASSUME SerialInv
  PROVE  TheLog = IF stateJson \in {Absent, Malformed} THEN << >> ELSE stateJson.root_hash
  BY LogType DEF TheLog

\* A step that changes none of what AppendOnlyLog sees.
Unseen == UNCHANGED <<logJson, stateJson, acked, signed>>

\* Only these steps change what others rely on.
LEMMA SeenSteps ==
  ASSUME SerialInv, [Next]_vars
  PROVE  \/ Unseen
         \/ \E p \in Procs :
              \/ OpenLogJson(p) \/ WriteLogJson(p) \/ Rename(p) \/ Report(p)
              \/ Checkpoint(p)
              \/ \E i \in 0..MaxLeaves : ProveInclusion(p, i)
              \/ \E old \in 1..MaxLeaves : ProveConsistency(p, old)
  <1>1. CASE UNCHANGED vars  BY <1>1 DEF vars, Unseen
  <1>2. ASSUME NEW p \in Procs, Start(p) PROVE Unseen
    BY <1>2 DEF Start, StartInit, StartAppend, StartSign, files, reports, Unseen
  <1>3. ASSUME NEW p \in Procs, Fail(p) PROVE Unseen
    BY <1>3 DEF Fail, files, reports, Unseen
  <1>4. ASSUME NEW p \in Procs, WriteTmp(p) PROVE Unseen
    BY <1>4, SerialKnows DEF WriteTmp, At, TreeInv, reports, Unseen
  <1>5. ASSUME NEW p \in Procs,
               \/ ReadLogJson(p) \/ ReadStateJson(p) \/ ListLeaves(p) \/ ReadLeaf(p)
               \/ CheckAgainstState(p) \/ OpenTmp(p)
               \/ CreateLeaf(p) \/ WriteLeafPart(p) \/ WriteLeaf(p)
        PROVE  Unseen
    BY <1>3, <1>5
    DEF ReadLogJson, ReadStateJson, ListLeaves, ReadLeaf, CheckAgainstState, OpenTmp,
        CreateLeaf, WriteLeafPart, WriteLeaf, files, reports, Unseen
  <1>6. ASSUME NEW p \in Procs, Crash(p) PROVE Unseen
    BY <1>6 DEF Crash, files, reports, Unseen
  <1>7. ASSUME NEW i, NEW b, Rot(i, b) PROVE Unseen
    BY <1>7 DEF Rot, reports, Unseen
  <1>8. QED  BY <1>1, <1>2, <1>4, <1>5, <1>6, <1>7 DEF Next, Step

\* What AppendOnlyLog sees of each of those steps.

LEMMA CreateStep ==
  ASSUME SerialInv, SerialInv', NEW p \in Procs, OpenLogJson(p) \/ WriteLogJson(p)
  PROVE  /\ UNCHANGED <<TheLog, acked, signed>>
         /\ \/ TheName' = TheName
            \/ TheName = Absent /\ TheName' \in Origin
  <1>1. logJson \notin Origin
    BY SerialKnows, LogType DEF OpenLogJson, WriteLogJson, At, InitInv
  <1>2. UNCHANGED <<stateJson, acked, signed>>
    BY DEF OpenLogJson, WriteLogJson, reports
  <1>3. QED  BY <1>1, <1>2 DEF TheName, TheLog

LEMMA ExtendStep ==
  ASSUME SerialInv, SerialInv', NEW p \in Procs, Rename(p)
  PROVE  /\ UNCHANGED <<TheName, acked, signed>> /\ TheName # Absent
         /\ \/ TheLog' = TheLog
            \/ \E x \in Bytes : TheLog' = Append(TheLog, x)
  <1>1. UNCHANGED <<TheName, acked, signed>> /\ TheName # Absent
    BY RenameForm, LogType DEF TheName
  <1>2. CASE loc[p].cmd = "init"  BY <1>1, <1>2, RenameForm
  <1>3. CASE loc[p].cmd # "init"
    <2> DEFINE k == Len(TheLog)
               x == mem(p)[k + 1]
    <2>1. /\ mem(p) \in Seq(Bytes) /\ Len(mem(p)) = k + 1 /\ TheLog' = mem(p)
          /\ SubSeq(mem(p), 1, k) = TheLog /\ k \in Nat /\ TheLog \in Seq(Bytes)
      BY <1>3, RenameForm, SerialKnows, LogType
    <2>2. x \in Bytes  BY <2>1
    <2>3. \A j \in 1..(k + 1) : mem(p)[j] = Append(TheLog, x)[j]
      BY <2>1, <2>2
    <2>4. Append(TheLog, x) \in Seq(Bytes) /\ Len(Append(TheLog, x)) = k + 1
      BY <2>1, <2>2
    <2> HIDE DEF x
    <2>5. mem(p) = Append(TheLog, x)  BY <2>1, <2>3, <2>4, SameLeaves
    <2>6. QED  BY <1>1, <2>1, <2>2, <2>5
  <1>4. QED  BY <1>2, <1>3

LEMMA AcknowledgeStep ==
  ASSUME SerialInv, NEW p \in Procs, Report(p)
  PROVE  /\ UNCHANGED <<TheName, TheLog, signed>>
         /\ \/ acked' = acked
            \/ \E i \in 1..Len(TheLog) :
                 acked' = acked \cup {[index |-> i - 1, data |-> TheLog[i]]}
  <1>1. /\ pc[p] = "report" /\ UNCHANGED <<logJson, stateJson, signed>>
        /\ acked' = IF loc[p].cmd = "append"
                    THEN acked \cup {[index |-> Len(mem(p)) - 1, data |-> loc[p].data]}
                    ELSE acked
    BY DEF Report, At, files
  <1>2. UNCHANGED <<TheName, TheLog, signed>>  BY <1>1 DEF TheName, TheLog
  <1>3. CASE loc[p].cmd = "append"
    <2>1. mem(p) = TheLog /\ Len(mem(p)) > 0 /\ mem(p)[Len(mem(p))] = loc[p].data
      BY <1>1, <1>3, SerialKnows DEF TreeInv, CommandInv
    <2>2. Len(TheLog) \in 1..Len(TheLog)  BY <2>1, LogType
    <2>3. QED  BY <1>1, <1>2, <1>3, <2>1, <2>2
  <1>4. QED  BY <1>1, <1>2, <1>3

LEMMA SignStep ==
  ASSUME SerialInv, NEW p \in Procs,
         \/ Checkpoint(p)
         \/ \E i \in 0..MaxLeaves : ProveInclusion(p, i)
         \/ \E old \in 1..MaxLeaves : ProveConsistency(p, old)
  PROVE  /\ UNCHANGED <<TheName, TheLog, acked>> /\ TheName # Absent
         /\ \/ signed' = signed
            \/ \E n \in 0..Len(TheLog) :
                 signed' = signed \cup
                   {[origin |-> TheName,
                     pin |-> [tree_size |-> n, root_hash |-> SubSeq(TheLog, 1, n)]],
                    [origin |-> TheName,
                     pin |-> [tree_size |-> Len(TheLog),
                              root_hash |-> SubSeq(TheLog, 1, Len(TheLog))]]}
  <1>1. /\ UNCHANGED <<TheName, TheLog, acked>> /\ TheName = logJson /\ TheName # Absent
    BY SignForm, LogType DEF files, TheName, TheLog
  <1>2. \A n \in 0..Len(TheLog) :
          Pin(SubSeq(TheLog, 1, n)) = [tree_size |-> n, root_hash |-> SubSeq(TheLog, 1, n)]
    BY LogType, PrefixesAgree DEF Pin
  <1>3. SubSeq(TheLog, 1, Len(TheLog)) = TheLog /\ Len(TheLog) \in 0..Len(TheLog)
    BY LogType
  <1>4. Pin(TheLog) = [tree_size |-> Len(TheLog),
                       root_hash |-> SubSeq(TheLog, 1, Len(TheLog))]
    BY <1>2, <1>3
  <1>5. QED  BY <1>1, <1>2, <1>4, SignForm

LEMMA AbstractStep ==
  ASSUME SerialInv, SerialInv', [Next]_vars
  PROVE  [Abstract!Next]_<<TheName, TheLog, acked, signed>>
  <1> DEFINE log == IF stateJson \in {Absent, Malformed} THEN << >> ELSE stateJson.root_hash
             name == IF logJson \in Origin THEN logJson ELSE Absent
  <1>1. TheLog = log /\ TheName = name  BY SeenLog DEF TheName
  <1>2. TheLog' = log' /\ TheName' = name'
    BY PinType, DistinctAssumption DEF SerialInv, DirInv, TheLog, TheName
  <1> HIDE DEF log, name
  <1>3. ASSUME NEW p \in Procs, OpenLogJson(p) \/ WriteLogJson(p)
        PROVE  UNCHANGED <<TheName, TheLog, acked, signed>> \/ \E o \in Origin : Abstract!Create(o)
    BY <1>1, <1>2, <1>3, CreateStep DEF Abstract!Create, log, name
  <1>4. ASSUME NEW p \in Procs, Rename(p)
        PROVE  UNCHANGED <<TheName, TheLog, acked, signed>> \/ \E x \in Bytes : Abstract!Extend(x)
    BY <1>1, <1>2, <1>4, ExtendStep DEF Abstract!Extend, log, name
  <1>5. ASSUME NEW p \in Procs, Report(p)
        PROVE  UNCHANGED <<TheName, TheLog, acked, signed>> \/ \E i \in 1..Len(TheLog) : Abstract!Acknowledge(i)
    BY <1>1, <1>2, <1>5, AcknowledgeStep DEF Abstract!Acknowledge, log, name
  <1>6. ASSUME NEW p \in Procs,
               \/ Checkpoint(p)
               \/ \E i \in 0..MaxLeaves : ProveInclusion(p, i)
               \/ \E old \in 1..MaxLeaves : ProveConsistency(p, old)
        PROVE  UNCHANGED <<TheName, TheLog, acked, signed>> \/ \E n \in 0..Len(TheLog) : Abstract!Sign(n)
    BY <1>1, <1>2, <1>6, SignStep DEF Abstract!Sign, Abstract!Note, log, name
  <1>7. Unseen => UNCHANGED <<TheName, TheLog, acked, signed>>
    BY DEF Unseen, TheName, TheLog
  <1>8. QED
    BY <1>1, <1>3, <1>4, <1>5, <1>6, <1>7, SeenSteps DEF Abstract!Next, log

\* The refinement, step by step: writing log.json creates the log, a rename of
\* state.json.tmp extends it by one entry, an append reports the entry that is
\* there, checkpoint and prove sign prefixes of it; every other step of every
\* command, every crash and every damaged leaf file changes nothing of it.
THEOREM Refinement == ASSUME Serial PROVE Spec => ImplementsAppendOnlyLog
  <1> DEFINE log == IF stateJson \in {Absent, Malformed} THEN << >> ELSE stateJson.root_hash
             name == IF logJson \in Origin THEN logJson ELSE Absent
  <1>1. Init => Abstract!Init
    BY DistinctAssumption DEF Init, Abstract!Init
  <1>2. ASSUME SerialInv, SerialInv', [Next]_vars
        PROVE  [Abstract!Next]_<<name, log, acked, signed>>
    <2>1. TheLog = log /\ TheName = name  BY <1>2, SeenLog DEF TheName
    <2>2. TheLog' = log' /\ TheName' = name'
      BY <1>2, PinType, DistinctAssumption DEF SerialInv, DirInv, TheLog, TheName
    <2> HIDE DEF log, name
    <2>3. QED  BY <1>2, <2>1, <2>2, AbstractStep
  <1>3. QED
    BY <1>1, <1>2, SerialInvariance, PTL DEF Spec, ImplementsAppendOnlyLog, Abstract!Spec, Abstract!vars

-------------------------------------------------------------------------------
\* What third parties can verify: the log under Merkle's proofs.

\* Every append that was reported is in the log, at its index.
AckedInv ==
  \A a \in acked : a.index \in Nat /\ a.index < Len(TheLog) /\ TheLog[a.index + 1] = a.data

LEMMA AckedStep ==
  ASSUME SerialInv, SerialInv', AckedInv, [Next]_vars
  PROVE  AckedInv'
  <1>1. CASE Unseen
    BY <1>1 DEF Unseen, AckedInv, TheLog
  <1>2. ASSUME NEW p \in Procs, OpenLogJson(p) \/ WriteLogJson(p)
        PROVE  AckedInv'
    BY <1>2, CreateStep DEF AckedInv
  <1>3. ASSUME NEW p \in Procs, Rename(p)
        PROVE  AckedInv'
    <2>1. acked' = acked /\ (TheLog' = TheLog \/ \E x \in Bytes : TheLog' = Append(TheLog, x))
      BY <1>3, ExtendStep
    <2>2. CASE TheLog' = TheLog  BY <2>1, <2>2 DEF AckedInv
    <2>3. ASSUME NEW x \in Bytes, TheLog' = Append(TheLog, x)
          PROVE  AckedInv'
      <3>1. \A k \in 1..Len(TheLog) : TheLog'[k] = TheLog[k]
        BY <2>3, LogType
      <3>2. Len(TheLog') = Len(TheLog) + 1 /\ Len(TheLog) \in Nat
        BY <2>3, LogType
      <3>3. QED  BY <2>1, <3>1, <3>2 DEF AckedInv
    <2>4. QED  BY <2>1, <2>2, <2>3
  <1>4. ASSUME NEW p \in Procs, Report(p)
        PROVE  AckedInv'
    <2>1. /\ TheLog' = TheLog
          /\ \/ acked' = acked
             \/ \E i \in 1..Len(TheLog) :
                  acked' = acked \cup {[index |-> i - 1, data |-> TheLog[i]]}
      BY <1>4, AcknowledgeStep
    <2>2. \A i \in 1..Len(TheLog) : i - 1 \in Nat /\ i - 1 < Len(TheLog) /\ (i - 1) + 1 = i
      BY LogType
    <2>3. QED  BY <2>1, <2>2 DEF AckedInv
  <1>5. ASSUME NEW p \in Procs,
               \/ Checkpoint(p)
               \/ \E i \in 0..MaxLeaves : ProveInclusion(p, i)
               \/ \E old \in 1..MaxLeaves : ProveConsistency(p, old)
        PROVE  AckedInv'
    BY <1>5, SignStep DEF AckedInv
  <1>6. QED  BY <1>1, <1>2, <1>3, <1>4, <1>5, SeenSteps

LEMMA AckedInvariance == ASSUME Serial PROVE Spec => []AckedInv
  <1>1. Init => AckedInv  BY DEF Init, AckedInv
  <1>2. SerialInv /\ SerialInv' /\ AckedInv /\ [Next]_vars => AckedInv'  BY AckedStep
  <1>3. QED  BY <1>1, <1>2, SerialInvariance, PTL DEF Spec

\* The leaves under a signature are a prefix of the log.
LEMMA SignedIsPrefix ==
  ASSUME SerialInv, NEW s \in signed
  PROVE  /\ s.pin.root_hash \in Seq(Bytes)
         /\ s.pin.tree_size = Len(s.pin.root_hash)
         /\ Len(s.pin.root_hash) \in 0..Len(TheLog)
         /\ \A k \in 1..Len(s.pin.root_hash) : s.pin.root_hash[k] = TheLog[k]
  <1>1. PICK n \in 0..Len(TheLog) : s.pin = Pin(SubSeq(TheLog, 1, n))
    BY DEF SerialInv, SignedInv
  <1>2. TheLog \in Seq(Bytes) /\ Len(TheLog) \in Nat  BY LogType
  <1> DEFINE t == SubSeq(TheLog, 1, n)
  <1>3. t \in Seq(Bytes) /\ Len(t) = n /\ \A k \in 1..n : t[k] = TheLog[k]
    BY <1>2
  <1>4. s.pin.root_hash = t /\ s.pin.tree_size = Len(t)  BY <1>1, PinIs
  <1> HIDE DEF t
  <1>5. QED  BY <1>3, <1>4

LEMMA AckedProvable == SerialInv /\ AckedInv => AckedIsProvable
  <1> SUFFICES ASSUME SerialInv, AckedInv, NEW a \in acked, NEW s \in signed,
                      a.index < s.pin.tree_size, NEW d \in Bytes
               PROVE  VerifyInclusionRaw(NoteRoot(s), d, a.index,
                                         InclusionPath(s.pin.root_hash, a.index))
                        <=> d = a.data
    BY DEF AckedIsProvable
  <1> DEFINE t == s.pin.root_hash
             i == a.index
             path == InclusionPath(t, i)
  <1>1. /\ t \in Seq(Bytes) /\ i \in Nat /\ i < Len(t)
        /\ NoteRoot(s) = Root(t)
    BY SignedIsPrefix DEF NoteRoot, AckedInv
  <1>2. t[i + 1] = a.data
    <2>1. i + 1 \in 1..Len(t)  BY <1>1
    <2>2. t[i + 1] = TheLog[i + 1]  BY <2>1, SignedIsPrefix
    <2>3. QED  BY <2>2 DEF AckedInv
  <1>3. Len(path) \in Nat
    <2>1. 0 \in Nat /\ Len(t) \in Positive  BY <1>1 DEF Positive
    <2>2. path \in Seq(NodesOf(t))
      BY <1>1, <2>1, InclusionPathsType DEF InclusionPath
    <2>3. QED  BY <2>2
  <1> HIDE DEF t, i, path
  <1>4. VerifyInclusionRaw(Root(t), t[i + 1], i, path)
    BY <1>1, InclusionProofsComplete DEF path
  <1>5. VerifyInclusionRaw(Root(t), d, i, path) => t[i + 1] = d
    BY <1>1, <1>3, InclusionProofsSound
  <1>6. VerifyInclusionRaw(NoteRoot(s), d, i, path) <=> d = a.data
    BY <1>1, <1>2, <1>4, <1>5
  <1>7. QED  BY <1>6 DEF t, i, path

\* An append that a single writer reported can be proved to third parties for
\* ever: prove_inclusion and verify_inclusion agree on its bytes, and on no
\* others, under every root that covers its index and that checkpoint or prove
\* signed, whatever crashed and whatever became of the leaf files.
THEOREM AckedLeavesProvable == ASSUME Serial PROVE Spec => []AckedIsProvable
  BY SerialInvariance, AckedInvariance, AckedProvable, PTL

LEMMA SignedLinked == SerialInv => SignedAreLinked
  <1> SUFFICES ASSUME SerialInv, NEW s \in signed, NEW t \in signed
               PROVE  /\ s.origin = t.origin
                      /\ 0 < s.pin.tree_size /\ s.pin.tree_size <= t.pin.tree_size =>
                           VerifyConsistency(NoteRoot(s), NoteRoot(t),
                             ConsistencyPath(t.pin.root_hash, s.pin.tree_size))
    BY DEF SignedAreLinked
  <1>1. s.origin = t.origin
    BY DEF SerialInv, SignedInv
  <1>2. ASSUME 0 < s.pin.tree_size, s.pin.tree_size <= t.pin.tree_size
        PROVE  VerifyConsistency(NoteRoot(s), NoteRoot(t),
                 ConsistencyPath(t.pin.root_hash, s.pin.tree_size))
    <2> DEFINE old == s.pin.root_hash
               new == t.pin.root_hash
    <2>1. /\ old \in Seq(Bytes) /\ new \in Seq(Bytes)
          /\ s.pin.tree_size = Len(old) /\ t.pin.tree_size = Len(new)
          /\ Len(old) \in Nat /\ Len(new) \in Nat
          /\ \A k \in 1..Len(old) : old[k] = TheLog[k]
          /\ \A k \in 1..Len(new) : new[k] = TheLog[k]
      BY SignedIsPrefix
    <2>2. NoteRoot(s) = Root(old) /\ NoteRoot(t) = Root(new)
      BY DEF NoteRoot
    <2> HIDE DEF old, new
    <2>3. Len(old) # 0 /\ Len(old) <= Len(new)  BY <1>2, <2>1
    <2>4. \A k \in 1..Len(old) : old[k] = new[k]  BY <2>1, <2>3
    <2>5. VerifyConsistency(Root(old), Root(new), ConsistencyPath(new, Len(old)))
      BY <2>1, <2>3, <2>4, ConsistencyProofsComplete
    <2>6. QED  BY <2>1, <2>2, <2>5 DEF new
  <1>3. QED  BY <1>1, <1>2

\* No third party can be left with two notes of a single writer that the log
\* cannot link: from any root that was signed to any one at least as large,
\* prove_consistency gives a proof that verify_consistency accepts.
THEOREM SignedRootsLinked == ASSUME Serial PROVE Spec => []SignedAreLinked
  BY SerialInvariance, SignedLinked, PTL

===============================================================================
