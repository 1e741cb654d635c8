---------------------------- MODULE LogStoreProofs ----------------------------
(***************************************************************************)
(* What holds of the log directory for every number of processes, leaves   *)
(* and payloads, with commands interleaved in any way and crashes at any   *)
(* point, as long as nothing outside the program alters a leaf file (what  *)
(* `Flow' says of the control flow holds even then).                       *)
(*                                                                         *)
(* The inductive invariant says what each process knows of the disk at     *)
(* each of its steps.  Its heart is the leaf being written: O_EXCL gives   *)
(* it a single writer, and until it is whole no payload can be confused    *)
(* with it, so a whole leaf never changes.                                 *)
(***************************************************************************)
EXTENDS LogStore, TLAPS

WriteStateSteps == {"tmp_open", "tmp_write", "rename"}
OpenSteps == {"read_state", "list", "read_leaf", "check"}

\* The leaves in memory exist on disk, and the whole ones are still the same.
OnDisk(s) ==
  /\ Len(s) <= MaxLeaves
  /\ \A j \in 1..Len(s) :
       leaf[j - 1] # Absent /\ (s[j] \in Payload => leaf[j - 1] = s[j])

\* The files that read_leaves listed are still there.
ListedInv(p) ==
  /\ \A i \in Index : i < loc[p].count => leaf[i] # Absent
  /\ pc[p] \in {"read_log", "read_state", "list"} => mem(p) = << >>
  /\ pc[p] = "read_leaf" => Len(mem(p)) < loc[p].count

\* Which command is at which step, with its inputs.
CommandInv(p) ==
  /\ loc[p].cmd = "append" => loc[p].data \in Payload
  /\ pc[p] \in {"log_open", "log_write"} => loc[p].cmd = "init" /\ loc[p].after = "init"
  /\ loc[p].cmd = "init" => loc[p].origin \in Origin
  /\ pc[p] \in OpenSteps \cup {"leaf_create", "leaf_write", "sign"} =>
       loc[p].origin \in Origin
  /\ pc[p] \in {"read_log"} \cup OpenSteps => loc[p].cmd # "init"
  /\ pc[p] \in {"leaf_create", "leaf_write"} => loc[p].cmd = "append"
  /\ pc[p] \in WriteStateSteps \cup {"report"} =>
       \/ loc[p].cmd = "init" /\ loc[p].after = "init"
       \/ loc[p].cmd # "init" /\ loc[p].after = "open" /\ pc[p] # "report"
          /\ loc[p].origin \in Origin
       \/ loc[p].cmd = "append" /\ loc[p].after = "append"
          /\ Len(mem(p)) > 0 /\ mem(p)[Len(mem(p))] = loc[p].data

\* The control flow of a command, whatever is on disk.
Flow(p) ==
  /\ CommandInv(p)
  /\ Len(mem(p)) <= MaxLeaves
  /\ pc[p] \in {"read_log", "read_state", "list"} => mem(p) = << >>
  /\ pc[p] = "read_leaf" => Len(mem(p)) < loc[p].count
  /\ pc[p] = "leaf_write" => Len(mem(p)) \in Index

FlowInv == TypeOK /\ \A p \in Procs : Flow(p)

\* The leaf file a process is writing is there, and not yet whole.
WritingInv(p) ==
  pc[p] = "leaf_write" =>
    Len(mem(p)) \in Index /\ leaf[Len(mem(p))] \in {Empty, Torn(loc[p].data)}

ProcInv(p) ==
  OnDisk(mem(p)) /\ ListedInv(p) /\ CommandInv(p) /\ WritingInv(p)

\* A leaf file has one writer at a time.
OneWriter ==
  \A p, q \in Procs :
    pc[p] = "leaf_write" /\ pc[q] = "leaf_write" /\ p # q => Len(mem(p)) # Len(mem(q))

\* The leaves under a signed root exist, and the whole ones are on disk.
SignedOnDisk == \A s \in signed : OnDisk(s.pin.root_hash)

IndInv ==
  /\ TypeOK
  /\ LeavesContiguous
  /\ \A p \in Procs : ProcInv(p)
  /\ OneWriter
  /\ AckDurable
  /\ SignedOnDisk

-------------------------------------------------------------------------------
\* Facts about the constants and about pins.

LEMMA PinType ==
  ASSUME NEW s \in Seq(Bytes)
  PROVE  Pin(s) \in PinSet /\ Pin(s) # Absent /\ Pin(s) # Malformed
  BY DistinctAssumption DEF Pin, PinSet

LEMMA BytesType ==
  /\ Empty \in Bytes /\ Empty # Absent /\ Empty \notin Payload
  /\ \A d \in Payload : /\ d \in Bytes /\ d # Absent
                        /\ Torn(d) \in Bytes /\ Torn(d) # Absent /\ Torn(d) \notin Payload
  BY DistinctAssumption DEF Bytes

LEMMA NoCommandType == NoCommand \in Locals
  BY BoundAssumption DEF NoCommand, Locals

\* Assigning one local variable of a command.
LEMMA LocalsType ==
  ASSUME NEW l \in Locals
  PROVE  /\ \A x \in Origin : [l EXCEPT !.origin = x] \in Locals
         /\ \A x \in PinSet : [l EXCEPT !.pinned = x] \in Locals
         /\ \A x \in 0..MaxLeaves : [l EXCEPT !.count = x] \in Locals
         /\ \A x \in Seq(Bytes) : [l EXCEPT !.mem = x] \in Locals
         /\ \A x \in {"init", "open", "append"} : [l EXCEPT !.after = x] \in Locals
         /\ \A x \in Seq(Bytes) : [l EXCEPT !.mem = x, !.after = "append"] \in Locals
         /\ l.mem \in Seq(Bytes) /\ l.count \in 0..MaxLeaves
  BY DEF Locals

\* ... leaves the others as they are.
LEMMA LocalsKept ==
  ASSUME NEW l \in Locals, NEW x
  PROVE  /\ LET m == [l EXCEPT !.origin = x] IN
              /\ m.origin = x /\ m.cmd = l.cmd /\ m.data = l.data /\ m.pinned = l.pinned
              /\ m.count = l.count /\ m.mem = l.mem /\ m.after = l.after
         /\ LET m == [l EXCEPT !.pinned = x] IN
              /\ m.pinned = x /\ m.cmd = l.cmd /\ m.data = l.data /\ m.origin = l.origin
              /\ m.count = l.count /\ m.mem = l.mem /\ m.after = l.after
         /\ LET m == [l EXCEPT !.count = x] IN
              /\ m.count = x /\ m.cmd = l.cmd /\ m.data = l.data /\ m.origin = l.origin
              /\ m.pinned = l.pinned /\ m.mem = l.mem /\ m.after = l.after
         /\ LET m == [l EXCEPT !.mem = x] IN
              /\ m.mem = x /\ m.cmd = l.cmd /\ m.data = l.data /\ m.origin = l.origin
              /\ m.pinned = l.pinned /\ m.count = l.count /\ m.after = l.after
         /\ LET m == [l EXCEPT !.after = x] IN
              /\ m.after = x /\ m.cmd = l.cmd /\ m.data = l.data /\ m.origin = l.origin
              /\ m.pinned = l.pinned /\ m.count = l.count /\ m.mem = l.mem
         /\ LET m == [l EXCEPT !.mem = x, !.after = "append"] IN
              /\ m.mem = x /\ m.after = "append" /\ m.cmd = l.cmd /\ m.data = l.data
              /\ m.origin = l.origin /\ m.pinned = l.pinned /\ m.count = l.count
  BY DEF Locals

\* The local variables a command starts with.
LEMMA StartType ==
  /\ \A o \in Origin :
       [NoCommand EXCEPT !.cmd = "init", !.origin = o, !.after = "init"] \in Locals
  /\ \A d \in Payload : [NoCommand EXCEPT !.cmd = "append", !.data = d] \in Locals
  /\ \A c \in Commands : [NoCommand EXCEPT !.cmd = c] \in Locals
  BY NoCommandType DEF Locals, Commands

-------------------------------------------------------------------------------
\* Type correctness.

LEMMA TypeInit == Init => TypeOK
  BY NoCommandType DEF Init, TypeOK, Steps

\* What the open store of a signing command gives to sign.
LEMMA NoteType ==
  ASSUME FlowInv, NEW p \in Procs, pc[p] = "sign",
         NEW s \in Seq(Bytes)
  PROVE  Note(p, s) \in [origin : Origin, pin : PinSet]
  <1>1. loc[p].origin \in Origin  BY DEF FlowInv, Flow, CommandInv
  <1>2. QED  BY <1>1, PinType DEF Note

LEMMA MemType ==
  ASSUME TypeOK, NEW p \in Procs
  PROVE  mem(p) \in Seq(Bytes)
  BY LocalsType DEF TypeOK, mem

\* read_leaves reads only files whose index it listed.
LEMMA ReadIndex ==
  ASSUME FlowInv, NEW p \in Procs, pc[p] = "read_leaf"
  PROVE  Len(mem(p)) \in Index
  <1>1. loc[p].count \in 0..MaxLeaves /\ Len(mem(p)) \in Nat
    <2>1. loc[p] \in Locals  BY DEF FlowInv, TypeOK
    <2>2. loc[p].count \in 0..MaxLeaves  BY <2>1, LocalsType
    <2>3. mem(p) \in Seq(Bytes)  BY MemType DEF FlowInv
    <2>4. QED  BY <2>2, <2>3
  <1>2. Len(mem(p)) < loc[p].count
    BY DEF FlowInv, Flow
  <1>3. QED BY <1>1, <1>2, BoundAssumption DEF Index

LEMMA ExitType ==
  ASSUME TypeOK, NEW p \in Procs, Exit(p)
  PROVE  /\ pc' \in [Procs -> Steps]
         /\ loc' \in [Procs -> Locals]
         /\ fd' \in [Procs -> {"none", "tmp", "state", "gone"}]
  BY NoCommandType DEF TypeOK, Exit, Steps

LEMMA FailType ==
  ASSUME TypeOK, NEW p \in Procs, Fail(p)
  PROVE  TypeOK'
  BY ExitType DEF TypeOK, Fail, files, reports

LEMMA StepType == ASSUME FlowInv, NEW p \in Procs, Step(p) PROVE TypeOK'
  <1> USE DEF files, reports, At, Goto
  <1>0. TypeOK  BY DEF FlowInv
  <1>1. CASE OpenLogJson(p) BY <1>0, <1>1 DEF OpenLogJson, TypeOK, Steps
  <1>2. CASE WriteLogJson(p)
    <2>1. loc[p].origin \in Origin BY <1>2 DEF WriteLogJson, FlowInv, Flow, CommandInv
    <2>2. QED BY <1>0, <1>2, <2>1 DEF WriteLogJson, TypeOK, Steps
  <1>3. CASE ReadLogJson(p)
    <2>1. CASE Fail(p) BY <1>0, <2>1, FailType
    <2>2. CASE ~Fail(p)
      <3>1. [loc[p] EXCEPT !.origin = logJson] \in Locals
        BY <1>0, <1>3, <2>2, LocalsType DEF ReadLogJson, TypeOK
      <3>2. QED BY <1>0, <1>3, <2>2, <3>1 DEF ReadLogJson, TypeOK, Steps
    <2>3. QED BY <2>1, <2>2
  <1>4. CASE ReadStateJson(p)
    <2>1. CASE Fail(p) BY <1>0, <2>1, FailType
    <2>2. CASE ~Fail(p)
      <3>1. [loc[p] EXCEPT !.pinned = stateJson] \in Locals
        BY <1>0, <1>4, <2>2, LocalsType DEF ReadStateJson, TypeOK
      <3>2. QED BY <1>0, <1>4, <2>2, <3>1 DEF ReadStateJson, TypeOK, Steps
    <2>3. QED BY <2>1, <2>2
  <1>5. CASE ListLeaves(p)
    <2>1. CASE Fail(p) BY <1>0, <2>1, FailType
    <2>2. CASE ~Fail(p)
      <3>1. PICK n \in 0..MaxLeaves :
              /\ pc' = [pc EXCEPT ![p] = IF n = 0 THEN "check" ELSE "read_leaf"]
              /\ loc' = [loc EXCEPT ![p].count = n]
              /\ UNCHANGED <<files, fd, pending, reports>>
        BY <1>5, <2>2 DEF ListLeaves
      <3>2. [loc[p] EXCEPT !.count = n] \in Locals
        BY <1>0, LocalsType DEF TypeOK
      <3>3. QED BY <1>0, <3>1, <3>2 DEF TypeOK, Steps
    <2>3. QED BY <2>1, <2>2
  <1>6. CASE ReadLeaf(p)
    <2>1. CASE Fail(p) BY <1>0, <2>1, FailType
    <2>2. CASE ~Fail(p)
      <3>1. Len(mem(p)) \in Index
        BY <1>0, <1>6, ReadIndex DEF ReadLeaf
      <3>2. leaf[Len(mem(p))] \in Bytes
        BY <1>0, <1>6, <2>2, <3>1 DEF ReadLeaf, TypeOK
      <3>3. Append(mem(p), leaf[Len(mem(p))]) \in Seq(Bytes)
        BY <1>0, <3>2, MemType
      <3>4. [loc[p] EXCEPT !.mem = Append(mem(p), leaf[Len(mem(p))])] \in Locals
        BY <1>0, <3>3, LocalsType DEF TypeOK
      <3>5. loc' = [loc EXCEPT ![p] = [loc[p] EXCEPT !.mem = Append(mem(p), leaf[Len(mem(p))])]]
        BY <1>6, <2>2 DEF ReadLeaf, mem
      <3>6. QED BY <1>0, <1>6, <2>2, <3>4, <3>5 DEF ReadLeaf, TypeOK, Steps
    <2>3. QED BY <2>1, <2>2
  <1>7. CASE CheckAgainstState(p)
    <2>1. CASE Fail(p) BY <1>0, <2>1, FailType
    <2>2. CASE ~Fail(p)
      <3>1. [loc[p] EXCEPT !.after = "open"] \in Locals
        BY <1>0, LocalsType DEF TypeOK
      <3>2. loc' \in [Procs -> Locals]
        BY <1>0, <1>7, <2>2, <3>1 DEF CheckAgainstState, TypeOK
      <3>3. pc' \in [Procs -> Steps]
        BY <1>0, <1>7, <2>2 DEF CheckAgainstState, TypeOK, Opened, Steps
      <3>4. QED BY <1>0, <1>7, <2>2, <3>2, <3>3 DEF CheckAgainstState, TypeOK
    <2>3. QED BY <2>1, <2>2
  <1>8. CASE OpenTmp(p) BY <1>0, <1>8 DEF OpenTmp, TypeOK, Steps
  <1>9. CASE WriteTmp(p)
    BY <1>0, <1>9, MemType, PinType DEF WriteTmp, TypeOK, Steps
  <1>10. CASE Rename(p)
    <2>1. \A q \in Procs : Renamed(fd[q]) \in {"none", "tmp", "state", "gone"}
      BY <1>0 DEF Renamed, TypeOK
    <2>2. QED BY <1>0, <1>10, <2>1, FailType DEF Rename, TypeOK, Steps, Opened
  <1>11. CASE CreateLeaf(p) BY <1>0, <1>11, FailType, BytesType DEF CreateLeaf, TypeOK, Steps
  <1>12. CASE WriteLeafPart(p)
    <2>1. loc[p].data \in Payload BY <1>12 DEF WriteLeafPart, FlowInv, Flow, CommandInv
    <2>2. QED BY <1>0, <1>12, <2>1, BytesType DEF WriteLeafPart, TypeOK, Steps
  <1>13. CASE WriteLeaf(p)
    <2>1. loc[p].data \in Payload BY <1>13 DEF WriteLeaf, FlowInv, Flow, CommandInv
    <2>2. Append(mem(p), loc[p].data) \in Seq(Bytes)
      <3>1. loc[p].data \in Bytes BY <2>1, BytesType
      <3>2. QED BY <1>0, <3>1, MemType
    <2>3. [loc[p] EXCEPT !.mem = Append(mem(p), loc[p].data), !.after = "append"] \in Locals
      BY <1>0, <2>2, LocalsType DEF TypeOK
    <2>4. loc' = [loc EXCEPT ![p] =
                    [loc[p] EXCEPT !.mem = Append(mem(p), loc[p].data), !.after = "append"]]
      BY <1>0, <1>13 DEF WriteLeaf, TypeOK, mem
    <2>5. leaf' \in [Index -> Bytes \cup {Absent}]
      BY <1>0, <1>13, <2>1, BytesType DEF WriteLeaf, TypeOK
    <2>6. loc' \in [Procs -> Locals]
      <3>1. loc \in [Procs -> Locals] BY <1>0 DEF TypeOK
      <3>2. QED BY <2>3, <2>4, <3>1
    <2>7. QED BY <1>0, <1>13, <2>5, <2>6 DEF WriteLeaf, TypeOK, Steps
  <1>14. CASE Report(p)
    <2>1. loc[p].cmd = "init" => loc[p].origin \in Origin
      BY DEF FlowInv, Flow, CommandInv
    <2>2. loc[p].cmd = "append" =>
            Len(mem(p)) - 1 \in Index /\ loc[p].data \in Payload
      BY <1>0, <1>14, BoundAssumption, MemType
      DEF FlowInv, Flow, CommandInv, Report, Index
    <2>3. QED BY <1>0, <1>14, <2>1, <2>2, ExitType DEF Report, TypeOK
  <1>15. CASE Checkpoint(p)
    BY <1>0, <1>15, ExitType, NoteType, MemType DEF Checkpoint, TypeOK
  <1>16. CASE \E i \in 0..MaxLeaves : ProveInclusion(p, i)
    BY <1>0, <1>16, ExitType, NoteType, MemType DEF ProveInclusion, TypeOK
  <1>17. CASE \E old \in 1..MaxLeaves : ProveConsistency(p, old)
    <2>1. PICK old \in 1..MaxLeaves : ProveConsistency(p, old) BY <1>17
    <2>2. old < Len(mem(p)) => SubSeq(mem(p), 1, old) \in Seq(Bytes)
      BY <1>0, MemType, BoundAssumption
    <2>3. QED BY <1>0, <2>1, <2>2, ExitType, NoteType, MemType DEF ProveConsistency, TypeOK
  <1>18. QED
    BY <1>1, <1>2, <1>3, <1>4, <1>5, <1>6, <1>7, <1>8, <1>9, <1>10, <1>11, <1>12,
       <1>13, <1>14, <1>15, <1>16, <1>17 DEF Step

\* What the start of a command does, for all commands alike.
Starts(p, l) ==
  /\ loc' = [loc EXCEPT ![p] = l]
  /\ l.mem = << >> /\ l.count = 0 /\ l.after \in {"none", "init"}
  /\ \/ l.cmd = "init" /\ l.origin \in Origin /\ l.after = "init" /\ logJson = Absent
        /\ pc' = [pc EXCEPT ![p] = "log_open"]
     \/ l.cmd # "init" /\ (l.cmd = "append" => l.data \in Payload)
        /\ pc' = [pc EXCEPT ![p] = "read_log"]

LEMMA StartForm ==
  ASSUME NEW p \in Procs, Start(p)
  PROVE  /\ \E l \in Locals : Starts(p, l)
         /\ logJson' = logJson /\ leaf' = leaf /\ stateJson' = stateJson /\ tmp' = tmp
         /\ fd' = fd /\ pending' \subseteq pending
         /\ acked' = acked /\ signed' = signed /\ inited' = inited
  <1> USE DEF At, Goto, files, reports
  <1>1. ASSUME NEW o \in Origin, StartInit(p, o) PROVE \E l \in Locals : Starts(p, l)
    <2> DEFINE m == [NoCommand EXCEPT !.cmd = "init", !.origin = o, !.after = "init"]
    <2>1. m \in Locals  BY StartType
    <2>2. m.mem = << >> /\ m.count = 0 /\ m.after = "init" /\ m.cmd = "init" /\ m.origin = o
      BY DEF NoCommand
    <2>3. Starts(p, m)  BY <1>1, <2>2 DEF StartInit, Starts
    <2>4. QED  BY <2>1, <2>3
  <1>2. ASSUME NEW d \in Payload, StartAppend(p, d) PROVE \E l \in Locals : Starts(p, l)
    <2> DEFINE m == [NoCommand EXCEPT !.cmd = "append", !.data = d]
    <2>1. m \in Locals  BY StartType
    <2>2. m.mem = << >> /\ m.count = 0 /\ m.after = "none" /\ m.cmd = "append" /\ m.data = d
      BY DEF NoCommand
    <2>3. Starts(p, m)  BY <1>2, <2>2 DEF StartAppend, Starts
    <2>4. QED  BY <2>1, <2>3
  <1>3. ASSUME NEW c \in {"checkpoint", "inclusion", "consistency"}, StartSign(p, c)
        PROVE \E l \in Locals : Starts(p, l)
    <2> DEFINE m == [NoCommand EXCEPT !.cmd = c]
    <2>1. m \in Locals  BY StartType DEF Commands
    <2>2. m.mem = << >> /\ m.count = 0 /\ m.after = "none" /\ m.cmd = c
      BY DEF NoCommand
    <2>3. Starts(p, m)  BY <1>3, <2>2 DEF StartSign, Starts
    <2>4. QED  BY <2>1, <2>3
  <1>4. QED
    BY <1>1, <1>2, <1>3 DEF Start, StartInit, StartAppend, StartSign

LEMMA StartTyped ==
  ASSUME TypeOK, NEW p \in Procs, Start(p)
  PROVE  TypeOK'
  <1>1. PICK l \in Locals : Starts(p, l)  BY StartForm
  <1>2. QED  BY <1>1, StartForm DEF Starts, TypeOK, Steps

-------------------------------------------------------------------------------
\* Control flow, with damage to leaf files and any number of processes.

LEMMA FlowInit == Init => FlowInv
  <1> SUFFICES ASSUME Init PROVE FlowInv  OBVIOUS
  <1>1. TypeOK  BY TypeInit
  <1>2. ASSUME NEW p \in Procs PROVE Flow(p)
    BY BoundAssumption
    DEF Init, Flow, CommandInv, mem, NoCommand, OpenSteps, WriteStateSteps
  <1>3. QED  BY <1>1, <1>2 DEF FlowInv

\* A step of p moves the locals of p only.
LEMMA FlowMove ==
  ASSUME FlowInv, TypeOK', NEW p \in Procs, Flow(p)',
         \A q \in Procs : q # p => pc'[q] = pc[q] /\ loc'[q] = loc[q]
  PROVE  FlowInv'
  <1>1. ASSUME NEW q \in Procs, q # p PROVE Flow(q)'
    <2>1. pc'[q] = pc[q] /\ loc'[q] = loc[q]  BY <1>1
    <2>2. Flow(q)  BY DEF FlowInv
    <2>3. QED  BY <2>1, <2>2 DEF Flow, CommandInv, mem
  <1>2. QED  BY <1>1 DEF FlowInv

LEMMA FlowExit ==
  ASSUME FlowInv, TypeOK', NEW p \in Procs, Exit(p)
  PROVE  FlowInv'
  <1>1. pc'[p] = "idle" /\ loc'[p] = NoCommand
    BY DEF FlowInv, TypeOK, Exit
  <1>2. Flow(p)'
    BY <1>1, BoundAssumption
    DEF Flow, CommandInv, mem, NoCommand, OpenSteps, WriteStateSteps
  <1>3. \A q \in Procs : q # p => pc'[q] = pc[q] /\ loc'[q] = loc[q]
    BY DEF FlowInv, TypeOK, Exit
  <1>4. QED  BY <1>2, <1>3, FlowMove

LEMMA FlowFail ==
  ASSUME FlowInv, NEW p \in Procs, Fail(p)
  PROVE  FlowInv'
  <1>1. TypeOK'  BY FailType DEF FlowInv
  <1>2. QED  BY <1>1, FlowExit DEF Fail

LEMMA FlowKnows ==
  ASSUME FlowInv, NEW p \in Procs
  PROVE  /\ TypeOK /\ pc[p] \in Steps /\ loc[p] \in Locals /\ mem(p) \in Seq(Bytes)
         /\ Flow(p) /\ CommandInv(p)
  BY MemType DEF FlowInv, Flow, TypeOK

LEMMA FlowStart ==
  ASSUME FlowInv, NEW p \in Procs, Start(p)
  PROVE  FlowInv'
  <1>1. PICK l \in Locals : Starts(p, l)  BY StartForm
  <1>2. TypeOK'  BY StartTyped DEF FlowInv
  <1>3. loc'[p] = l /\ pc'[p] \in {"log_open", "read_log"}
    BY <1>1 DEF Starts, FlowInv, TypeOK
  <1>4. Flow(p)'
    BY <1>1, <1>3, BoundAssumption
    DEF Starts, Flow, CommandInv, mem, OpenSteps, WriteStateSteps, FlowInv, TypeOK
  <1>5. \A q \in Procs : q # p => pc'[q] = pc[q] /\ loc'[q] = loc[q]
    BY <1>1 DEF Starts, FlowInv, TypeOK
  <1>6. QED  BY <1>2, <1>4, <1>5, FlowMove

LEMMA FlowStep ==
  ASSUME FlowInv, NEW p \in Procs, Step(p)
  PROVE  FlowInv'
  <1> USE DEF At, Goto
  <1>1. TypeOK'  BY StepType
  <1>2. CASE Exit(p)  BY <1>1, <1>2, FlowExit
  <1>3. CASE ~Exit(p)
    <2>1. /\ \A q \in Procs : q # p => pc'[q] = pc[q] /\ loc'[q] = loc[q]
          /\ ~Fail(p)
      BY <1>3, FlowKnows
      DEF Step, OpenLogJson, WriteLogJson, ReadLogJson, ReadStateJson, ListLeaves, ReadLeaf,
          CheckAgainstState, OpenTmp, WriteTmp, Rename, CreateLeaf, WriteLeafPart, WriteLeaf,
          Report, Checkpoint, ProveInclusion, ProveConsistency, Fail, TypeOK
    <2>2. Flow(p)'
      <3> USE FlowKnows, BoundAssumption, <1>3, <2>1
          DEF Flow, CommandInv, mem, OpenSteps, WriteStateSteps, Index
      <3>1. CASE OpenLogJson(p)  BY <3>1 DEF OpenLogJson, TypeOK
      <3>2. CASE WriteLogJson(p)  BY <3>2 DEF WriteLogJson, TypeOK
      <3>3. CASE ReadLogJson(p)
        <4>1. /\ logJson \in Origin /\ pc[p] = "read_log" /\ pc'[p] = "read_state"
              /\ loc'[p] = [loc[p] EXCEPT !.origin = logJson]
          BY <3>3 DEF ReadLogJson, TypeOK
        <4>2. QED  BY <4>1, LocalsKept
      <3>4. CASE ReadStateJson(p)
        <4>1. /\ pc[p] = "read_state" /\ pc'[p] = "list"
              /\ loc'[p] = [loc[p] EXCEPT !.pinned = stateJson]
          BY <3>4 DEF ReadStateJson, TypeOK
        <4>2. QED  BY <4>1, LocalsKept
      <3>5. CASE ListLeaves(p)
        <4>1. PICK n \in 0..MaxLeaves :
                /\ pc[p] = "list" /\ pc'[p] = IF n = 0 THEN "check" ELSE "read_leaf"
                /\ loc'[p] = [loc[p] EXCEPT !.count = n]
          BY <3>5 DEF ListLeaves, TypeOK
        <4>2. QED  BY <4>1, LocalsKept
      <3>6. CASE ReadLeaf(p)
        <4>1. /\ pc[p] = "read_leaf"
              /\ pc'[p] = IF Len(mem(p)) + 1 = loc[p].count THEN "check" ELSE "read_leaf"
              /\ loc'[p] = [loc[p] EXCEPT !.mem = Append(mem(p), leaf[Len(mem(p))])]
          BY <3>6 DEF ReadLeaf, TypeOK
        <4>2. leaf[Len(mem(p))] \in Bytes
          BY <3>6, ReadIndex DEF ReadLeaf, TypeOK
        <4>3. Len(Append(mem(p), leaf[Len(mem(p))])) = Len(mem(p)) + 1
          BY <4>2
        <4>4. Len(mem(p)) \in Nat /\ loc[p].count \in 0..MaxLeaves
          <5>1. loc[p] \in Locals  OBVIOUS
          <5>2. loc[p].count \in 0..MaxLeaves  BY <5>1, LocalsType
          <5>3. QED  BY <5>2
        <4>5. QED  BY <4>1, <4>3, <4>4, LocalsKept
      <3>7. CASE CheckAgainstState(p)
        <4>1. CASE Agrees(p)  BY <3>7, <4>1 DEF CheckAgainstState, Opened, TypeOK
        <4>2. CASE ~Agrees(p)
          <5>1. /\ pc[p] = "check" /\ pc'[p] = "tmp_open"
                /\ loc'[p] = [loc[p] EXCEPT !.after = "open"]
            BY <3>7, <4>2 DEF CheckAgainstState, TypeOK
          <5>2. QED  BY <5>1, LocalsKept
        <4>3. QED  BY <4>1, <4>2
      <3>8. CASE OpenTmp(p)  BY <3>8 DEF OpenTmp, TypeOK
      <3>9. CASE WriteTmp(p)  BY <3>9 DEF WriteTmp, TypeOK
      <3>10. CASE Rename(p)  BY <3>10 DEF Rename, Opened, TypeOK
      <3>11. CASE CreateLeaf(p)  BY <3>11 DEF CreateLeaf, TypeOK
      <3>12. CASE WriteLeafPart(p)  BY <3>12 DEF WriteLeafPart, TypeOK
      <3>13. CASE WriteLeaf(p)
        <4>1. /\ pc[p] = "leaf_write" /\ pc'[p] = "tmp_open"
              /\ loc'[p] = [loc[p] EXCEPT !.mem = Append(mem(p), loc[p].data), !.after = "append"]
          BY <3>13 DEF WriteLeaf, TypeOK
        <4>2. loc[p].data \in Bytes  BY <4>1, BytesType
        <4>3. /\ Len(Append(mem(p), loc[p].data)) = Len(mem(p)) + 1
              /\ Append(mem(p), loc[p].data)[Len(mem(p)) + 1] = loc[p].data
          BY <4>2
        <4>4. Len(mem(p)) \in Nat  OBVIOUS
        <4>5. QED  BY <4>1, <4>3, <4>4, LocalsKept
      <3>14. QED
        BY <3>1, <3>2, <3>3, <3>4, <3>5, <3>6, <3>7, <3>8, <3>9, <3>10, <3>11, <3>12, <3>13
        DEF Step, Report, Checkpoint, ProveInclusion, ProveConsistency
    <2>3. QED  BY <1>1, <2>1, <2>2, FlowMove
  <1>4. QED  BY <1>2, <1>3

LEMMA RotType ==
  ASSUME TypeOK, NEW i \in Index, NEW b \in Payload \cup {Empty, Absent}, Rot(i, b)
  PROVE  TypeOK' /\ UNCHANGED <<logJson, stateJson, tmp, pc, loc, fd, pending, reports>>
  BY BytesType DEF Rot, TypeOK, reports

LEMMA FlowNext == FlowInv /\ [Next]_vars => FlowInv'
  <1> SUFFICES ASSUME FlowInv, [Next]_vars PROVE FlowInv'  OBVIOUS
  <1>1. CASE UNCHANGED vars
    BY <1>1 DEF vars, FlowInv, TypeOK, Flow, CommandInv, mem
  <1>2. ASSUME NEW p \in Procs, Start(p) PROVE FlowInv'  BY <1>2, FlowStart
  <1>3. ASSUME NEW p \in Procs, Step(p) PROVE FlowInv'  BY <1>3, FlowStep
  <1>4. ASSUME NEW p \in Procs, Crash(p) PROVE FlowInv'
    BY <1>4, FlowFail DEF Crash, Fail
  <1>5. ASSUME NEW i \in Index, NEW b \in Payload \cup {Empty, Absent}, Rot(i, b)
        PROVE  FlowInv'
    BY <1>5, RotType DEF FlowInv, Flow, CommandInv, mem
  <1>6. QED  BY <1>1, <1>2, <1>3, <1>4, <1>5 DEF Next

\* Type correctness of init, append, checkpoint and prove, with any interleaving,
\* crash and damage: in particular no process ever writes, reports or signs a
\* value that is not there yet.
THEOREM TypeCorrect == Spec => []TypeOK
  <1>1. FlowInv => TypeOK  BY DEF FlowInv
  <1>2. QED  BY <1>1, FlowInit, FlowNext, PTL DEF Spec

-------------------------------------------------------------------------------
\* The inductive invariant.

LEMMA IndFlow == IndInv => FlowInv
  BY DEF IndInv, ProcInv, OnDisk, ListedInv, WritingInv, FlowInv, Flow

LEMMA InitInd == Init => IndInv
  <1> SUFFICES ASSUME Init PROVE IndInv  OBVIOUS
  <1>1. TypeOK  BY TypeInit
  <1>2. LeavesContiguous
    <2>1. 0 \in 0..MaxLeaves  BY BoundAssumption
    <2>2. Listed(0)  BY BoundAssumption DEF Init, Listed, Index
    <2>3. QED  BY <2>1, <2>2 DEF LeavesContiguous
  <1>3. ASSUME NEW p \in Procs PROVE ProcInv(p)
    BY BoundAssumption
    DEF Init, ProcInv, OnDisk, ListedInv, CommandInv, WritingInv, mem, NoCommand, Index,
        OpenSteps, WriteStateSteps
  <1>4. OneWriter /\ AckDurable /\ SignedOnDisk
    BY DEF Init, OneWriter, AckDurable, SignedOnDisk
  <1>5. QED  BY <1>1, <1>2, <1>3, <1>4 DEF IndInv

\* A step of p that leaves the leaf files alone.
LEMMA LocalStep ==
  ASSUME IndInv, TypeOK', NEW p \in Procs, leaf' = leaf,
         \A q \in Procs : q # p => pc'[q] = pc[q] /\ loc'[q] = loc[q],
         ProcInv(p)', pc'[p] # "leaf_write", AckDurable', SignedOnDisk'
  PROVE  IndInv'
  <1>1. LeavesContiguous'
    BY DEF IndInv, LeavesContiguous, Listed
  <1>2. ASSUME NEW q \in Procs, q # p PROVE ProcInv(q)'
    <2>1. pc'[q] = pc[q] /\ loc'[q] = loc[q] /\ ProcInv(q)  BY <1>2 DEF IndInv
    <2>2. QED
      BY <2>1 DEF ProcInv, OnDisk, ListedInv, CommandInv, WritingInv, mem
  <1>3. OneWriter'  BY DEF IndInv, OneWriter, mem
  <1>4. QED  BY <1>1, <1>2, <1>3 DEF IndInv

\* The same, when the step neither reports nor signs anything.
LEMMA QuietStep ==
  ASSUME IndInv, TypeOK', NEW p \in Procs, leaf' = leaf, acked' = acked, signed' = signed,
         \A q \in Procs : q # p => pc'[q] = pc[q] /\ loc'[q] = loc[q],
         ProcInv(p)', pc'[p] # "leaf_write"
  PROVE  IndInv'
  <1>1. AckDurable' /\ SignedOnDisk'
    BY DEF IndInv, AckDurable, SignedOnDisk, OnDisk
  <1>2. QED  BY <1>1, LocalStep

\* A command that ends.
LEMMA ExitInv ==
  ASSUME IndInv, NEW p \in Procs, Exit(p), leaf' = leaf
  PROVE  /\ ProcInv(p)' /\ pc'[p] # "leaf_write"
         /\ \A q \in Procs : q # p => pc'[q] = pc[q] /\ loc'[q] = loc[q]
  <1>1. pc'[p] = "idle" /\ loc'[p] = NoCommand
    BY DEF IndInv, TypeOK, Exit
  <1>2. ProcInv(p)'
    BY <1>1, BoundAssumption
    DEF ProcInv, OnDisk, ListedInv, CommandInv, WritingInv, mem, NoCommand, Index,
        OpenSteps, WriteStateSteps
  <1>3. QED  BY <1>1, <1>2 DEF IndInv, TypeOK, Exit

LEMMA FailInv ==
  ASSUME IndInv, NEW p \in Procs, Fail(p)
  PROVE  IndInv'
  <1>1. TypeOK'  BY FailType DEF IndInv
  <1>2. QED  BY <1>1, ExitInv, QuietStep DEF Fail, files, reports

\* What a process knows, spelt out for the steps that follow.
LEMMA Knows ==
  ASSUME IndInv, NEW p \in Procs
  PROVE  /\ TypeOK /\ pc[p] \in Steps /\ loc[p] \in Locals /\ mem(p) \in Seq(Bytes)
         /\ OnDisk(mem(p)) /\ ListedInv(p) /\ CommandInv(p) /\ WritingInv(p)
  BY MemType DEF IndInv, ProcInv, TypeOK

LEMMA StartInv ==
  ASSUME IndInv, NEW p \in Procs, Start(p)
  PROVE  IndInv'
  <1>1. PICK l \in Locals : Starts(p, l)  BY StartForm
  <1>2. leaf' = leaf /\ acked' = acked /\ signed' = signed  BY StartForm
  <1>3. TypeOK'  BY StartTyped DEF IndInv
  <1>4. loc'[p] = l /\ pc'[p] \in {"log_open", "read_log"}
    BY <1>1 DEF Starts, IndInv, TypeOK
  <1>5. ProcInv(p)'
    BY <1>1, <1>4, BoundAssumption
    DEF Starts, ProcInv, OnDisk, ListedInv, CommandInv, WritingInv, mem, Index, OpenSteps,
        WriteStateSteps, IndInv, TypeOK
  <1>6. \A q \in Procs : q # p => pc'[q] = pc[q] /\ loc'[q] = loc[q]
    BY <1>1 DEF Starts, IndInv, TypeOK
  <1>7. QED  BY <1>2, <1>3, <1>4, <1>5, <1>6, QuietStep

\* The steps of init and of write_state move no local variable.
LEMMA PlainInv ==
  ASSUME IndInv, NEW p \in Procs,
         OpenLogJson(p) \/ WriteLogJson(p) \/ OpenTmp(p) \/ WriteTmp(p) \/ Rename(p)
  PROVE  IndInv'
  <1> USE DEF At, Goto, files, reports
  <1>1. CASE Fail(p)  BY <1>1, FailInv
  <1>2. CASE ~Fail(p)
    <2>1. TypeOK'  BY StepType, IndFlow DEF Step
    <2>2. PICK to \in Steps :
            /\ pc' = [pc EXCEPT ![p] = to] /\ loc' = loc /\ leaf' = leaf
            /\ acked' = acked /\ signed' = signed
            /\ \/ pc[p] = "log_open" /\ to = "log_write"
               \/ pc[p] = "log_write" /\ to = "tmp_open"
               \/ pc[p] = "tmp_open" /\ to = "tmp_write"
               \/ pc[p] = "tmp_write" /\ to = "rename"
               \/ pc[p] = "rename"
                  /\ to = IF loc[p].after = "open" THEN Opened(p) ELSE "report"
      BY <1>2 DEF OpenLogJson, WriteLogJson, OpenTmp, WriteTmp, Rename, Steps, Opened
    <2>3. pc'[p] = to /\ \A q \in Procs : q # p => pc'[q] = pc[q] /\ loc'[q] = loc[q]
      BY <2>2 DEF IndInv, TypeOK
    <2>4. to \notin {"leaf_write", "read_leaf", "read_log", "read_state", "list"}
      BY <2>2 DEF Opened
    <2>5. CommandInv(p)'
      BY <2>2, <2>3, Knows DEF CommandInv, mem, OpenSteps, WriteStateSteps, Opened
    <2>6. ProcInv(p)'
      BY <2>2, <2>3, <2>4, <2>5, Knows DEF ProcInv, OnDisk, ListedInv, WritingInv, mem
    <2>7. QED  BY <2>1, <2>2, <2>3, <2>4, <2>6, QuietStep
  <1>3. QED  BY <1>1, <1>2

\* A quiet step of p to a step other than writing a leaf, which keeps the tree
\* in memory: what p knows follows from its new local variables.
LEMMA MoveInv ==
  ASSUME IndInv, TypeOK', NEW p \in Procs, NEW to, NEW l \in Locals,
         pc' = [pc EXCEPT ![p] = to], loc' = [loc EXCEPT ![p] = l],
         UNCHANGED <<files, fd, pending, reports>>,
         l.mem = mem(p), to # "leaf_write",
         CommandInv(p)', ListedInv(p)'
  PROVE  IndInv'
  <1>1. pc'[p] = to /\ loc'[p] = l
    BY DEF IndInv, TypeOK
  <1>2. \A q \in Procs : q # p => pc'[q] = pc[q] /\ loc'[q] = loc[q]
    BY DEF IndInv, TypeOK
  <1>3. leaf' = leaf /\ acked' = acked /\ signed' = signed  BY DEF files, reports
  <1>4. ProcInv(p)'
    BY <1>1, <1>3, Knows DEF ProcInv, OnDisk, WritingInv, mem
  <1>5. QED  BY <1>1, <1>2, <1>3, <1>4, QuietStep

\* The steps of open, but for the reading of a leaf.
LEMMA OpenInv ==
  ASSUME IndInv, NEW p \in Procs,
         ReadLogJson(p) \/ ReadStateJson(p) \/ ListLeaves(p) \/ CheckAgainstState(p)
  PROVE  IndInv'
  <1> USE DEF At, Goto, OpenSteps, WriteStateSteps
  <1>1. CASE Fail(p)  BY <1>1, FailInv
  <1>2. SUFFICES ASSUME ~Fail(p) PROVE IndInv'  BY <1>1
  <1>3. TypeOK'  BY StepType, IndFlow DEF Step
  <1>4. \A m : loc' = [loc EXCEPT ![p] = m] => loc'[p] = m  BY DEF IndInv, TypeOK
  <1>5. \A m : pc' = [pc EXCEPT ![p] = m] => pc'[p] = m  BY DEF IndInv, TypeOK
  <1>6. loc[p] \in Locals  BY Knows
  <1>7. CASE ReadLogJson(p)
    <2> DEFINE l == [loc[p] EXCEPT !.origin = logJson]
    <2>1. /\ pc[p] = "read_log" /\ pc' = [pc EXCEPT ![p] = "read_state"]
          /\ loc' = [loc EXCEPT ![p] = l] /\ logJson \in Origin
          /\ UNCHANGED <<files, fd, pending, reports>>
      BY <1>2, <1>7 DEF ReadLogJson
    <2>2. l \in Locals  BY <1>6, <2>1, LocalsType
    <2>3. /\ l.cmd = loc[p].cmd /\ l.data = loc[p].data /\ l.mem = mem(p)
          /\ l.count = loc[p].count /\ l.after = loc[p].after /\ l.origin = logJson
      BY <1>6 DEF Locals, mem
    <2> HIDE DEF l
    <2>4. loc'[p] = l /\ leaf' = leaf  BY <1>4, <2>1 DEF files
    <2>5. CommandInv(p)'
      BY <1>5, <2>1, <2>3, <2>4, Knows DEF CommandInv, mem
    <2>6. ListedInv(p)'
      BY <1>5, <2>1, <2>3, <2>4, Knows DEF ListedInv, mem
    <2>7. QED  BY <1>3, <2>1, <2>2, <2>3, <2>5, <2>6, MoveInv
  <1>8. CASE ReadStateJson(p)
    <2> DEFINE l == [loc[p] EXCEPT !.pinned = stateJson]
    <2>1. /\ pc[p] = "read_state" /\ pc' = [pc EXCEPT ![p] = "list"]
          /\ loc' = [loc EXCEPT ![p] = l] /\ stateJson \notin {Absent, Malformed}
          /\ UNCHANGED <<files, fd, pending, reports>>
      BY <1>2, <1>8 DEF ReadStateJson
    <2>2. l \in Locals  BY <1>6, <2>1, LocalsType DEF IndInv, TypeOK
    <2>3. /\ l.cmd = loc[p].cmd /\ l.data = loc[p].data /\ l.mem = mem(p)
          /\ l.count = loc[p].count /\ l.after = loc[p].after /\ l.origin = loc[p].origin
      BY <1>6 DEF Locals, mem
    <2> HIDE DEF l
    <2>4. loc'[p] = l /\ leaf' = leaf  BY <1>4, <2>1 DEF files
    <2>5. CommandInv(p)'
      BY <1>5, <2>1, <2>3, <2>4, Knows DEF CommandInv, mem
    <2>6. ListedInv(p)'
      BY <1>5, <2>1, <2>3, <2>4, Knows DEF ListedInv, mem
    <2>7. QED  BY <1>3, <2>1, <2>2, <2>3, <2>5, <2>6, MoveInv
  <1>9. CASE ListLeaves(p)
    <2>1. PICK n \in 0..MaxLeaves :
            /\ pc[p] = "list" /\ Listed(n)
            /\ pc' = [pc EXCEPT ![p] = IF n = 0 THEN "check" ELSE "read_leaf"]
            /\ loc' = [loc EXCEPT ![p] = [loc[p] EXCEPT !.count = n]]
            /\ UNCHANGED <<files, fd, pending, reports>>
      BY <1>2, <1>9 DEF ListLeaves
    <2> DEFINE l == [loc[p] EXCEPT !.count = n]
    <2>2. l \in Locals  BY <1>6, LocalsType
    <2>3. /\ l.cmd = loc[p].cmd /\ l.data = loc[p].data /\ l.mem = mem(p)
          /\ l.count = n /\ l.after = loc[p].after /\ l.origin = loc[p].origin
      BY <1>6 DEF Locals, mem
    <2>4. loc' = [loc EXCEPT ![p] = l]  BY <2>1
    <2> HIDE DEF l
    <2>5. CommandInv(p)'
      BY <1>4, <1>5, <2>1, <2>3, <2>4, Knows DEF CommandInv, mem
    <2>6. mem(p) = << >>  BY <2>1, Knows DEF ListedInv
    <2>7. ListedInv(p)'
      <3>1. loc'[p] = l /\ leaf' = leaf  BY <1>4, <2>1, <2>4 DEF files
      <3>2. \A i \in Index : i < n => leaf[i] # Absent  BY <2>1 DEF Listed
      <3>3. n # 0 => Len(mem(p)) < n  BY <2>6
      <3>4. QED  BY <1>5, <2>1, <2>3, <3>1, <3>2, <3>3 DEF ListedInv, mem
    <2>8. QED  BY <1>3, <2>1, <2>2, <2>3, <2>4, <2>5, <2>7, MoveInv
  <1>10. CASE CheckAgainstState(p)
    <2> DEFINE l == [loc[p] EXCEPT !.after = "open"]
    <2>1. l \in Locals  BY <1>6, LocalsType
    <2>2. /\ l.cmd = loc[p].cmd /\ l.data = loc[p].data /\ l.mem = mem(p)
          /\ l.count = loc[p].count /\ l.after = "open" /\ l.origin = loc[p].origin
      BY <1>6 DEF Locals, mem
    <2>3. pc[p] = "check" /\ UNCHANGED <<files, fd, pending, reports>>
      BY <1>2, <1>10 DEF CheckAgainstState
    <2>4. CASE loc' = [loc EXCEPT ![p] = l] /\ pc' = [pc EXCEPT ![p] = "tmp_open"]
      <3> HIDE DEF l
      <3>1. loc'[p] = l /\ leaf' = leaf  BY <1>4, <2>3, <2>4 DEF files
      <3>2. CommandInv(p)'
        BY <1>5, <2>2, <2>3, <2>4, <3>1, Knows DEF CommandInv, mem
      <3>3. ListedInv(p)'
        BY <1>5, <2>2, <2>4, <3>1, Knows DEF ListedInv, mem
      <3>4. QED  BY <1>3, <2>1, <2>2, <2>3, <2>4, <3>2, <3>3, MoveInv
    <2>5. CASE loc' = loc /\ pc' = [pc EXCEPT ![p] = Opened(p)]
      <3>1. loc' = [loc EXCEPT ![p] = loc[p]]  BY <2>5 DEF IndInv, TypeOK
      <3>2. Opened(p) \in {"leaf_create", "sign"} /\
              (Opened(p) = "leaf_create" => loc[p].cmd = "append")  BY DEF Opened
      <3>3. CommandInv(p)' /\ ListedInv(p)'
        BY <1>5, <2>3, <2>5, <3>2, Knows DEF CommandInv, ListedInv, mem, files
      <3>4. QED  BY <1>3, <1>6, <2>3, <2>5, <3>1, <3>2, <3>3, MoveInv DEF mem
    <2>6. QED  BY <1>2, <1>10, <2>4, <2>5 DEF CheckAgainstState
  <1>11. QED  BY <1>7, <1>8, <1>9, <1>10

\* Reading a leaf adds to the tree in memory what is on disk.
LEMMA ReadLeafInv ==
  ASSUME IndInv, NEW p \in Procs, ReadLeaf(p)
  PROVE  IndInv'
  <1> USE DEF At, Goto, OpenSteps, WriteStateSteps
  <1>1. CASE Fail(p)  BY <1>1, FailInv
  <1>2. SUFFICES ASSUME ~Fail(p) PROVE IndInv'  BY <1>1
  <1> DEFINE i == Len(mem(p))
             s == Append(mem(p), leaf[i])
             l == [loc[p] EXCEPT !.mem = s]
             to == IF i + 1 = loc[p].count THEN "check" ELSE "read_leaf"
  <1>3. /\ pc[p] = "read_leaf" /\ leaf[i] # Absent
        /\ pc' = [pc EXCEPT ![p] = to] /\ loc' = [loc EXCEPT ![p] = l]
        /\ UNCHANGED <<files, fd, pending, reports>>
    BY <1>2 DEF ReadLeaf, mem
  <1>4. i \in Index /\ i < loc[p].count /\ loc[p].count \in 0..MaxLeaves
    BY <1>3, ReadIndex, IndFlow, Knows, LocalsType DEF ListedInv
  <1>5. leaf[i] \in Bytes  BY <1>3, <1>4, Knows DEF TypeOK
  <1>6. mem(p) \in Seq(Bytes) /\ loc[p] \in Locals  BY Knows
  <1>7. /\ s \in Seq(Bytes) /\ Len(s) = i + 1 /\ s[i + 1] = leaf[i]
        /\ \A j \in 1..i : s[j] = mem(p)[j]
    BY <1>5, <1>6
  <1>8. /\ l.cmd = loc[p].cmd /\ l.data = loc[p].data /\ l.mem = s
        /\ l.count = loc[p].count /\ l.after = loc[p].after /\ l.origin = loc[p].origin
    BY <1>6 DEF Locals
  <1>9. leaf' = leaf /\ acked' = acked /\ signed' = signed  BY <1>3 DEF files, reports
  <1>10. pc'[p] = to /\ loc'[p] = l  BY <1>3 DEF IndInv, TypeOK
  <1>11. mem(p)' = s  BY <1>8, <1>10 DEF mem
  <1>12. OnDisk(mem(p))'
    <2>1. Len(s) <= MaxLeaves  BY <1>4, <1>7, BoundAssumption DEF Index
    <2>2. ASSUME NEW j \in 1..Len(s)
          PROVE leaf[j - 1] # Absent /\ (s[j] \in Payload => leaf[j - 1] = s[j])
      <3>1. CASE j = i + 1  BY <1>3, <1>7, <3>1, <1>4 DEF Index
      <3>2. CASE j # i + 1
        <4>1. j \in 1..i  BY <1>4, <1>7, <2>2, <3>2 DEF Index
        <4>2. QED  BY <4>1, <1>7, Knows DEF OnDisk
      <3>3. QED  BY <3>1, <3>2
    <2>3. QED  BY <1>9, <1>11, <2>1, <2>2 DEF OnDisk
  <1>13. CommandInv(p)'
    BY <1>3, <1>8, <1>10, Knows DEF CommandInv, mem
  <1>14. ListedInv(p)'
    BY <1>3, <1>4, <1>7, <1>8, <1>9, <1>10, <1>11, Knows DEF ListedInv, Index
  <1>15. WritingInv(p)' /\ pc'[p] # "leaf_write"
    BY <1>10 DEF WritingInv
  <1>16. QED
    <2>1. TypeOK'  BY StepType, IndFlow DEF Step
    <2>2. \A q \in Procs : q # p => pc'[q] = pc[q] /\ loc'[q] = loc[q]
      BY <1>3 DEF IndInv, TypeOK
    <2>3. QED  BY <1>9, <1>12, <1>13, <1>14, <1>15, <2>1, <2>2, QuietStep DEF ProcInv

\* Whole leaves and existing leaves survive a write to leaf file i by its
\* only writer p.
LEMMA LeafStep ==
  ASSUME IndInv, TypeOK', NEW p \in Procs, NEW i \in Index, NEW b \in Bytes,
         leaf' = [leaf EXCEPT ![i] = b], leaf[i] \notin Payload,
         acked' = acked, signed' = signed,
         \A q \in Procs : q # p => pc'[q] = pc[q] /\ loc'[q] = loc[q],
         \A q \in Procs : q # p /\ pc[q] = "leaf_write" => Len(mem(q)) # i,
         LeavesContiguous', ProcInv(p)', OneWriter'
  PROVE  IndInv'
  <1>1. b # Absent  BY DistinctAssumption
  <1>2. \A j \in Index : /\ leaf[j] # Absent => leaf'[j] # Absent
                         /\ leaf[j] \in Payload => leaf'[j] = leaf[j]
                         /\ j # i => leaf'[j] = leaf[j]
    BY <1>1 DEF IndInv, TypeOK
  <1>3. ASSUME NEW s, OnDisk(s), Len(s) \in Nat, NEW j \in 1..Len(s)
        PROVE  j - 1 \in Index /\ leaf'[j - 1] # Absent
               /\ (s[j] \in Payload => leaf'[j - 1] = s[j])
    <2>1. j - 1 \in Index  BY <1>3, BoundAssumption DEF OnDisk, Index
    <2>2. QED  BY <1>2, <1>3, <2>1 DEF OnDisk
  <1>4. ASSUME NEW q \in Procs, q # p PROVE ProcInv(q)'
    <2>1. pc'[q] = pc[q] /\ loc'[q] = loc[q] /\ mem(q)' = mem(q)
      BY <1>4 DEF mem
    <2>2. Len(mem(q)) \in Nat /\ OnDisk(mem(q))  BY Knows
    <2>3. OnDisk(mem(q))'
      <3>1. Len(mem(q)) <= MaxLeaves  BY <2>2 DEF OnDisk
      <3>2. ASSUME NEW j \in 1..Len(mem(q))
            PROVE  /\ leaf'[j - 1] # Absent
                   /\ mem(q)[j] \in Payload => leaf'[j - 1] = mem(q)[j]
        BY <1>3, <2>2
      <3>3. QED  BY <2>1, <3>1, <3>2 DEF OnDisk
    <2>4. ListedInv(q)'  BY <1>2, <2>1, Knows DEF ListedInv
    <2>5. CommandInv(q)'  BY <2>1, Knows DEF CommandInv
    <2>6. WritingInv(q)'
      <3>1. SUFFICES ASSUME pc[q] = "leaf_write"
                     PROVE  /\ Len(mem(q)) \in Index
                            /\ leaf'[Len(mem(q))] \in {Empty, Torn(loc[q].data)}
        BY <2>1 DEF WritingInv
      <3>2. Len(mem(q)) # i  BY <1>4, <3>1
      <3>3. QED  BY <1>2, <3>1, <3>2, Knows DEF WritingInv
    <2>7. QED  BY <2>3, <2>4, <2>5, <2>6 DEF ProcInv
  <1>5. AckDurable'
    <2>1. ASSUME NEW a \in acked PROVE leaf'[a.index] = a.data
      <3>1. a.index \in Index /\ a.data \in Payload  BY DEF IndInv, TypeOK
      <3>2. leaf[a.index] = a.data  BY DEF IndInv, AckDurable
      <3>3. QED  BY <1>2, <3>1, <3>2
    <2>2. QED  BY <2>1 DEF AckDurable
  <1>6. SignedOnDisk'
    <2>1. ASSUME NEW t \in Seq(Bytes), OnDisk(t) PROVE OnDisk(t)'
      <3>1. Len(t) \in Nat  OBVIOUS
      <3>2. QED  BY <1>3, <2>1, <3>1 DEF OnDisk
    <2>2. \A s \in signed : s.pin.root_hash \in Seq(Bytes)  BY DEF IndInv, TypeOK, PinSet
    <2>3. QED  BY <2>1, <2>2 DEF IndInv, SignedOnDisk
  <1>7. QED  BY <1>4, <1>5, <1>6 DEF IndInv

\* O_EXCL: a leaf file that append creates was the first missing one, and
\* nobody else is writing it.
LEMMA CreateLeafInv ==
  ASSUME IndInv, NEW p \in Procs, CreateLeaf(p)
  PROVE  IndInv'
  <1> USE DEF At, Goto, OpenSteps, WriteStateSteps
  <1>1. CASE Fail(p)  BY <1>1, FailInv
  <1>2. SUFFICES ASSUME ~Fail(p) PROVE IndInv'  BY <1>1
  <1> DEFINE i == Len(mem(p))
  <1>3. /\ pc[p] = "leaf_create" /\ i \in Index /\ leaf[i] = Absent
        /\ pc' = [pc EXCEPT ![p] = "leaf_write"] /\ leaf' = [leaf EXCEPT ![i] = Empty]
        /\ loc' = loc /\ acked' = acked /\ signed' = signed
    BY <1>2 DEF CreateLeaf, reports
  <1>4. TypeOK'  BY StepType, IndFlow DEF Step
  <1>5. pc'[p] = "leaf_write" /\ \A q \in Procs : q # p => pc'[q] = pc[q]
    BY <1>3 DEF IndInv, TypeOK
  <1>6. /\ leaf'[i] = Empty /\ Empty # Absent
        /\ \A j \in Index : j # i => leaf'[j] = leaf[j]
    BY <1>3, BytesType DEF IndInv, TypeOK
  <1>7. OnDisk(mem(p)) /\ mem(p)' = mem(p) /\ mem(p) \in Seq(Bytes)
    BY <1>3, Knows DEF mem
  <1>8. LeavesContiguous'
    <2>1. PICK n \in 0..MaxLeaves : Listed(n)  BY DEF IndInv, LeavesContiguous
    <2>2. n <= i  BY <1>3, <2>1, BoundAssumption DEF Listed, Index
    <2>3. i <= n
      <3>1. CASE i = 0  BY <3>1, <2>1
      <3>2. CASE i # 0
        <4>1. i \in 1..i /\ i - 1 \in Index  BY <1>3, <3>2, BoundAssumption DEF Index
        <4>2. leaf[i - 1] # Absent  BY <1>7, <4>1 DEF OnDisk
        <4>3. i - 1 < n  BY <2>1, <4>1, <4>2 DEF Listed
        <4>4. QED  BY <2>1, <4>1, <4>3 DEF Index
      <3>3. QED  BY <3>1, <3>2
    <2>4. n = i  BY <1>3, <2>1, <2>2, <2>3 DEF Index
    <2>5. n + 1 \in 0..MaxLeaves  BY <1>3, <2>4, BoundAssumption DEF Index
    <2>6. Listed(n + 1)'
      <3>1. ASSUME NEW j \in Index PROVE leaf'[j] # Absent <=> j < n + 1
        BY <1>6, <2>1, <2>4, BoundAssumption DEF Listed, Index
      <3>2. QED  BY <3>1 DEF Listed
    <2>7. QED  BY <2>5, <2>6 DEF LeavesContiguous
  <1>9. \A q \in Procs : pc[q] = "leaf_write" => Len(mem(q)) # i
    BY <1>3, BytesType, Knows DEF WritingInv, CommandInv
  <1>10. OneWriter'
    BY <1>3, <1>5, <1>9 DEF OneWriter, IndInv, mem
  <1>11. ProcInv(p)'
    <2>1. OnDisk(mem(p))'
      <3>1. \A j \in 1..Len(mem(p)) : j - 1 \in Index /\ j - 1 # i
        BY <1>3, <1>7, BoundAssumption DEF Index
      <3>2. QED  BY <1>6, <1>7, <3>1 DEF OnDisk
    <2>2. ListedInv(p)'
      BY <1>3, <1>5, <1>6, Knows DEF ListedInv, mem
    <2>3. CommandInv(p)'
      BY <1>3, <1>5, Knows DEF CommandInv, mem
    <2>4. WritingInv(p)'
      BY <1>3, <1>6, <1>7 DEF WritingInv
    <2>5. QED  BY <2>1, <2>2, <2>3, <2>4 DEF ProcInv
  <1>12. leaf[i] \notin Payload  BY <1>3, BytesType
  <1>13. QED
    BY <1>3, <1>4, <1>5, <1>8, <1>9, <1>10, <1>11, <1>12, BytesType, LeafStep

\* What the writer of a leaf file knows about it.
LEMMA WriterKnows ==
  ASSUME IndInv, NEW p \in Procs, pc[p] = "leaf_write"
  PROVE  /\ Len(mem(p)) \in Index
         /\ leaf[Len(mem(p))] # Absent /\ leaf[Len(mem(p))] \notin Payload
         /\ loc[p].data \in Payload
         /\ \A q \in Procs : q # p /\ pc[q] = "leaf_write" => Len(mem(q)) # Len(mem(p))
  <1>1. loc[p].data \in Payload  BY Knows DEF CommandInv
  <1>2. QED  BY <1>1, Knows, BytesType DEF WritingInv, IndInv, OneWriter

\* Writing to a leaf file that exists keeps the listing as it is.
LEMMA SameListing ==
  ASSUME IndInv, NEW i \in Index, NEW b \in Bytes, leaf[i] # Absent,
         leaf' = [leaf EXCEPT ![i] = b]
  PROVE  /\ LeavesContiguous'
         /\ \A j \in Index : j # i => leaf'[j] = leaf[j]
         /\ leaf'[i] = b /\ b # Absent
  <1>1. b # Absent  BY DistinctAssumption
  <1>2. leaf'[i] = b /\ \A j \in Index : j # i => leaf'[j] = leaf[j]
    BY DEF IndInv, TypeOK
  <1>3. PICK n \in 0..MaxLeaves : Listed(n)  BY DEF IndInv, LeavesContiguous
  <1>4. Listed(n)'  BY <1>1, <1>2, <1>3 DEF Listed
  <1>5. QED  BY <1>1, <1>2, <1>4 DEF LeavesContiguous

LEMMA WriteLeafPartInv ==
  ASSUME IndInv, NEW p \in Procs, WriteLeafPart(p)
  PROVE  IndInv'
  <1> USE DEF At, OpenSteps, WriteStateSteps
  <1> DEFINE i == Len(mem(p))
             b == Torn(loc[p].data)
  <1>1. /\ pc[p] = "leaf_write" /\ leaf' = [leaf EXCEPT ![i] = b]
        /\ pc' = pc /\ loc' = loc /\ acked' = acked /\ signed' = signed
    BY DEF WriteLeafPart, reports
  <1>2. TypeOK'  BY StepType, IndFlow DEF Step
  <1>3. b \in Bytes  BY <1>1, WriterKnows, BytesType
  <1>4. /\ LeavesContiguous' /\ leaf'[i] = b /\ b # Absent
        /\ \A j \in Index : j # i => leaf'[j] = leaf[j]
    BY <1>1, <1>3, WriterKnows, SameListing
  <1>5. OneWriter'  BY <1>1 DEF OneWriter, IndInv, mem
  <1>6. OnDisk(mem(p)) /\ mem(p)' = mem(p) /\ mem(p) \in Seq(Bytes) /\ i \in Index
    BY <1>1, Knows, WriterKnows DEF mem
  <1>7. ProcInv(p)'
    <2>1. OnDisk(mem(p))'
      <3>1. \A j \in 1..Len(mem(p)) : j - 1 \in Index /\ j - 1 # i
        BY <1>6, BoundAssumption DEF Index
      <3>2. QED  BY <1>4, <1>6, <3>1 DEF OnDisk
    <2>2. ListedInv(p)'
      BY <1>1, <1>4, Knows DEF ListedInv, mem
    <2>3. CommandInv(p)'
      BY <1>1, Knows DEF CommandInv, mem
    <2>4. WritingInv(p)'
      BY <1>1, <1>4, <1>6 DEF WritingInv
    <2>5. QED  BY <2>1, <2>2, <2>3, <2>4 DEF ProcInv
  <1>8. QED
    BY <1>1, <1>2, <1>3, <1>4, <1>5, <1>6, <1>7, WriterKnows, LeafStep

\* The leaf becomes whole, and its writer the only one to have it in memory.
LEMMA WriteLeafInv ==
  ASSUME IndInv, NEW p \in Procs, WriteLeaf(p)
  PROVE  IndInv'
  <1> USE DEF At, Goto, OpenSteps, WriteStateSteps
  <1> DEFINE i == Len(mem(p))
             d == loc[p].data
             s == Append(mem(p), d)
             l == [loc[p] EXCEPT !.mem = s, !.after = "append"]
  <1>1. /\ pc[p] = "leaf_write" /\ leaf' = [leaf EXCEPT ![i] = d]
        /\ pc' = [pc EXCEPT ![p] = "tmp_open"]
        /\ acked' = acked /\ signed' = signed
    BY DEF WriteLeaf, reports
  <1>2. loc' = [loc EXCEPT ![p] = l]  BY DEF WriteLeaf, IndInv, TypeOK, mem
  <1>3. TypeOK'  BY StepType, IndFlow DEF Step
  <1>4. d \in Bytes /\ d \in Payload  BY <1>1, WriterKnows, BytesType
  <1>5. /\ LeavesContiguous' /\ leaf'[i] = d /\ d # Absent
        /\ \A j \in Index : j # i => leaf'[j] = leaf[j]
    BY <1>1, <1>4, WriterKnows, SameListing
  <1>6. OnDisk(mem(p)) /\ mem(p) \in Seq(Bytes) /\ i \in Index /\ loc[p] \in Locals
    BY <1>1, Knows, WriterKnows
  <1>7. /\ pc'[p] = "tmp_open" /\ loc'[p] = l
        /\ \A q \in Procs : q # p => pc'[q] = pc[q] /\ loc'[q] = loc[q]
    BY <1>1, <1>2 DEF IndInv, TypeOK
  <1>8. /\ l.cmd = loc[p].cmd /\ l.data = d /\ l.mem = s /\ l.after = "append"
        /\ l.count = loc[p].count /\ l.origin = loc[p].origin
    BY <1>6 DEF Locals
  <1>9. /\ Len(s) = i + 1 /\ s[i + 1] = d /\ s \in Seq(Bytes)
        /\ \A j \in 1..i : s[j] = mem(p)[j]
    BY <1>4, <1>6
  <1>10. mem(p)' = s  BY <1>7, <1>8 DEF mem
  <1>11. OneWriter'  BY <1>7 DEF OneWriter, IndInv, mem
  <1>12. ProcInv(p)'
    <2>1. OnDisk(mem(p))'
      <3>1. Len(s) <= MaxLeaves  BY <1>6, <1>9, BoundAssumption DEF Index
      <3>2. ASSUME NEW j \in 1..Len(s)
            PROVE leaf'[j - 1] # Absent /\ (s[j] \in Payload => leaf'[j - 1] = s[j])
        <4>1. CASE j = i + 1  BY <1>5, <1>6, <1>9, <4>1 DEF Index
        <4>2. CASE j # i + 1
          <5>1. j \in 1..i /\ j - 1 \in Index /\ j - 1 # i
            BY <1>6, <1>9, <4>2, BoundAssumption DEF Index
          <5>2. leaf'[j - 1] = leaf[j - 1]  BY <1>5, <5>1
          <5>3. QED  BY <1>6, <1>9, <5>1, <5>2 DEF OnDisk
        <4>3. QED  BY <4>1, <4>2
      <3>3. QED  BY <1>10, <3>1, <3>2 DEF OnDisk
    <2>2. ListedInv(p)'
      BY <1>5, <1>7, <1>8, Knows DEF ListedInv
    <2>3. CommandInv(p)'
      <3>1. Len(s) > 0 /\ s[Len(s)] = d  BY <1>6, <1>9 DEF Index
      <3>2. loc[p].cmd = "append"  BY <1>1, Knows DEF CommandInv
      <3>3. QED  BY <1>4, <1>7, <1>8, <1>10, <3>1, <3>2 DEF CommandInv
    <2>4. WritingInv(p)'
      BY <1>7 DEF WritingInv
    <2>5. QED  BY <2>1, <2>2, <2>3, <2>4 DEF ProcInv
  <1>13. QED
    BY <1>1, <1>3, <1>4, <1>5, <1>6, <1>7, <1>11, <1>12, WriterKnows, LeafStep

\* An append reports a leaf that is whole on disk.
LEMMA ReportInv ==
  ASSUME IndInv, NEW p \in Procs, Report(p)
  PROVE  IndInv'
  <1>1. Exit(p) /\ leaf' = leaf /\ signed' = signed  BY DEF Report, files
  <1>2. TypeOK'  BY StepType, IndFlow DEF Step
  <1>3. AckDurable'
    <2>1. CASE loc[p].cmd # "append"
      BY <1>1, <2>1 DEF Report, IndInv, AckDurable
    <2>2. CASE loc[p].cmd = "append"
      <3> DEFINE n == Len(mem(p))
      <3>1. n > 0 /\ mem(p)[n] = loc[p].data /\ loc[p].data \in Payload /\ n \in Nat
        BY <2>2, Knows DEF CommandInv, Report, At
      <3>2. leaf[n - 1] = loc[p].data  BY <3>1, Knows DEF OnDisk
      <3>3. acked' = acked \cup {[index |-> n - 1, data |-> loc[p].data]}
        BY <2>2 DEF Report
      <3>4. QED  BY <1>1, <3>2, <3>3 DEF IndInv, AckDurable
    <2>3. QED  BY <2>1, <2>2
  <1>4. SignedOnDisk'  BY <1>1 DEF IndInv, SignedOnDisk, OnDisk
  <1>5. QED  BY <1>1, <1>2, <1>3, <1>4, ExitInv, LocalStep

\* A prefix of what is on disk is on disk.
LEMMA PrefixOnDisk ==
  ASSUME NEW s \in Seq(Bytes), OnDisk(s), NEW n \in 0..Len(s)
  PROVE  OnDisk(SubSeq(s, 1, n))
  <1>1. Len(SubSeq(s, 1, n)) = n /\ \A j \in 1..n : SubSeq(s, 1, n)[j] = s[j]
    OBVIOUS
  <1>2. n <= MaxLeaves  BY BoundAssumption DEF OnDisk
  <1>3. QED  BY <1>1, <1>2 DEF OnDisk

\* The commands that sign: every root they sign is that of leaves on disk.
LEMMA SignInv ==
  ASSUME IndInv, NEW p \in Procs,
         \/ Checkpoint(p)
         \/ \E i \in 0..MaxLeaves : ProveInclusion(p, i)
         \/ \E old \in 1..MaxLeaves : ProveConsistency(p, old)
  PROVE  IndInv'
  <1>1. Exit(p) /\ leaf' = leaf /\ acked' = acked
    BY DEF Checkpoint, ProveInclusion, ProveConsistency, files
  <1>2. TypeOK'  BY StepType, IndFlow DEF Step
  <1>3. OnDisk(mem(p)) /\ mem(p) \in Seq(Bytes)  BY Knows
  <1>4. ASSUME NEW s \in signed', s \notin signed PROVE OnDisk(s.pin.root_hash)
    <2>1. \/ s = Note(p, mem(p))
          \/ \E old \in 1..MaxLeaves :
               old < Len(mem(p)) /\ s = Note(p, SubSeq(mem(p), 1, old))
      BY <1>4 DEF Checkpoint, ProveInclusion, ProveConsistency
    <2>2. \A t : Note(p, t).pin.root_hash = t  BY DEF Note, Pin
    <2>3. CASE s = Note(p, mem(p))
      BY <1>3, <2>2, <2>3
    <2>4. CASE \E old \in 1..MaxLeaves :
                 old < Len(mem(p)) /\ s = Note(p, SubSeq(mem(p), 1, old))
      <3>1. PICK old \in 1..MaxLeaves :
                 old < Len(mem(p)) /\ s = Note(p, SubSeq(mem(p), 1, old))
        BY <2>4
      <3>2. old \in 0..Len(mem(p))  BY <1>3, <3>1, BoundAssumption
      <3>3. OnDisk(SubSeq(mem(p), 1, old))  BY <1>3, <3>2, PrefixOnDisk
      <3>4. QED  BY <2>2, <3>1, <3>3
    <2>5. QED  BY <2>1, <2>3, <2>4
  <1>5. SignedOnDisk'
    BY <1>1, <1>4 DEF IndInv, SignedOnDisk, OnDisk
  <1>6. AckDurable'  BY <1>1 DEF IndInv, AckDurable
  <1>7. QED  BY <1>1, <1>2, <1>5, <1>6, ExitInv, LocalStep

\* A crash leaves the files alone, and a new command starts from nothing.
LEMMA CrashInv ==
  ASSUME IndInv, NEW p \in Procs, Crash(p)
  PROVE  IndInv'
  <1>1. Fail(p)  BY DEF Crash, Fail
  <1>2. QED  BY <1>1, FailInv

\* Every step of every process preserves the inductive invariant, unless leaf
\* files are altered from outside.
LEMMA NextInd ==
  ASSUME IndInv, ~Damage, [Next]_vars
  PROVE  IndInv'
  <1>1. CASE UNCHANGED vars
    BY <1>1
    DEF vars, IndInv, TypeOK, LeavesContiguous, Listed, ProcInv, OnDisk, ListedInv,
        CommandInv, WritingInv, OneWriter, AckDurable, SignedOnDisk, mem
  <1>2. ASSUME NEW p \in Procs, Start(p) PROVE IndInv'  BY <1>2, StartInv
  <1>3. ASSUME NEW p \in Procs, Step(p) PROVE IndInv'
    BY <1>3, PlainInv, OpenInv, ReadLeafInv, CreateLeafInv, WriteLeafPartInv, WriteLeafInv,
       ReportInv, SignInv DEF Step
  <1>4. ASSUME NEW p \in Procs, Crash(p) PROVE IndInv'  BY <1>4, CrashInv
  <1>5. CASE \E i \in Index, b \in Payload \cup {Empty, Absent} : Rot(i, b)
    BY <1>5 DEF Rot
  <1>6. QED  BY <1>1, <1>2, <1>3, <1>4, <1>5 DEF Next

\* Commands of any number of processes, interleaved call by call and cut short
\* anywhere, keep every part of the inductive invariant.
THEOREM Invariance == ASSUME ~Damage PROVE Spec => []IndInv
  <1>1. Init => IndInv  BY InitInd
  <1>2. IndInv /\ [Next]_vars => IndInv'  BY NextInd
  <1>3. QED  BY <1>1, <1>2, PTL DEF Spec

-------------------------------------------------------------------------------
\* What `log append` reported stays in its leaf file, whatever other processes
\* append, sign or recover at the same time and wherever any of them crashes.
THEOREM AckedLeavesDurable == ASSUME ~Damage PROVE Spec => []AckDurable
  <1>1. IndInv => AckDurable  BY DEF IndInv
  <1>2. QED  BY <1>1, Invariance, PTL

\* The contiguity check of read_leaves never fails on what appends have
\* written, raced and crashed appends included.
THEOREM LeafFilesContiguous == ASSUME ~Damage PROVE Spec => []LeavesContiguous
  <1>1. IndInv => LeavesContiguous  BY DEF IndInv
  <1>2. QED  BY <1>1, Invariance, PTL

\* A whole leaf under a checkpoint or a proof that was signed is on disk, and
\* no later command of any process changes it.
THEOREM SignedLeavesKept == ASSUME ~Damage PROVE Spec => []SignedWholeLeaves
  <1>1. IndInv => SignedWholeLeaves
    BY DEF IndInv, SignedOnDisk, OnDisk, SignedWholeLeaves
  <1>2. QED  BY <1>1, Invariance, PTL

===============================================================================
