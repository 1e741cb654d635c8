---------------------------- MODULE IdentityProofs ----------------------------
(***************************************************************************)
(* The key file is written once, and every caller holds the identity in    *)
(* it, for every number of processes, threads and calls, with kills and    *)
(* I/O errors anywhere, under two provisos: two processes that run at the  *)
(* same time have different process ids, and the stat behind path.exists() *)
(* does not fail where processes are killed or temporary files cannot be   *)
(* removed.  Types and the removal of temporary files need neither.        *)
(*                                                                         *)
(* The delicate part is the second name of the key file: between hard_link *)
(* and remove_tmp_file, and for ever if the process dies in between, a     *)
(* temporary name also leads to the key file, and open(create, truncate)   *)
(* through that name would destroy the key.  The name comes back when the  *)
(* process id does; what keeps it harmless is that a process that starts   *)
(* later finds the key file in place and never gets to open any name.  A   *)
(* failed stat takes that away: path.exists() is then false with the key   *)
(* in place.  It does no harm as long as every temporary name belongs to a *)
(* running call, and hence the second proviso.                             *)
(***************************************************************************)
EXTENDS Identity, TLAPS

\* Two processes that run at the same time have different process ids.
PidsDistinct == \A pr, qr \in Process : PidOf[pr] = PidOf[qr] => pr = qr

\* The stat of the key path does not fail where a temporary file may outlive the
\* call that made it.
StatProviso == \A F \in FaultSets : "stat" \in F => F \cap {"kill", "unlink"} = {}

\* Steps at which a caller has a temporary name, and those at which it also
\* has the file.
NamedSteps == {"tmp_open", "tmp_write", "tmp_chmod", "tmp_link", "win", "lose", "err"}
FileSteps == {"tmp_write", "tmp_chmod", "tmp_link"}

\* The name of a caller carries its process id and a number that its process
\* has used.
NameInv(c) ==
  pc[c] \in NamedSteps =>
    \E n \in Nat : name[c] = <<PidOf[ProcOf[c]], n>> /\ n < counter[ProcOf[c]]

\* No two callers have one name.
NamesDistinct ==
  \A c, d \in Callers :
    pc[c] \in NamedSteps /\ pc[d] \in NamedSteps /\ name[c] = name[d] => c = d

\* A name leads to one file.
OneFile ==
  \A f, g \in Call : tmpName[f] = tmpName[g] /\ tmpName[f] # None => f = g

\* A call that has not created its file yet can still create it.
Unused(f) == tmpName[f] = None /\ keyFile # f

FreshInv ==
  \A c \in Callers, k \in 1..MaxCalls :
    k > calls[c] \/ (k = calls[c] /\ pc[c] \in {"exists", "draw", "tmp_open"})
      => Unused(<<c, k>>)

\* While c writes its file the name leads to it, and then it holds c's seed.
FileInv(c) ==
  /\ pc[c] # "idle" => calls[c] \in 1..MaxCalls
  /\ pc[c] = "tmp_write" => fd[c] \in Call /\ tmpName[fd[c]] = name[c]
  /\ pc[c] \in {"tmp_chmod", "tmp_link"} =>
       \E f \in Call : tmpName[f] = name[c] /\ content[f] = Me(c)

\* The second name of the key file is none that a caller has or will draw.
Harmless(c) ==
  keyFile # None /\ tmpName[keyFile] # None =>
    /\ pc[c] \in {"tmp_open"} \cup FileSteps => name[c] # tmpName[keyFile]
    /\ pc[c] = "draw" =>
         \A n \in Nat : tmpName[keyFile] = <<PidOf[ProcOf[c]], n>> => n < counter[ProcOf[c]]

\* The outcome of the race, as the callers know it.
OutcomeInv(c) ==
  /\ pc[c] = "win" => keyFile # None /\ content[keyFile] = Me(c)
  /\ pc[c] = "lose" => keyFile # None

CallerInv(c) == NameInv(c) /\ FileInv(c) /\ Harmless(c) /\ OutcomeInv(c)

\* The key file is whole as soon as it is there.
KeyWhole == keyFile # None => content[keyFile] # Partial

IndInv ==
  /\ TypeOK
  /\ \A c \in Callers : CallerInv(c)
  /\ NamesDistinct
  /\ OneFile
  /\ FreshInv
  /\ KeyWhole
  /\ ReturnedIsPersisted

\* A caller that is not idle is in a call, whoever else has its process id.
BaseInv ==
  /\ TypeOK
  /\ \A c \in Callers : pc[c] # "idle" => calls[c] \in 1..MaxCalls

\* Steps at which a caller may have created its temporary file and has not yet
\* removed it.
HoldSteps == FileSteps \cup {"win", "lose", "err"}

\* The call that made a temporary file still has to remove it, or met a fault.
Holds(f) == pc[f[1]] \in HoldSteps /\ Me(f[1]) = f /\ name[f[1]] = tmpName[f]

Leaked(f) == <<f, "kill">> \in met \/ <<f, "unlink">> \in met

TidyInv == \A f \in Call : tmpName[f] # None => Holds(f) \/ Leaked(f)

-------------------------------------------------------------------------------
\* Type correctness.

LEMMA IndBase == IndInv => BaseInv
  BY DEF IndInv, BaseInv, CallerInv, FileInv

LEMMA TypeInit == Init => TypeOK
  BY BoundAssumption DEF Init, TypeOK, Steps

LEMMA EndType ==
  ASSUME TypeOK, NEW c \in Callers, End(c)
  PROVE  /\ pc' \in [Callers -> Steps]
         /\ name' \in [Callers -> Name \cup {None}]
         /\ fd' \in [Callers -> Call \cup {None}]
  BY DEF TypeOK, End, Goto, Steps

\* Inside a call the caller is a proper call.
LEMMA MeType ==
  ASSUME BaseInv, NEW c \in Callers, pc[c] # "idle"
  PROVE  Me(c) \in Call
  BY DEF BaseInv, Me, Call

LEMMA NamesType ==
  ASSUME TypeOK, NEW c \in Callers
  PROVE  <<PidOf[ProcOf[c]], counter[ProcOf[c]]>> \in Name
  BY ProcessAssumption DEF TypeOK, Name

LEMMA MeetType ==
  ASSUME BaseInv, NEW c \in Callers, pc[c] # "idle", NEW kind, Meet(c, kind)
  PROVE  met' \subseteq Call \X FaultKinds
  <1>1. Me(c) \in Call  BY MeType
  <1>2. kind \in FaultKinds  BY FaultsAssumption DEF Meet, May
  <1>3. QED  BY <1>1, <1>2 DEF Meet, BaseInv, TypeOK

LEMMA RemoveType ==
  ASSUME BaseInv, NEW c \in Callers, pc[c] # "idle", RemoveTmpFile(c)
  PROVE  tmpName' \in [Call -> Name \cup {None}] /\ met' \subseteq Call \X FaultKinds
  <1>1. TypeOK  BY DEF BaseInv
  <1>2. CASE Meet(c, "unlink") /\ UNCHANGED tmpName  BY <1>1, <1>2, MeetType DEF TypeOK
  <1>3. CASE UNCHANGED met  BY <1>1, <1>3 DEF TypeOK, RemoveTmpFile
  <1>4. QED  BY <1>2, <1>3 DEF RemoveTmpFile

LEMMA ReturnType ==
  ASSUME BaseInv, NEW c \in Callers, pc[c] # "idle", NEW s \in Call, Return(c, s)
  PROVE  returned' \subseteq [by : Call, seed : Call]
  <1>1. Me(c) \in Call  BY MeType
  <1>2. returned \subseteq [by : Call, seed : Call]
    BY DEF BaseInv, TypeOK
  <1>3. QED  BY <1>1, <1>2 DEF Return

LEMMA CallerType ==
  ASSUME BaseInv, NEW c \in Callers,
         Generate(c) \/ LoadIdentity(c) \/ Step(c) \/ IoError(c)
  PROVE  TypeOK'
  <1> USE DEF disk, locals, Goto
  <1>0. TypeOK  BY DEF BaseInv
  <1>1. CASE Generate(c)
    <2>1. calls[c] + 1 \in 0..MaxCalls  BY <1>0, <1>1, BoundAssumption DEF Generate, TypeOK
    <2>2. QED  BY <1>0, <1>1, <2>1 DEF Generate, TypeOK, Steps
  <1>2. CASE LoadIdentity(c)
    <2>1. calls[c] + 1 \in 0..MaxCalls  BY <1>0, <1>2, BoundAssumption DEF LoadIdentity, TypeOK
    <2>2. QED  BY <1>0, <1>2, <2>1 DEF LoadIdentity, TypeOK, Steps
  <1>3. CASE CheckExists(c)
    <2>1. met' \subseteq Call \X FaultKinds
      BY <1>0, <1>3, MeetType DEF CheckExists, TypeOK
    <2>2. QED  BY <1>0, <1>3, <2>1 DEF CheckExists, TypeOK, Steps
  <1>4. CASE LoadExisting(c)
    <2>1. End(c)  BY <1>4 DEF LoadExisting, Return
    <2>2. returned' \subseteq [by : Call, seed : Call]
      <3>1. CASE UNCHANGED returned  BY <1>0, <3>1 DEF TypeOK
      <3>2. CASE keyFile # None /\ content[keyFile] # Partial /\ Return(c, content[keyFile])
        <4>1. content[keyFile] \in Call  BY <1>0, <3>2 DEF TypeOK
        <4>2. pc[c] # "idle"  BY <1>4 DEF LoadExisting
        <4>3. QED  BY <3>2, <4>1, <4>2, ReturnType
      <3>3. QED  BY <1>4, <3>1, <3>2 DEF LoadExisting
    <2>3. QED  BY <1>0, <1>4, <2>1, <2>2, EndType DEF LoadExisting, TypeOK
  <1>5. CASE DrawName(c)
    <2>1. counter' \in [Process -> Nat]
      <3> DEFINE pr == ProcOf[c]
      <3>1. pr \in Process  BY ProcessAssumption
      <3>2. counter \in [Process -> Nat]  BY <1>0 DEF TypeOK
      <3>3. counter' = [counter EXCEPT ![pr] = counter[pr] + 1]  BY <1>5 DEF DrawName
      <3> HIDE DEF pr
      <3>4. QED  BY <3>1, <3>2, <3>3
    <2>2. name' \in [Callers -> Name \cup {None}]
      BY <1>0, <1>5, NamesType DEF DrawName, TypeOK
    <2>3. QED  BY <1>0, <1>5, <2>1, <2>2 DEF DrawName, TypeOK, Steps
  <1>6. CASE OpenTmp(c)
    <2>1. PICK f \in Call :
            /\ tmpName' = [tmpName EXCEPT ![f] = name[c]]
            /\ content' = [content EXCEPT ![f] = Partial]
            /\ fd' = [fd EXCEPT ![c] = f]
      BY <1>6 DEF OpenTmp
    <2>2. QED  BY <1>0, <1>6, <2>1 DEF OpenTmp, TypeOK, Steps
  <1>7. CASE WriteTmp(c)
    <2>1. Me(c) \in Call  BY <1>7, MeType DEF WriteTmp
    <2>2. QED  BY <1>0, <1>7, <2>1 DEF WriteTmp, TypeOK, Steps
  <1>8. CASE ChmodTmp(c)  BY <1>0, <1>8 DEF ChmodTmp, TypeOK, Steps
  <1>9. CASE LinkTmp(c)  BY <1>0, <1>9 DEF LinkTmp, TypeOK, Steps
  <1>10. CASE Won(c)
    <2>1. Me(c) \in Call /\ pc[c] # "idle" /\ Return(c, Me(c))  BY <1>10, MeType DEF Won
    <2>2. QED  BY <1>0, <1>10, <2>1, EndType, ReturnType, RemoveType DEF Won, TypeOK, Return
  <1>11. CASE Lost(c)
    <2>1. pc[c] # "idle" /\ RemoveTmpFile(c)  BY <1>11 DEF Lost
    <2>2. QED  BY <1>0, <1>11, <2>1, RemoveType DEF Lost, TypeOK, Steps
  <1>12. CASE Failed(c)
    <2>1. pc[c] # "idle" /\ RemoveTmpFile(c)  BY <1>12 DEF Failed
    <2>2. QED  BY <1>0, <1>12, <2>1, EndType, RemoveType DEF Failed, TypeOK
  <1>13. CASE IoError(c)
    <2>1. pc[c] # "idle" /\ Meet(c, "io")  BY <1>13 DEF IoError
    <2>2. QED  BY <1>0, <1>13, <2>1, MeetType, EndType DEF IoError, TypeOK, Steps
  <1>14. QED
    BY <1>1, <1>2, <1>3, <1>4, <1>5, <1>6, <1>7, <1>8, <1>9, <1>10, <1>11, <1>12, <1>13
    DEF Step

LEMMA DieType ==
  ASSUME BaseInv, NEW pr \in Process, Die(pr)
  PROVE  TypeOK'
  <1>1. met' \subseteq Call \X FaultKinds
    <2>1. \A c \in Callers : pc[c] # "idle" => Me(c) \in Call  BY MeType
    <2>2. "kill" \in FaultKinds  BY DEF FaultKinds
    <2>3. QED  BY <2>1, <2>2 DEF Die, BaseInv, TypeOK
  <1>2. TypeOK  BY DEF BaseInv
  <1>3. QED  BY <1>1, <1>2 DEF Die, TypeOK, disk, Steps

LEMMA BaseNext == BaseInv /\ [Next]_vars => BaseInv'
  <1> SUFFICES ASSUME BaseInv, [Next]_vars PROVE BaseInv'  OBVIOUS
  <1> DEFINE InCall(c) == pc[c] # "idle" => calls[c] \in 1..MaxCalls
  <1>1. CASE UNCHANGED vars  BY <1>1 DEF vars, BaseInv, TypeOK
  <1>2. ASSUME NEW c \in Callers, Generate(c) \/ LoadIdentity(c) \/ Step(c) \/ IoError(c)
        PROVE  BaseInv'
    <2>1. TypeOK'  BY <1>2, CallerType
    <2>2. ASSUME NEW d \in Callers PROVE InCall(d)'
      <3>1. CASE Generate(c) \/ LoadIdentity(c)
        BY <3>1, BoundAssumption DEF Generate, LoadIdentity, Goto, BaseInv, TypeOK
      <3>2. CASE Step(c) \/ IoError(c)
        <4>1. calls' = calls /\ pc[c] # "idle"
          BY <3>2
          DEF Step, CheckExists, LoadExisting, DrawName, OpenTmp, WriteTmp, ChmodTmp, LinkTmp,
              Won, Lost, Failed, IoError
        <4>2. d # c => pc'[d] = pc[d]
          BY <3>2
          DEF Step, CheckExists, LoadExisting, DrawName, OpenTmp, WriteTmp, ChmodTmp, LinkTmp,
              Won, Lost, Failed, IoError, Return, End, Goto, BaseInv, TypeOK
        <4>3. QED  BY <4>1, <4>2 DEF BaseInv
      <3>3. QED  BY <1>2, <3>1, <3>2
    <2>3. QED  BY <2>1, <2>2 DEF BaseInv
  <1>3. ASSUME NEW pr \in Process, Die(pr) PROVE BaseInv'
    <2>1. TypeOK'  BY <1>3, DieType
    <2>2. \A d \in Callers : pc'[d] \in {"idle", pc[d]} /\ calls' = calls
      BY <1>3 DEF Die
    <2>3. QED  BY <2>1, <2>2 DEF BaseInv
  <1>4. QED  BY <1>1, <1>2, <1>3 DEF Next

LEMMA BaseInvariance == Spec => []BaseInv
  <1>1. Init => BaseInv  BY TypeInit DEF BaseInv, Init
  <1>2. QED  BY <1>1, BaseNext, PTL DEF Spec

\* Type correctness of load_or_generate and its callers, even when processes
\* that share a volume have one process id: names are drawn from the counter,
\* and only whole seeds are returned.
THEOREM TypeCorrect == Spec => []TypeOK
  <1>1. BaseInv => TypeOK  BY DEF BaseInv
  <1>2. QED  BY <1>1, BaseInvariance, PTL

-------------------------------------------------------------------------------
\* Temporary files are cleaned up.

\* What a step of c does to the files that other calls hold, and to its own if it
\* keeps its name.
LEMMA HoldStep ==
  ASSUME BaseInv, TidyInv, NEW c \in Callers, met \subseteq met',
         \A d \in Callers : d # c => pc'[d] = pc[d] /\ name'[d] = name[d] /\ calls'[d] = calls[d],
         NEW f \in Call, tmpName'[f] = tmpName[f], tmpName[f] # None,
         f[1] = c /\ Holds(f) => pc'[c] \in HoldSteps /\ name'[c] = name[c] /\ calls'[c] = calls[c]
  PROVE  Holds(f)' \/ Leaked(f)'
  <1>1. f[1] \in Callers  BY DEF Call
  <1>2. CASE Leaked(f)  BY <1>2 DEF Leaked
  <1>3. CASE Holds(f)
    <2>1. CASE f[1] = c  BY <1>3, <2>1 DEF Holds, Me
    <2>2. CASE f[1] # c  BY <1>1, <1>3, <2>2 DEF Holds, Me
    <2>3. QED  BY <2>1, <2>2
  <1>4. QED  BY <1>2, <1>3 DEF TidyInv

\* A call removes the file of its name, or meets the failure of the removal.
LEMMA RemoveStep ==
  ASSUME BaseInv, TidyInv, NEW c \in Callers, RemoveTmpFile(c), calls' = calls,
         \A d \in Callers : d # c => pc'[d] = pc[d] /\ name'[d] = name[d]
  PROVE  TidyInv'
  <1> SUFFICES ASSUME NEW f \in Call, tmpName'[f] # None PROVE Holds(f)' \/ Leaked(f)'
    BY DEF TidyInv
  <1>1. /\ tmpName'[f] = tmpName[f] /\ met \subseteq met'
        /\ tmpName[f] # name[c] \/ <<Me(c), "unlink">> \in met'
    BY DEF RemoveTmpFile, Meet
  <1>2. CASE f[1] = c /\ Holds(f)  BY <1>1, <1>2 DEF Holds, Leaked
  <1>3. CASE ~(f[1] = c /\ Holds(f))  BY <1>1, <1>3, HoldStep
  <1>4. QED  BY <1>2, <1>3

LEMMA TidyNext == BaseInv /\ TidyInv /\ [Next]_vars => TidyInv'
  <1> SUFFICES ASSUME BaseInv, TidyInv, [Next]_vars PROVE TidyInv'  OBVIOUS
  <1> USE DEF Goto, End, Return, disk, locals
  <1>1. CASE UNCHANGED vars
    BY <1>1 DEF vars, TidyInv, Holds, Leaked, Me
  <1>2. ASSUME NEW c \in Callers,
               \/ Generate(c) \/ LoadIdentity(c) \/ CheckExists(c) \/ LoadExisting(c)
               \/ DrawName(c) \/ WriteTmp(c) \/ ChmodTmp(c) \/ LinkTmp(c) \/ IoError(c)
        PROVE  TidyInv'
    <2>1. tmpName' = tmpName /\ met \subseteq met'
      BY <1>2 DEF Generate, LoadIdentity, CheckExists, LoadExisting, DrawName, WriteTmp,
                  ChmodTmp, LinkTmp, IoError, Meet
    <2>2. \A d \in Callers : d # c =>
            pc'[d] = pc[d] /\ name'[d] = name[d] /\ calls'[d] = calls[d]
      BY <1>2 DEF Generate, LoadIdentity, CheckExists, LoadExisting, DrawName, WriteTmp,
                  ChmodTmp, LinkTmp, IoError, BaseInv, TypeOK
    <2>3. pc[c] \in HoldSteps =>
            pc'[c] \in HoldSteps /\ name'[c] = name[c] /\ calls'[c] = calls[c]
      BY <1>2 DEF Generate, LoadIdentity, CheckExists, LoadExisting, DrawName, WriteTmp,
                  ChmodTmp, LinkTmp, IoError, HoldSteps, FileSteps, BaseInv, TypeOK
    <2>4. ASSUME NEW f \in Call, tmpName'[f] # None PROVE Holds(f)' \/ Leaked(f)'
      <3>1. f[1] = c /\ Holds(f) =>
              pc'[c] \in HoldSteps /\ name'[c] = name[c] /\ calls'[c] = calls[c]
        BY <2>3 DEF Holds
      <3>2. QED  BY <2>1, <2>2, <2>4, <3>1, HoldStep
    <2>5. QED  BY <2>4 DEF TidyInv
  <1>3. ASSUME NEW c \in Callers, OpenTmp(c) PROVE TidyInv'
    <2>1. PICK f \in Call :
            /\ tmpName[f] = name[c] \/ f = Me(c)
            /\ tmpName' = [tmpName EXCEPT ![f] = name[c]]
      BY <1>3 DEF OpenTmp
    <2>2. /\ pc[c] = "tmp_open" /\ pc'[c] = "tmp_write"
          /\ UNCHANGED <<name, calls, met>>
          /\ \A d \in Callers : d # c => pc'[d] = pc[d]
      BY <1>3 DEF OpenTmp, BaseInv, TypeOK
    <2> SUFFICES ASSUME NEW g \in Call, tmpName'[g] # None PROVE Holds(g)' \/ Leaked(g)'
      BY DEF TidyInv
    <2>3. CASE g = Me(c) /\ g = f
      <3>1. tmpName'[g] = name[c]  BY <2>1, <2>3 DEF BaseInv, TypeOK
      <3>2. g[1] = c  BY <2>3 DEF Me
      <3>3. QED  BY <2>2, <2>3, <3>1, <3>2 DEF Holds, Me, HoldSteps, FileSteps
    <2>4. CASE ~(g = Me(c) /\ g = f)
      <3>1. tmpName'[g] = tmpName[g]  BY <2>1, <2>4 DEF BaseInv, TypeOK
      <3>2. ~(g[1] = c /\ Holds(g))  BY <2>2 DEF Holds, HoldSteps, FileSteps
      <3>3. QED  BY <2>2, <3>1, <3>2, HoldStep
    <2>5. QED  BY <2>3, <2>4
  <1>4. ASSUME NEW c \in Callers, Won(c) \/ Lost(c) \/ Failed(c) PROVE TidyInv'
    <2>1. RemoveTmpFile(c) /\ calls' = calls  BY <1>4 DEF Won, Lost, Failed
    <2>2. \A d \in Callers : d # c => pc'[d] = pc[d] /\ name'[d] = name[d]
      BY <1>4 DEF Won, Lost, Failed, BaseInv, TypeOK
    <2>3. QED  BY <2>1, <2>2, RemoveStep
  <1>5. ASSUME NEW pr \in Process, Die(pr) PROVE TidyInv'
    <2> SUFFICES ASSUME NEW f \in Call, tmpName'[f] # None PROVE Holds(f)' \/ Leaked(f)'
      BY DEF TidyInv
    <2>1. tmpName' = tmpName /\ calls' = calls /\ met \subseteq met' /\ f[1] \in Callers
      BY <1>5 DEF Die, Call
    <2>2. CASE Leaked(f)  BY <2>1, <2>2 DEF Leaked
    <2>3. CASE Holds(f) /\ ProcOf[f[1]] = pr
      <3>1. pc[f[1]] # "idle" /\ Me(f[1]) = f  BY <2>3 DEF Holds, HoldSteps, FileSteps
      <3>2. <<f, "kill">> \in met'  BY <1>5, <2>1, <2>3, <3>1 DEF Die
      <3>3. QED  BY <3>2 DEF Leaked
    <2>4. CASE Holds(f) /\ ProcOf[f[1]] # pr
      <3>1. pc'[f[1]] = pc[f[1]] /\ name'[f[1]] = name[f[1]]  BY <1>5, <2>1, <2>4 DEF Die
      <3>2. QED  BY <2>1, <2>4, <3>1 DEF Holds, Me
    <2>5. QED  BY <2>1, <2>2, <2>3, <2>4 DEF TidyInv
  <1>6. QED  BY <1>1, <1>2, <1>3, <1>4, <1>5 DEF Next, Step

LEMMA TidyInvariance == Spec => [](BaseInv /\ TidyInv)
  <1>1. Init => TidyInv  BY DEF Init, TidyInv
  <1>2. QED  BY <1>1, BaseInvariance, TidyNext, PTL DEF Spec

\* Every path out of generate_and_persist removes the temporary file: no candidate
\* seed outlives its call unless that call is killed or its removal of the file
\* fails, however many threads and processes race, and even if they share a
\* process id and so each other's temporary names.
THEOREM TmpFilesRemoved == Spec => []NoTmpLeft
  <1>1. TidyInv => NoTmpLeft
    BY DEF TidyInv, NoTmpLeft, Holds, Leaked, HoldSteps, FileSteps
  <1>2. QED  BY <1>1, TidyInvariance, PTL

-------------------------------------------------------------------------------
\* The inductive invariant.

LEMMA InitInd == Init => IndInv
  <1> SUFFICES ASSUME Init PROVE IndInv  OBVIOUS
  <1>1. TypeOK  BY TypeInit
  <1>2. \A c \in Callers : CallerInv(c)
    BY DEF Init, CallerInv, NameInv, FileInv, Harmless, OutcomeInv, NamedSteps, FileSteps
  <1>3. NamesDistinct /\ OneFile /\ KeyWhole /\ ReturnedIsPersisted
    BY DEF Init, NamesDistinct, NamedSteps, OneFile, KeyWhole, ReturnedIsPersisted
  <1>4. FreshInv
    BY DistinctAssumption DEF Init, FreshInv, Unused, Call
  <1>5. QED  BY <1>1, <1>2, <1>3, <1>4 DEF IndInv

LEMMA Knows ==
  ASSUME IndInv, NEW c \in Callers
  PROVE  TypeOK /\ NameInv(c) /\ FileInv(c) /\ Harmless(c) /\ OutcomeInv(c)
  BY DEF IndInv, CallerInv

\* The local variables of d and the counters stay, or the latter grow.
Bystander(d) ==
  /\ pc'[d] = pc[d] /\ name'[d] = name[d] /\ fd'[d] = fd[d] /\ calls'[d] = calls[d]
  /\ counter'[ProcOf[d]] \in Nat /\ counter'[ProcOf[d]] >= counter[ProcOf[d]]

LEMMA BystanderName ==
  ASSUME IndInv, NEW d \in Callers, Bystander(d)
  PROVE  NameInv(d)'
  <1>1. SUFFICES ASSUME pc[d] \in NamedSteps
                 PROVE  \E n \in Nat : /\ name'[d] = <<PidOf[ProcOf[d]], n>>
                                       /\ n < counter'[ProcOf[d]]
    BY DEF NameInv, Bystander
  <1>2. PICK n \in Nat : name[d] = <<PidOf[ProcOf[d]], n>> /\ n < counter[ProcOf[d]]
    BY <1>1, Knows DEF NameInv
  <1>3. counter[ProcOf[d]] \in Nat  BY ProcessAssumption DEF IndInv, TypeOK
  <1>4. n < counter'[ProcOf[d]]  BY <1>2, <1>3 DEF Bystander
  <1>5. QED  BY <1>2, <1>4 DEF Bystander

\* What a bystander knows of its file survives a step that leaves the file
\* alone; its outcome, one that keeps the key file.
LEMMA BystanderInv ==
  ASSUME IndInv, NEW d \in Callers, Bystander(d), Harmless(d)',
         \A f \in Call : pc[d] \in FileSteps /\ tmpName[f] = name[d] =>
           tmpName'[f] = tmpName[f] /\ content'[f] = content[f],
         keyFile # None => keyFile' = keyFile /\ content'[keyFile] = content[keyFile]
  PROVE  CallerInv(d)'
  <1>1. NameInv(d)'  BY BystanderName
  <1>2. FileInv(d)'
    BY Knows DEF FileInv, Bystander, FileSteps, Me
  <1>3. OutcomeInv(d)'
    BY Knows DEF OutcomeInv, Bystander, Me
  <1>4. QED  BY <1>1, <1>2, <1>3 DEF CallerInv

\* A step of c that leaves the disk alone.
LEMMA QuietStep ==
  ASSUME IndInv, TypeOK', NEW c \in Callers, UNCHANGED disk,
         \A d \in Callers : d # c => Bystander(d),
         calls'[c] = calls[c] \/ calls'[c] = calls[c] + 1,
         pc'[c] \in NamedSteps => pc[c] \in NamedSteps /\ name'[c] = name[c],
         pc'[c] \in {"exists", "draw", "tmp_open"} =>
           calls'[c] > calls[c] \/ pc[c] \in {"exists", "draw"},
         CallerInv(c)', ReturnedIsPersisted'
  PROVE  IndInv'
  <1> USE DEF disk
  <1>1. ASSUME NEW d \in Callers, d # c PROVE CallerInv(d)'
    <2>1. Bystander(d)  BY <1>1
    <2>2. Harmless(d)'
      <3>1. counter[ProcOf[d]] \in Nat  BY ProcessAssumption DEF IndInv, TypeOK
      <3>2. \A n \in Nat : n < counter[ProcOf[d]] => n < counter'[ProcOf[d]]
        BY <2>1, <3>1 DEF Bystander
      <3>3. QED  BY <2>1, <3>2, Knows DEF Harmless, Bystander
    <2>3. QED  BY <2>1, <2>2, BystanderInv
  <1>2. NamesDistinct'
    BY DEF IndInv, NamesDistinct, Bystander
  <1>3. OneFile' /\ KeyWhole'  BY DEF IndInv, OneFile, KeyWhole
  <1>4. FreshInv'
    <2>1. ASSUME NEW d \in Callers, NEW k \in 1..MaxCalls,
                 k > calls'[d] \/ (k = calls'[d] /\ pc'[d] \in {"exists", "draw", "tmp_open"})
          PROVE  Unused(<<d, k>>)
      <3>1. CASE d # c  BY <2>1, <3>1 DEF IndInv, FreshInv, Bystander
      <3>2. CASE d = c
        <4>1. calls[c] \in Nat  BY DEF IndInv, TypeOK
        <4>2. k > calls[c] \/ (k = calls[c] /\ pc[c] \in {"exists", "draw", "tmp_open"})
          BY <2>1, <3>2, <4>1
        <4>3. QED  BY <3>2, <4>2 DEF IndInv, FreshInv
      <3>3. QED  BY <3>1, <3>2
    <2>2. QED  BY <2>1 DEF FreshInv, Unused
  <1>5. QED  BY <1>1, <1>2, <1>3, <1>4 DEF IndInv

\* A caller that ends its call knows nothing any more.
LEMMA EndInv ==
  ASSUME IndInv, NEW c \in Callers, End(c)
  PROVE  /\ CallerInv(c)' /\ pc'[c] = "idle"
         /\ \A d \in Callers : d # c => pc'[d] = pc[d] /\ name'[d] = name[d] /\ fd'[d] = fd[d]
  <1>1. pc'[c] = "idle"  BY DEF IndInv, TypeOK, End, Goto
  <1>2. CallerInv(c)'
    BY <1>1 DEF CallerInv, NameInv, FileInv, Harmless, OutcomeInv, NamedSteps, FileSteps
  <1>3. QED  BY <1>1, <1>2 DEF IndInv, TypeOK, End, Goto

LEMMA CountersType ==
  ASSUME IndInv, NEW d \in Callers
  PROVE  ProcOf[d] \in Process /\ counter[ProcOf[d]] \in Nat
  BY ProcessAssumption DEF IndInv, TypeOK

LEMMA StartInv ==
  ASSUME IndInv, NEW c \in Callers, Generate(c) \/ LoadIdentity(c)
  PROVE  IndInv'
  <1> USE DEF Goto
  <1>1. TypeOK'  BY CallerType, IndBase
  <1>2. /\ pc[c] = "idle" /\ calls[c] < MaxCalls /\ UNCHANGED <<disk, counter, name, fd, returned>>
        /\ \E to \in {"exists", "load"} : pc' = [pc EXCEPT ![c] = to]
        /\ calls' = [calls EXCEPT ![c] = calls[c] + 1]
    BY DEF Generate, LoadIdentity
  <1>3. /\ pc'[c] \in {"exists", "load"} /\ calls'[c] = calls[c] + 1 /\ calls[c] \in 0..MaxCalls
        /\ \A d \in Callers : d # c => pc'[d] = pc[d] /\ calls'[d] = calls[d]
    BY <1>2 DEF IndInv, TypeOK
  <1>4. \A d \in Callers : d # c => Bystander(d)
    BY <1>2, <1>3, CountersType DEF Bystander
  <1>5. CallerInv(c)'
    <2>1. calls'[c] \in 1..MaxCalls  BY <1>2, <1>3, BoundAssumption
    <2>2. QED
      BY <1>3, <2>1
      DEF CallerInv, NameInv, FileInv, Harmless, OutcomeInv, NamedSteps, FileSteps
  <1>6. ReturnedIsPersisted'  BY <1>2 DEF IndInv, ReturnedIsPersisted, disk
  <1>7. pc'[c] \notin NamedSteps  BY <1>3 DEF NamedSteps
  <1>8. UNCHANGED disk /\ calls'[c] > calls[c]  BY <1>2, <1>3
  <1>9. QED  BY <1>1, <1>3, <1>4, <1>5, <1>6, <1>7, <1>8, QuietStep

\* A step inside a call that leaves the disk and the counters alone.
LEMMA MoveInv ==
  ASSUME IndInv, NEW c \in Callers, TypeOK', NEW to,
         pc' = [pc EXCEPT ![c] = to], UNCHANGED <<disk, counter, calls, name, returned>>,
         \A d \in Callers : d # c => fd'[d] = fd[d],
         to \in NamedSteps => pc[c] \in NamedSteps,
         to \in {"exists", "draw", "tmp_open"} => pc[c] \in {"exists", "draw"},
         CallerInv(c)'
  PROVE  IndInv'
  <1>1. pc'[c] = to /\ \A d \in Callers : d # c => pc'[d] = pc[d]
    BY DEF IndInv, TypeOK
  <1>2. \A d \in Callers : d # c => Bystander(d)
    BY <1>1, CountersType DEF Bystander
  <1>3. ReturnedIsPersisted'  BY DEF IndInv, ReturnedIsPersisted, disk
  <1>4. QED  BY <1>1, <1>2, <1>3, QuietStep

\* path.exists() is false either because there is no key file or because the stat
\* failed; but then nobody was killed and nothing was left behind, and the second
\* name of the key file belongs to a running call, whose process counted past it.
LEMMA CheckExistsInv ==
  ASSUME IndInv, TidyInv, PidsDistinct, StatProviso, NEW c \in Callers, CheckExists(c)
  PROVE  IndInv'
  <1>1. TypeOK'  BY CallerType, IndBase DEF Step
  <1>2. PICK to : /\ pc' = [pc EXCEPT ![c] = to]
                  /\ \/ to = IF keyFile # None THEN "load" ELSE "draw"
                     \/ to = "draw" /\ Meet(c, "stat")
    BY DEF CheckExists, Goto
  <1>3. pc[c] = "exists" /\ UNCHANGED <<disk, counter, calls, name, fd, returned>>
    BY DEF CheckExists, locals
  <1>4. pc'[c] = to /\ to \in {"load", "draw"}  BY <1>2 DEF IndInv, TypeOK
  <1>5. ASSUME Meet(c, "stat"), keyFile # None, NEW n \in Nat,
               tmpName[keyFile] = <<PidOf[ProcOf[c]], n>>
        PROVE  n < counter[ProcOf[c]]
    <2> DEFINE d == keyFile[1]
    <2>1. keyFile \in Call /\ d \in Callers  BY <1>5 DEF IndInv, TypeOK, Call
    <2>2. tmpName[keyFile] # None
      <3>1. tmpName[keyFile] \in Name  BY <1>5, ProcessAssumption DEF Name
      <3>2. QED  BY <3>1, DistinctAssumption
    <2>3. PICK F \in FaultSets : {"stat"} \cup {m[2] : m \in met} \subseteq F
      BY <1>5 DEF Meet, May
    <2>4. "kill" \notin F /\ "unlink" \notin F  BY <2>3 DEF StatProviso
    <2>5. ~Leaked(keyFile)
      <3>1. ASSUME NEW kind, <<keyFile, kind>> \in met PROVE kind \in F
        <4>1. <<keyFile, kind>>[2] = kind  OBVIOUS
        <4>2. QED  BY <2>3, <3>1, <4>1
      <3>2. QED  BY <2>4, <3>1 DEF Leaked
    <2>6. pc[d] \in HoldSteps /\ name[d] = tmpName[keyFile]
      BY <2>1, <2>2, <2>5 DEF TidyInv, Holds
    <2>7. PICK k \in Nat : name[d] = <<PidOf[ProcOf[d]], k>> /\ k < counter[ProcOf[d]]
      BY <2>1, <2>6, Knows DEF NameInv, HoldSteps, FileSteps, NamedSteps
    <2>8. k = n /\ PidOf[ProcOf[d]] = PidOf[ProcOf[c]]  BY <1>5, <2>6, <2>7
    <2>9. ProcOf[d] = ProcOf[c]  BY <2>1, <2>8, CountersType DEF PidsDistinct
    <2>10. QED  BY <2>7, <2>8, <2>9
  <1>6. CallerInv(c)'
    <2>1. NameInv(c)' /\ OutcomeInv(c)'  BY <1>4 DEF NameInv, OutcomeInv, NamedSteps
    <2>2. FileInv(c)'  BY <1>3, <1>4, Knows DEF FileInv
    <2>3. Harmless(c)'
      <3>1. CASE to = "load"  BY <1>4, <3>1 DEF Harmless, FileSteps
      <3>2. CASE to = "draw"
        <4>1. keyFile = None \/ Meet(c, "stat")  BY <1>2, <3>2
        <4>2. QED  BY <1>3, <1>4, <1>5, <3>2, <4>1 DEF Harmless, FileSteps, disk
      <3>3. QED  BY <1>4, <3>1, <3>2
    <2>4. QED  BY <2>1, <2>2, <2>3 DEF CallerInv
  <1>7. QED  BY <1>1, <1>2, <1>3, <1>4, <1>6, MoveInv DEF NamedSteps

LEMMA LoadExistingInv ==
  ASSUME IndInv, NEW c \in Callers, LoadExisting(c)
  PROVE  IndInv'
  <1>1. TypeOK'  BY CallerType, IndBase DEF Step
  <1>2. End(c) /\ UNCHANGED <<disk, counter, calls>>  BY DEF LoadExisting, Return
  <1>3. \A d \in Callers : d # c => Bystander(d)
    BY <1>2, EndInv, CountersType DEF Bystander
  <1>4. ReturnedIsPersisted'
    <2>1. CASE UNCHANGED returned
      BY <1>2, <2>1 DEF IndInv, ReturnedIsPersisted, disk
    <2>2. CASE keyFile # None /\ Return(c, content[keyFile])
      BY <1>2, <2>2 DEF IndInv, ReturnedIsPersisted, disk, Return
    <2>3. QED  BY <2>1, <2>2 DEF LoadExisting
  <1>5. QED  BY <1>1, <1>2, <1>3, <1>4, EndInv, QuietStep DEF NamedSteps

LEMMA ChmodTmpInv ==
  ASSUME IndInv, NEW c \in Callers, ChmodTmp(c)
  PROVE  IndInv'
  <1>1. TypeOK'  BY CallerType, IndBase DEF Step
  <1>2. \E f \in Call : tmpName[f] = name[c] /\ content[f] = Me(c)
    BY Knows DEF FileInv, ChmodTmp
  <1>3. /\ pc[c] = "tmp_chmod" /\ pc' = [pc EXCEPT ![c] = "tmp_link"]
        /\ UNCHANGED <<disk, counter, calls, name, fd, returned>>
    BY <1>2 DEF ChmodTmp, Goto, locals
  <1>4. pc'[c] = "tmp_link"  BY <1>3 DEF IndInv, TypeOK
  <1>5. CallerInv(c)'
    <2>1. NameInv(c)' /\ OutcomeInv(c)'
      BY <1>3, <1>4, Knows DEF NameInv, OutcomeInv, NamedSteps
    <2>2. FileInv(c)'  BY <1>2, <1>3, <1>4, Knows DEF FileInv, Me, disk
    <2>3. Harmless(c)'  BY <1>3, <1>4, Knows DEF Harmless, FileSteps, disk
    <2>4. QED  BY <2>1, <2>2, <2>3 DEF CallerInv
  <1>6. QED  BY <1>1, <1>3, <1>5, MoveInv DEF NamedSteps

LEMMA IoErrorInv ==
  ASSUME IndInv, NEW c \in Callers, IoError(c)
  PROVE  IndInv'
  <1>1. TypeOK'  BY CallerType, IndBase
  <1>2. UNCHANGED <<disk, counter, calls, returned>>  BY DEF IoError
  <1>3. CASE End(c)
    <2>1. \A d \in Callers : d # c => Bystander(d)
      BY <1>2, <1>3, EndInv, CountersType DEF Bystander
    <2>2. ReturnedIsPersisted'  BY <1>2 DEF IndInv, ReturnedIsPersisted, disk
    <2>3. QED  BY <1>1, <1>2, <1>3, <2>1, <2>2, EndInv, QuietStep DEF NamedSteps
  <1>4. CASE ~End(c)
    <2>1. /\ pc[c] \in {"tmp_open", "tmp_write", "tmp_chmod", "tmp_link"}
          /\ pc' = [pc EXCEPT ![c] = "err"] /\ fd' = [fd EXCEPT ![c] = None] /\ name' = name
      BY <1>4 DEF IoError, Goto
    <2>2. pc'[c] = "err" /\ \A d \in Callers : d # c => fd'[d] = fd[d]
      BY <2>1 DEF IndInv, TypeOK
    <2>3. CallerInv(c)'
      <3>1. NameInv(c)'  BY <1>2, <2>1, <2>2, Knows DEF NameInv, NamedSteps
      <3>2. FileInv(c)'  BY <1>2, <2>1, <2>2, Knows DEF FileInv
      <3>3. Harmless(c)' /\ OutcomeInv(c)'  BY <2>2 DEF Harmless, OutcomeInv, FileSteps
      <3>4. QED  BY <3>1, <3>2, <3>3 DEF CallerInv
    <2>4. QED  BY <1>1, <1>2, <2>1, <2>2, <2>3, MoveInv DEF NamedSteps
  <1>5. QED  BY <1>3, <1>4

\* A caller's name is a name.
LEMMA HasName ==
  ASSUME IndInv, NEW c \in Callers, pc[c] \in NamedSteps
  PROVE  name[c] # None
  <1>1. PICK n \in Nat : name[c] = <<PidOf[ProcOf[c]], n>>  BY Knows DEF NameInv
  <1>2. name[c] \in Name  BY <1>1, ProcessAssumption DEF Name
  <1>3. QED  BY <1>2, DistinctAssumption

\* fetch_add: the new name is none that is in use, and not the second name of
\* the key file.
LEMMA DrawNameInv ==
  ASSUME IndInv, PidsDistinct, NEW c \in Callers, DrawName(c)
  PROVE  IndInv'
  <1> DEFINE pr == ProcOf[c]
             m == counter[pr]
             new == <<PidOf[pr], m>>
  <1>1. TypeOK'  BY CallerType, IndBase DEF Step
  <1>2. /\ pc[c] = "draw" /\ pc' = [pc EXCEPT ![c] = "tmp_open"]
        /\ name' = [name EXCEPT ![c] = new] /\ counter' = [counter EXCEPT ![pr] = m + 1]
        /\ UNCHANGED <<disk, calls, fd, returned>>
    BY DEF DrawName, Goto
  <1>3. pr \in Process /\ m \in Nat  BY CountersType
  <1>4. /\ pc'[c] = "tmp_open" /\ name'[c] = new /\ counter'[pr] = m + 1
        /\ \A d \in Callers : d # c => pc'[d] = pc[d] /\ name'[d] = name[d]
        /\ \A qr \in Process : counter'[qr] \in Nat /\ counter'[qr] >= counter[qr]
    <2>1. counter \in [Process -> Nat]  BY DEF IndInv, TypeOK
    <2>2. counter'[pr] = m + 1  BY <1>2, <1>3, <2>1
    <2>3. \A qr \in Process : qr # pr => counter'[qr] = counter[qr]  BY <1>2, <2>1
    <2>4. QED  BY <1>2, <1>3, <2>1, <2>2, <2>3 DEF IndInv, TypeOK
  <1>5. \A d \in Callers : d # c => Bystander(d)
    BY <1>2, <1>4, CountersType DEF Bystander
  <1>6. ASSUME NEW d \in Callers, d # c PROVE CallerInv(d)'
    <2>1. \A n \in Nat : n < counter[ProcOf[d]] => n < counter'[ProcOf[d]]
      BY <1>4, CountersType
    <2>2. Harmless(d)'  BY <1>2, <1>5, <1>6, <2>1, Knows DEF Harmless, Bystander, disk
    <2>3. QED  BY <1>2, <1>5, <1>6, <2>2, BystanderInv DEF disk
  <1>7. CallerInv(c)'
    <2>1. NameInv(c)'  BY <1>3, <1>4 DEF NameInv
    <2>2. FileInv(c)' /\ OutcomeInv(c)'  BY <1>2, <1>4, Knows DEF FileInv, OutcomeInv
    <2>3. Harmless(c)'
      <3>1. keyFile # None /\ tmpName[keyFile] # None => tmpName[keyFile] # new
        <4>1. m < m => FALSE  BY <1>3
        <4>2. QED  BY <1>2, <1>3, <4>1, Knows DEF Harmless
      <3>2. QED  BY <1>2, <1>4, <3>1 DEF Harmless, disk
    <2>4. QED  BY <2>1, <2>2, <2>3 DEF CallerInv
  <1>8. NamesDistinct'
    <2>1. ASSUME NEW d \in Callers, d # c, pc[d] \in NamedSteps PROVE name[d] # new
      <3>1. PICK n \in Nat : name[d] = <<PidOf[ProcOf[d]], n>> /\ n < counter[ProcOf[d]]
        BY <2>1, Knows DEF NameInv
      <3>2. CASE ProcOf[d] = pr
        <4>1. n # m  BY <1>3, <3>1, <3>2
        <4>2. QED  BY <3>1, <4>1
      <3>3. CASE ProcOf[d] # pr
        <4>1. PidOf[ProcOf[d]] # PidOf[pr]  BY <1>3, <3>3, CountersType DEF PidsDistinct
        <4>2. QED  BY <3>1, <4>1
      <3>4. QED  BY <3>2, <3>3
    <2>2. QED  BY <1>4, <2>1 DEF IndInv, NamesDistinct
  <1>9. OneFile' /\ KeyWhole' /\ ReturnedIsPersisted'
    BY <1>2 DEF IndInv, OneFile, KeyWhole, ReturnedIsPersisted, disk
  <1>10. FreshInv'
    BY <1>2, <1>4 DEF IndInv, FreshInv, Unused, disk
  <1>11. QED  BY <1>1, <1>6, <1>7, <1>8, <1>9, <1>10 DEF IndInv

\* open(create, truncate) through a caller's name never reaches the key file.
LEMMA OpensOwn ==
  ASSUME IndInv, NEW c \in Callers, pc[c] = "tmp_open", NEW f \in Call,
         \/ tmpName[f] = name[c]
         \/ f = Me(c) /\ \A g \in Call : tmpName[g] # name[c]
  PROVE  keyFile # f /\ (tmpName[f] = None \/ tmpName[f] = name[c])
  <1>1. name[c] # None  BY HasName DEF NamedSteps
  <1>2. Unused(Me(c))
    <2>1. calls[c] \in 1..MaxCalls  BY Knows DEF FileInv
    <2>2. QED  BY <2>1 DEF IndInv, FreshInv, Me
  <1>3. CASE tmpName[f] = name[c]
    <2>1. keyFile # None /\ tmpName[keyFile] # None => name[c] # tmpName[keyFile]
      BY Knows DEF Harmless
    <2>2. f # None  BY DistinctAssumption
    <2>3. QED  BY <1>1, <1>3, <2>1, <2>2
  <1>4. CASE tmpName[f] # name[c]  BY <1>2, <1>4 DEF Unused
  <1>5. QED  BY <1>3, <1>4

\* The file that a caller opens is not the key file and is nobody else's.
LEMMA OpenTmpInv ==
  ASSUME IndInv, NEW c \in Callers, OpenTmp(c)
  PROVE  IndInv'
  <1>1. TypeOK'  BY CallerType, IndBase DEF Step
  <1>2. PICK f \in Call :
          /\ \/ tmpName[f] = name[c]
             \/ f = Me(c) /\ \A g \in Call : tmpName[g] # name[c]
          /\ tmpName' = [tmpName EXCEPT ![f] = name[c]]
          /\ content' = [content EXCEPT ![f] = Partial]
          /\ fd' = [fd EXCEPT ![c] = f]
    BY DEF OpenTmp
  <1>3. /\ pc[c] = "tmp_open" /\ pc' = [pc EXCEPT ![c] = "tmp_write"]
        /\ UNCHANGED <<keyFile, counter, calls, name, returned>>
    BY DEF OpenTmp, Goto
  <1>4. name[c] # None  BY <1>3, HasName DEF NamedSteps
  <1>5. /\ pc'[c] = "tmp_write" /\ fd'[c] = f /\ tmpName'[f] = name[c]
        /\ \A g \in Call : g # f => tmpName'[g] = tmpName[g] /\ content'[g] = content[g]
        /\ \A d \in Callers : d # c => pc'[d] = pc[d] /\ fd'[d] = fd[d]
    BY <1>2, <1>3 DEF IndInv, TypeOK
  <1>6. \A d \in Callers : d # c => Bystander(d)
    BY <1>3, <1>5, CountersType DEF Bystander
  <1>7. keyFile # f /\ (tmpName[f] = None \/ tmpName[f] = name[c])
    BY <1>2, <1>3, OpensOwn
  <1>8. keyFile # None => tmpName'[keyFile] = tmpName[keyFile] /\ content'[keyFile] = content[keyFile]
    BY <1>5, <1>7 DEF IndInv, TypeOK
  <1>9. ASSUME NEW d \in Callers, d # c PROVE CallerInv(d)'
    <2>1. Harmless(d)'
      BY <1>3, <1>6, <1>8, <1>9, Knows DEF Harmless, Bystander
    <2>2. pc[d] \in FileSteps => name[d] # name[c] /\ name[d] # None
      BY <1>3, <1>9, HasName DEF IndInv, NamesDistinct, NamedSteps, FileSteps
    <2>3. \A g \in Call : pc[d] \in FileSteps /\ tmpName[g] = name[d] => g # f
      BY <1>7, <2>2
    <2>4. \A g \in Call : pc[d] \in FileSteps /\ tmpName[g] = name[d] =>
            tmpName'[g] = tmpName[g] /\ content'[g] = content[g]
      BY <1>5, <2>3
    <2>5. QED  BY <1>3, <1>6, <1>8, <1>9, <2>1, <2>4, BystanderInv
  <1>10. CallerInv(c)'
    <2>1. NameInv(c)'  BY <1>3, <1>5, Knows DEF NameInv, NamedSteps
    <2>2. FileInv(c)'  BY <1>3, <1>5, Knows DEF FileInv
    <2>3. OutcomeInv(c)'  BY <1>5 DEF OutcomeInv
    <2>4. Harmless(c)'  BY <1>3, <1>5, <1>8, Knows DEF Harmless
    <2>5. QED  BY <2>1, <2>2, <2>3, <2>4 DEF CallerInv
  <1>11. NamesDistinct'
    BY <1>3, <1>5 DEF IndInv, NamesDistinct, NamedSteps
  <1>12. OneFile'
    <2>1. ASSUME NEW g \in Call, g # f PROVE tmpName[g] # name[c]
      <3>1. CASE tmpName[f] = name[c]  BY <1>4, <2>1, <3>1 DEF IndInv, OneFile
      <3>2. CASE tmpName[f] # name[c]  BY <1>2, <3>2
      <3>3. QED  BY <3>1, <3>2
    <2>2. QED  BY <1>5, <2>1 DEF IndInv, OneFile
  <1>13. KeyWhole' /\ ReturnedIsPersisted'
    BY <1>3, <1>8 DEF IndInv, KeyWhole, ReturnedIsPersisted
  <1>14. FreshInv'
    <2>1. ASSUME NEW d \in Callers, NEW k \in 1..MaxCalls,
                 k > calls[d] \/ (k = calls[d] /\ pc'[d] \in {"exists", "draw", "tmp_open"})
          PROVE  Unused(<<d, k>>) /\ <<d, k>> # f
      <3>1. Unused(<<d, k>>)  BY <1>3, <1>5, <2>1 DEF IndInv, FreshInv
      <3>2. <<d, k>> # Me(c)
        <4>1. CASE d = c
          <5>1. calls[c] \in Nat  BY DEF IndInv, TypeOK
          <5>2. k # calls[c]  BY <1>5, <2>1, <4>1, <5>1
          <5>3. QED  BY <4>1, <5>2 DEF Me
        <4>2. CASE d # c  BY <4>2 DEF Me
        <4>3. QED  BY <4>1, <4>2
      <3>3. QED  BY <1>2, <1>4, <3>1, <3>2 DEF Unused
    <2>2. \A d \in Callers, k \in 1..MaxCalls : <<d, k>> \in Call  BY DEF Call
    <2>3. QED  BY <1>3, <1>5, <2>1, <2>2 DEF FreshInv, Unused
  <1>15. QED  BY <1>1, <1>9, <1>10, <1>11, <1>12, <1>13, <1>14 DEF IndInv

\* write_all fills the caller's own file, which is not the key file.
LEMMA WriteTmpInv ==
  ASSUME IndInv, NEW c \in Callers, WriteTmp(c)
  PROVE  IndInv'
  <1> DEFINE f == fd[c]
  <1>1. TypeOK'  BY CallerType, IndBase DEF Step
  <1>2. /\ pc[c] = "tmp_write" /\ pc' = [pc EXCEPT ![c] = "tmp_chmod"]
        /\ content' = [content EXCEPT ![f] = Me(c)] /\ fd' = [fd EXCEPT ![c] = None]
        /\ UNCHANGED <<keyFile, tmpName, counter, calls, name, returned>>
    BY DEF WriteTmp, Goto
  <1>3. f \in Call /\ tmpName[f] = name[c] /\ name[c] # None
    BY <1>2, Knows, HasName DEF FileInv, NamedSteps
  <1>4. /\ pc'[c] = "tmp_chmod" /\ content'[f] = Me(c)
        /\ \A g \in Call : g # f => content'[g] = content[g]
        /\ \A d \in Callers : d # c => pc'[d] = pc[d] /\ fd'[d] = fd[d]
    BY <1>2, <1>3 DEF IndInv, TypeOK
  <1>5. \A d \in Callers : d # c => Bystander(d)
    BY <1>2, <1>4, CountersType DEF Bystander
  <1>6. keyFile # None => keyFile # f /\ content'[keyFile] = content[keyFile]
    <2>1. keyFile # None /\ tmpName[keyFile] # None => name[c] # tmpName[keyFile]
      BY <1>2, Knows DEF Harmless, FileSteps
    <2>2. keyFile # None => keyFile \in Call  BY DEF IndInv, TypeOK
    <2>3. QED  BY <1>3, <1>4, <2>1, <2>2
  <1>7. ASSUME NEW d \in Callers, d # c PROVE CallerInv(d)'
    <2>1. Harmless(d)'  BY <1>2, <1>5, <1>7, Knows DEF Harmless, Bystander
    <2>2. pc[d] \in FileSteps => name[d] # name[c]
      BY <1>2, <1>7 DEF IndInv, NamesDistinct, NamedSteps, FileSteps
    <2>3. \A g \in Call : pc[d] \in FileSteps /\ tmpName[g] = name[d] =>
            tmpName'[g] = tmpName[g] /\ content'[g] = content[g]
      BY <1>2, <1>3, <1>4, <2>2
    <2>4. QED  BY <1>2, <1>5, <1>6, <1>7, <2>1, <2>3, BystanderInv
  <1>8. CallerInv(c)'
    <2>1. NameInv(c)'  BY <1>2, <1>4, Knows DEF NameInv, NamedSteps
    <2>2. FileInv(c)'
      <3>1. calls'[c] \in 1..MaxCalls  BY <1>2, Knows DEF FileInv
      <3>2. Me(c)' = Me(c)  BY <1>2 DEF Me
      <3>3. QED  BY <1>2, <1>3, <1>4, <3>1, <3>2 DEF FileInv
    <2>3. OutcomeInv(c)'  BY <1>4 DEF OutcomeInv
    <2>4. Harmless(c)'  BY <1>2, <1>4, Knows DEF Harmless, FileSteps
    <2>5. QED  BY <2>1, <2>2, <2>3, <2>4 DEF CallerInv
  <1>9. NamesDistinct'  BY <1>2, <1>4 DEF IndInv, NamesDistinct, NamedSteps
  <1>10. OneFile'  BY <1>2 DEF IndInv, OneFile
  <1>11. KeyWhole' /\ ReturnedIsPersisted'
    BY <1>2, <1>6 DEF IndInv, KeyWhole, ReturnedIsPersisted
  <1>12. FreshInv'  BY <1>2, <1>4 DEF IndInv, FreshInv, Unused
  <1>13. QED  BY <1>1, <1>7, <1>8, <1>9, <1>10, <1>11, <1>12 DEF IndInv

\* hard_link: what becomes the key file holds the whole seed of the winner.
LEMMA LinkTmpInv ==
  ASSUME IndInv, PidsDistinct, NEW c \in Callers, LinkTmp(c)
  PROVE  IndInv'
  <1>1. TypeOK'  BY CallerType, IndBase DEF Step
  <1>2. pc[c] = "tmp_link" /\ UNCHANGED <<tmpName, content, counter, calls, name, fd, returned>>
    BY DEF LinkTmp, locals
  <1>3. PICK f \in Call : tmpName[f] = name[c] /\ content[f] = Me(c)
    BY <1>2, Knows DEF FileInv
  <1>4. name[c] # None  BY <1>2, HasName DEF NamedSteps
  <1>5. CASE keyFile # None
    <2>1. pc' = [pc EXCEPT ![c] = "lose"] /\ keyFile' = keyFile
      BY <1>3, <1>5 DEF LinkTmp, Goto
    <2>2. pc'[c] = "lose"  BY <2>1 DEF IndInv, TypeOK
    <2>3. CallerInv(c)'
      <3>1. NameInv(c)'  BY <1>2, <2>2, Knows DEF NameInv, NamedSteps
      <3>2. FileInv(c)'  BY <1>2, <2>2, Knows DEF FileInv
      <3>3. OutcomeInv(c)'  BY <1>5, <2>1, <2>2 DEF OutcomeInv
      <3>4. Harmless(c)'  BY <2>2 DEF Harmless, FileSteps
      <3>5. QED  BY <3>1, <3>2, <3>3, <3>4 DEF CallerInv
    <2>4. QED  BY <1>1, <1>2, <2>1, <2>3, MoveInv DEF NamedSteps, disk
  <1>6. CASE keyFile = None
    <2>1. pc' = [pc EXCEPT ![c] = "win"] /\ keyFile' = f
      BY <1>3, <1>4, <1>6 DEF LinkTmp, Goto, IndInv, OneFile
    <2>2. pc'[c] = "win" /\ \A d \in Callers : d # c => pc'[d] = pc[d]
      BY <2>1 DEF IndInv, TypeOK
    <2>3. \A d \in Callers : d # c => Bystander(d)
      BY <1>2, <2>2, CountersType DEF Bystander
    <2>4. f # None  BY DistinctAssumption
    <2>5. PICK m \in Nat : name[c] = <<PidOf[ProcOf[c]], m>> /\ m < counter[ProcOf[c]]
      BY <1>2, Knows DEF NameInv, NamedSteps
    <2>6. ASSUME NEW d \in Callers, d # c PROVE CallerInv(d)'
      <3>1. pc[d] \in NamedSteps => name[d] # name[c]
        BY <1>2, <2>6 DEF IndInv, NamesDistinct, NamedSteps
      <3>2. \A n \in Nat : name[c] = <<PidOf[ProcOf[d]], n>> => n < counter[ProcOf[d]]
        <4>1. SUFFICES ASSUME NEW n \in Nat, name[c] = <<PidOf[ProcOf[d]], n>>
                       PROVE  n < counter[ProcOf[d]]
          OBVIOUS
        <4>2. n = m /\ PidOf[ProcOf[d]] = PidOf[ProcOf[c]]  BY <2>5, <4>1
        <4>3. ProcOf[d] = ProcOf[c]  BY <4>2, CountersType DEF PidsDistinct
        <4>4. QED  BY <2>5, <4>2, <4>3
      <3>3. Harmless(d)'
        BY <1>2, <1>3, <2>1, <2>3, <2>6, <3>1, <3>2
        DEF Harmless, Bystander, FileSteps, NamedSteps
      <3>4. QED  BY <1>2, <1>6, <2>3, <2>6, <3>3, BystanderInv
    <2>7. CallerInv(c)'
      <3>1. NameInv(c)'  BY <1>2, <2>2, Knows DEF NameInv, NamedSteps
      <3>2. FileInv(c)'  BY <1>2, <2>2, Knows DEF FileInv
      <3>3. OutcomeInv(c)'  BY <1>2, <1>3, <2>1, <2>2, <2>4 DEF OutcomeInv, Me
      <3>4. Harmless(c)'  BY <2>2 DEF Harmless, FileSteps
      <3>5. QED  BY <3>1, <3>2, <3>3, <3>4 DEF CallerInv
    <2>8. NamesDistinct'  BY <1>2, <2>2 DEF IndInv, NamesDistinct, NamedSteps
    <2>9. OneFile'  BY <1>2 DEF IndInv, OneFile
    <2>10. KeyWhole'
      <3>1. Me(c) \in Call  BY <1>2, MeType, IndBase
      <3>2. QED  BY <1>2, <1>3, <2>1, <3>1, DistinctAssumption DEF KeyWhole
    <2>11. ReturnedIsPersisted'
      BY <1>2, <1>6 DEF IndInv, ReturnedIsPersisted
    <2>12. FreshInv'
      BY <1>2, <1>3, <1>4, <2>1, <2>2 DEF IndInv, FreshInv, Unused
    <2>13. QED  BY <1>1, <2>6, <2>7, <2>8, <2>9, <2>10, <2>11, <2>12 DEF IndInv
  <1>7. QED  BY <1>5, <1>6

\* remove_tmp_file takes away the caller's own name, or nothing.
LEMMA RemoveInv ==
  ASSUME IndInv, TypeOK', NEW c \in Callers, pc[c] \in NamedSteps, RemoveTmpFile(c),
         UNCHANGED <<keyFile, content, counter, calls>>, pc'[c] \in {"idle", "load"},
         \A d \in Callers : d # c => pc'[d] = pc[d] /\ name'[d] = name[d] /\ fd'[d] = fd[d],
         CallerInv(c)', ReturnedIsPersisted'
  PROVE  IndInv'
  <1>1. \A f \in Call : \/ tmpName'[f] = tmpName[f]
                        \/ tmpName'[f] = None /\ tmpName[f] = name[c]
    BY DEF RemoveTmpFile
  <1>2. \A d \in Callers : d # c => Bystander(d)
    BY CountersType DEF Bystander
  <1>3. keyFile # None => keyFile \in Call  BY DEF IndInv, TypeOK
  <1>4. ASSUME NEW d \in Callers, d # c PROVE CallerInv(d)'
    <2>1. pc[d] \in FileSteps => name[d] # name[c]
      BY <1>4 DEF IndInv, NamesDistinct, NamedSteps, FileSteps
    <2>2. keyFile # None /\ tmpName'[keyFile] # None => tmpName'[keyFile] = tmpName[keyFile]
      BY <1>1, <1>3
    <2>3. Harmless(d)'
      BY <1>2, <1>4, <2>2, Knows DEF Harmless, Bystander
    <2>4. QED  BY <1>1, <1>2, <1>4, <2>1, <2>3, BystanderInv
  <1>5. NamesDistinct'  BY DEF IndInv, NamesDistinct, NamedSteps
  <1>6. OneFile'  BY <1>1 DEF IndInv, OneFile
  <1>7. KeyWhole'  BY DEF IndInv, KeyWhole
  <1>8. FreshInv'
    <2>1. \A d \in Callers, k \in 1..MaxCalls : <<d, k>> \in Call  BY DEF Call
    <2>2. \A f \in Call : Unused(f) => Unused(f)'  BY <1>1 DEF Unused
    <2>3. \A d \in Callers : pc'[d] \in {"exists", "draw", "tmp_open"} => pc'[d] = pc[d]
      OBVIOUS
    <2>4. QED  BY <2>1, <2>2, <2>3 DEF IndInv, FreshInv
  <1>9. QED  BY <1>4, <1>5, <1>6, <1>7, <1>8 DEF IndInv

LEMMA WonInv ==
  ASSUME IndInv, NEW c \in Callers, Won(c)
  PROVE  IndInv'
  <1>1. TypeOK'  BY CallerType, IndBase DEF Step
  <1>2. /\ pc[c] = "win" /\ RemoveTmpFile(c) /\ End(c)
        /\ UNCHANGED <<keyFile, content, counter, calls>>
    BY DEF Won, Return
  <1>3. ReturnedIsPersisted'
    <2>1. keyFile # None /\ content[keyFile] = Me(c)  BY <1>2, Knows DEF OutcomeInv
    <2>2. QED  BY <1>2, <2>1 DEF Won, Return, IndInv, ReturnedIsPersisted
  <1>4. QED  BY <1>1, <1>2, <1>3, EndInv, RemoveInv DEF NamedSteps

LEMMA LostInv ==
  ASSUME IndInv, NEW c \in Callers, Lost(c)
  PROVE  IndInv'
  <1>1. TypeOK'  BY CallerType, IndBase DEF Step
  <1>2. /\ pc[c] = "lose" /\ RemoveTmpFile(c)
        /\ pc' = [pc EXCEPT ![c] = "load"] /\ name' = [name EXCEPT ![c] = None]
        /\ UNCHANGED <<keyFile, content, counter, calls, fd, returned>>
    BY DEF Lost, Goto
  <1>3. /\ pc'[c] = "load"
        /\ \A d \in Callers : d # c => pc'[d] = pc[d] /\ name'[d] = name[d] /\ fd'[d] = fd[d]
    BY <1>2 DEF IndInv, TypeOK
  <1>4. CallerInv(c)'
    BY <1>2, <1>3, Knows
    DEF CallerInv, NameInv, FileInv, Harmless, OutcomeInv, NamedSteps, FileSteps
  <1>5. ReturnedIsPersisted'  BY <1>2 DEF IndInv, ReturnedIsPersisted
  <1>6. QED  BY <1>1, <1>2, <1>3, <1>4, <1>5, RemoveInv DEF NamedSteps

LEMMA FailedInv ==
  ASSUME IndInv, NEW c \in Callers, Failed(c)
  PROVE  IndInv'
  <1>1. TypeOK'  BY CallerType, IndBase DEF Step
  <1>2. /\ pc[c] = "err" /\ RemoveTmpFile(c) /\ End(c)
        /\ UNCHANGED <<keyFile, content, counter, calls, returned>>
    BY DEF Failed
  <1>3. ReturnedIsPersisted'  BY <1>2 DEF IndInv, ReturnedIsPersisted
  <1>4. QED  BY <1>1, <1>2, <1>3, EndInv, RemoveInv DEF NamedSteps

\* The counter starts again, but only for callers that have no name.
LEMMA DieInv ==
  ASSUME IndInv, NEW pr \in Process, Die(pr)
  PROVE  IndInv'
  <1>1. TypeOK'  BY DieType, IndBase
  <1>2. UNCHANGED <<keyFile, tmpName, content, calls, returned>>  BY DEF Die, disk
  <1>3. /\ \A c \in Callers : ProcOf[c] = pr => pc'[c] = "idle"
        /\ \A c \in Callers : ProcOf[c] # pr =>
             pc'[c] = pc[c] /\ name'[c] = name[c] /\ fd'[c] = fd[c]
    BY DEF Die
  <1>4. \A qr \in Process : qr # pr => counter'[qr] = counter[qr]
    BY DEF Die, IndInv, TypeOK
  <1>5. ASSUME NEW c \in Callers PROVE CallerInv(c)'
    <2>1. CASE ProcOf[c] = pr
      BY <1>3, <2>1
      DEF CallerInv, NameInv, FileInv, Harmless, OutcomeInv, NamedSteps, FileSteps
    <2>2. CASE ProcOf[c] # pr
      <3>1. Bystander(c)  BY <1>2, <1>3, <1>4, <2>2, CountersType DEF Bystander
      <3>2. counter'[ProcOf[c]] = counter[ProcOf[c]]  BY <1>4, <2>2, CountersType
      <3>3. Harmless(c)'  BY <1>2, <3>1, <3>2, Knows DEF Harmless, Bystander
      <3>4. QED  BY <1>2, <3>1, <3>3, BystanderInv
    <2>3. QED  BY <2>1, <2>2
  <1>6. NamesDistinct'  BY <1>3 DEF IndInv, NamesDistinct, NamedSteps
  <1>7. OneFile' /\ KeyWhole' /\ ReturnedIsPersisted'
    BY <1>2 DEF IndInv, OneFile, KeyWhole, ReturnedIsPersisted
  <1>8. FreshInv'
    <2>1. \A d \in Callers : pc'[d] \in {"exists", "draw", "tmp_open"} => pc'[d] = pc[d]
      BY <1>3
    <2>2. QED  BY <1>2, <2>1 DEF IndInv, FreshInv, Unused
  <1>9. QED  BY <1>1, <1>5, <1>6, <1>7, <1>8 DEF IndInv

LEMMA NextInd ==
  ASSUME IndInv, TidyInv, PidsDistinct, StatProviso, [Next]_vars
  PROVE  IndInv'
  <1>1. CASE UNCHANGED vars
    <2> USE <1>1 DEF vars
    <2>1. TypeOK'  BY DEF IndInv, TypeOK
    <2>2. \A c \in Callers : NameInv(c)' /\ FileInv(c)'
      BY DEF IndInv, CallerInv, NameInv, FileInv, Me
    <2>3. \A c \in Callers : Harmless(c)' /\ OutcomeInv(c)'
      BY DEF IndInv, CallerInv, Harmless, OutcomeInv, Me
    <2>4. NamesDistinct' /\ OneFile'  BY DEF IndInv, NamesDistinct, OneFile
    <2>5. FreshInv' /\ KeyWhole' /\ ReturnedIsPersisted'
      BY DEF IndInv, FreshInv, Unused, KeyWhole, ReturnedIsPersisted, Me
    <2>6. QED  BY <2>1, <2>2, <2>3, <2>4, <2>5 DEF IndInv, CallerInv
  <1>2. ASSUME NEW c \in Callers, Generate(c) \/ LoadIdentity(c) PROVE IndInv'
    BY <1>2, StartInv
  <1>3. ASSUME NEW c \in Callers, Step(c) PROVE IndInv'
    BY <1>3, CheckExistsInv, LoadExistingInv, DrawNameInv, OpenTmpInv, WriteTmpInv,
       ChmodTmpInv, LinkTmpInv, WonInv, LostInv, FailedInv DEF Step
  <1>4. ASSUME NEW c \in Callers, IoError(c) PROVE IndInv'  BY <1>4, IoErrorInv
  <1>5. ASSUME NEW pr \in Process, Die(pr) PROVE IndInv'  BY <1>5, DieInv
  <1>6. QED  BY <1>1, <1>2, <1>3, <1>4, <1>5 DEF Next

\* Threads and processes that race, die and reuse process ids keep every part of
\* the inductive invariant.
THEOREM Invariance == ASSUME PidsDistinct, StatProviso PROVE Spec => []IndInv
  <1>1. Init => IndInv  BY InitInd
  <1>2. IndInv /\ TidyInv /\ [Next]_vars => IndInv'  BY NextInd
  <1>3. QED  BY <1>1, <1>2, TidyInvariance, PTL DEF Spec

-------------------------------------------------------------------------------
\* What the invariant gives.

\* Every identity that load_or_generate or load ever returned is the one in the
\* key file now, whoever won the race and whatever was killed since.
THEOREM IdentitiesPersisted == ASSUME PidsDistinct, StatProviso PROVE Spec => []ReturnedIsPersisted
  <1>1. IndInv => ReturnedIsPersisted  BY DEF IndInv
  <1>2. QED  BY <1>1, Invariance, PTL

\* Generators never clobber each other's temporary files: from the write to the
\* hard_link, a caller's temporary name leads to a file with the caller's seed.
THEOREM TmpFilesOwned == ASSUME PidsDistinct, StatProviso PROVE Spec => []TmpOwned
  <1>1. ASSUME IndInv, NEW c \in Callers, pc[c] \in {"tmp_chmod", "tmp_link"}
        PROVE  \E f \in Call : tmpName[f] = name[c] /\ f # keyFile /\ content[f] = Me(c)
    <2>1. PICK f \in Call : tmpName[f] = name[c] /\ content[f] = Me(c)
      BY <1>1, Knows DEF FileInv
    <2>2. name[c] # None  BY <1>1, HasName DEF NamedSteps
    <2>3. f # keyFile
      <3>1. keyFile # None /\ tmpName[keyFile] # None => name[c] # tmpName[keyFile]
        BY <1>1, Knows DEF Harmless, FileSteps
      <3>2. f # None  BY DistinctAssumption
      <3>3. QED  BY <2>1, <2>2, <3>1, <3>2
    <2>4. QED  BY <2>1, <2>3
  <1>2. IndInv => TmpOwned  BY <1>1 DEF TmpOwned
  <1>3. QED  BY <1>2, Invariance, PTL

\* No step changes the key file or its bytes once it is there.
LEMMA KeyKept ==
  ASSUME IndInv, [Next]_vars, keyFile # None
  PROVE  keyFile' = keyFile /\ content'[keyFile] = content[keyFile]
  <1> USE DEF disk
  <1>1. keyFile \in Call /\ content \in [Call -> Call \cup {Partial}]  BY DEF IndInv, TypeOK
  <1>2. CASE UNCHANGED <<keyFile, content>>  BY <1>2
  <1>3. ASSUME NEW c \in Callers, OpenTmp(c)
        PROVE  keyFile' = keyFile /\ content'[keyFile] = content[keyFile]
    <2>1. PICK f \in Call :
            /\ \/ tmpName[f] = name[c]
               \/ f = Me(c) /\ \A g \in Call : tmpName[g] # name[c]
            /\ content' = [content EXCEPT ![f] = Partial]
      BY <1>3 DEF OpenTmp
    <2>2. f # keyFile  BY <1>3, <2>1, OpensOwn DEF OpenTmp
    <2>3. QED  BY <1>1, <1>3, <2>1, <2>2 DEF OpenTmp
  <1>4. ASSUME NEW c \in Callers, WriteTmp(c)
        PROVE  keyFile' = keyFile /\ content'[keyFile] = content[keyFile]
    <2>1. pc[c] = "tmp_write" /\ tmpName[fd[c]] = name[c] /\ name[c] # None
      BY <1>4, Knows, HasName DEF WriteTmp, FileInv, NamedSteps
    <2>2. fd[c] # keyFile  BY <2>1, Knows DEF Harmless, FileSteps
    <2>3. QED  BY <1>1, <1>4, <2>2 DEF WriteTmp
  <1>5. ASSUME NEW c \in Callers, LinkTmp(c) PROVE UNCHANGED <<keyFile, content>>
    BY <1>5 DEF LinkTmp
  <1>6. ASSUME NEW c \in Callers,
               \/ Generate(c) \/ LoadIdentity(c) \/ IoError(c) \/ CheckExists(c)
               \/ LoadExisting(c) \/ DrawName(c) \/ ChmodTmp(c) \/ Won(c) \/ Lost(c) \/ Failed(c)
        PROVE UNCHANGED <<keyFile, content>>
    BY <1>6 DEF Generate, LoadIdentity, IoError, CheckExists, LoadExisting, DrawName,
                ChmodTmp, Won, Lost, Failed
  <1>7. ASSUME NEW pr \in Process, Die(pr) PROVE UNCHANGED <<keyFile, content>>
    BY <1>7 DEF Die
  <1>8. QED  BY <1>2, <1>3, <1>4, <1>5, <1>6, <1>7 DEF Next, Step, vars

\* Which steps return something.
LEMMA Returns ==
  ASSUME IndInv, [Next]_vars
  PROVE  \/ returned' = returned
         \/ /\ keyFile # None
            /\ \E r : returned' = returned \cup {r} /\ r.seed = content[keyFile]
  <1>1. ASSUME NEW c \in Callers, NEW s, Return(c, s)
        PROVE  \E r : returned' = returned \cup {r} /\ r.seed = s
    <2> DEFINE r == [by |-> Me(c), seed |-> s]
    <2>1. returned' = returned \cup {r}  BY <1>1 DEF Return
    <2>2. r.seed = s  OBVIOUS
    <2> HIDE DEF r
    <2>3. QED  BY <2>1, <2>2
  <1>2. ASSUME NEW c \in Callers, LoadExisting(c)
        PROVE  \/ returned' = returned
               \/ keyFile # None /\ Return(c, content[keyFile])
    BY <1>2 DEF LoadExisting
  <1>3. ASSUME NEW c \in Callers, Won(c)
        PROVE  keyFile # None /\ Return(c, content[keyFile])
    BY <1>3, Knows DEF Won, OutcomeInv
  <1>4. ASSUME NEW c \in Callers,
               \/ Generate(c) \/ LoadIdentity(c) \/ IoError(c) \/ CheckExists(c)
               \/ DrawName(c) \/ OpenTmp(c) \/ WriteTmp(c) \/ ChmodTmp(c) \/ LinkTmp(c)
               \/ Lost(c) \/ Failed(c)
        PROVE returned' = returned
    BY <1>4 DEF Generate, LoadIdentity, IoError, CheckExists, DrawName, OpenTmp, WriteTmp,
                ChmodTmp, LinkTmp, Lost, Failed
  <1>5. ASSUME NEW pr \in Process, Die(pr) PROVE returned' = returned  BY <1>5 DEF Die
  <1>6. CASE UNCHANGED vars  BY <1>6 DEF vars
  <1>7. QED  BY <1>1, <1>2, <1>3, <1>4, <1>5, <1>6 DEF Next, Step

\* load_or_generate, called by any number of threads and processes that may die
\* anywhere, implements a key that is written once.
THEOREM Refinement == ASSUME PidsDistinct, StatProviso PROVE Spec => ImplementsWriteOnceKey
  <1> DEFINE key == IF keyFile = None THEN None ELSE content[keyFile]
             held == {r.seed : r \in returned}
  <1>1. Init => Key!Init  BY DEF Init, Key!Init
  <1>2. ASSUME IndInv, IndInv', [Next]_vars PROVE [Key!Next]_<<key, held>>
    <2>1. keyFile # None => content[keyFile] \in Call /\ content[keyFile] # None
      BY <1>2, DistinctAssumption DEF IndInv, TypeOK, KeyWhole
    <2>2. keyFile' # None => (content[keyFile])' \in Call
      BY <1>2 DEF IndInv, TypeOK, KeyWhole
    <2>3. CASE returned' = returned /\ keyFile # None
      <3>1. key' = key /\ held' = held  BY <1>2, <2>3, KeyKept
      <3>2. QED  BY <3>1
    <2>4. CASE returned' = returned /\ keyFile = None /\ keyFile' = None
      BY <2>4
    <2>5. CASE returned' = returned /\ keyFile = None /\ keyFile' # None
      BY <2>2, <2>5 DEF Key!Next, Key!Publish
    <2>6. CASE keyFile # None /\ \E r : returned' = returned \cup {r} /\ r.seed = content[keyFile]
      <3>1. held' = held \cup {key}  BY <2>6
      <3>2. key' = key /\ key # None  BY <1>2, <2>1, <2>6, KeyKept
      <3>3. QED  BY <3>1, <3>2 DEF Key!Next, Key!Return
    <2>7. QED  BY <1>2, <2>3, <2>4, <2>5, <2>6, Returns
  <1>3. QED  BY <1>1, <1>2, Invariance, PTL DEF Spec, ImplementsWriteOnceKey, Key!Spec

===============================================================================
