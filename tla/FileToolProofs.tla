-------------------------- MODULE FileToolProofs --------------------------
(* Machine-checked proofs about tool handlers and their file operations,  *)
(* for any number of calls and closers.                                   *)
EXTENDS FileTool, TLAPS

Establishing == {"probe", "establish", "probe_again", "establish_again"}
Returned == {"returned_error", "returned_partial", "returned_whole"}

\* The mutex belongs to the call that is establishing a sandbox, before there is one and
\* before the handler is closed.
MutexInv ==
  /\ \A c \in Calls : pc[c] \in Establishing <=> mu = c
  /\ mu # Free => ~closed /\ ~box

\* What a closer has found or done where it is.
CloserInv ==
  \A k \in Closers :
    /\ pc[k] \in {"close", "shut", "wait", "closed", "gave_up"}
    /\ pc[k] # "close" => closed
    /\ pc[k] \in {"wait", "gave_up"} => shut
    /\ pc[k] = "closed" /\ box => shut

\* The teardown is recorded in a confinement that is shut and quiet.
TeardownInv == (\E k \in Closers : [phase |-> "teardown", by |-> k] \in events) => shut /\ active = {}

\* A process is known to its call until its event is recorded or refused.
ReportInv ==
  \A c \in effects :
    /\ pc[c] \in {"running", "report", "result"} \cup Returned
    /\ pc[c] = "report" => outcome[c].started
    /\ pc[c] \in {"result"} \cup Returned =>
         c \in Unwritable \/ [phase |-> "partial_effects", by |-> c] \in events

ToolInv == TypeOK /\ MutexInv /\ CloserInv /\ TeardownInv /\ ReportInv

-----------------------------------------------------------------------------
(* Every step of the handler keeps the invariant.                          *)
LEMMA ToolStep == ToolInv /\ [Next]_vars => ToolInv'
<1> SUFFICES ASSUME ToolInv, [Next]_vars PROVE ToolInv'
  OBVIOUS
<1> USE ToolAssumption DEF ToolInv, Goto, handler, confinement, history
<1>1. CASE UNCHANGED vars
  BY <1>1 DEF vars, TypeOK, MutexInv, CloserInv, TeardownInv, ReportInv
<1>2. ASSUME NEW c \in Calls, Prepare(c) PROVE ToolInv'
  <2>1. PICK next \in {"run", "refused", "execute"} : Goto(c, next)
    BY <1>2 DEF Prepare, Prepared
  <2> QED
    BY <1>2, <2>1 DEF Prepare, TypeOK, Phases, MutexInv, CloserInv, TeardownInv,
     ReportInv, Establishing, Returned
<1>3. ASSUME NEW c \in Calls, BeginEstablish(c) PROVE ToolInv'
  BY <1>3 DEF BeginEstablish, MayPrepare, TypeOK, Phases, MutexInv, CloserInv, TeardownInv,
     ReportInv, Establishing, Returned
<1>4. ASSUME NEW c \in Calls, Probe(c) PROVE ToolInv'
  BY <1>4 DEF Probe, Recorded, TypeOK, Phases, MutexInv, CloserInv, TeardownInv,
     ReportInv, Establishing, Returned
<1>5. ASSUME NEW c \in Calls, Establish(c) PROVE ToolInv'
  <2>1. PICK next \in {"run", "refused", "execute"} : Goto(c, next)
    BY <1>5 DEF Establish, Prepared
  <2>2. TypeOK'
    BY <1>5, <2>1 DEF Establish, Recorded, TypeOK, Phases
  <2>7. mu = c /\ mu' = Free /\ closed' = closed /\ shut' = shut
    BY <1>5 DEF Establish, MutexInv, Establishing
  <2>8. ~closed
    BY <2>7 DEF MutexInv
  <2>9. pc' = [pc EXCEPT ![c] = next] /\ next \notin Establishing
    BY <2>1 DEF Establishing
  <2>3. MutexInv'
    BY <2>7, <2>9 DEF TypeOK, MutexInv
  <2>4. CloserInv'
    BY <2>7, <2>8, <2>9 DEF TypeOK, CloserInv
  <2>5. TeardownInv'
    <3>1. \A k \in Closers : [phase |-> "teardown", by |-> k] \in events' =>
                             [phase |-> "teardown", by |-> k] \in events
      <4>1. events' = events \/ events' = events \cup {[phase |-> "established", by |-> c]}
        BY <1>5 DEF Establish, Recorded
      <4>2. \A k \in Closers : [phase |-> "teardown", by |-> k].phase # [phase |-> "established", by |-> c].phase
        OBVIOUS
      <4> QED
        BY <4>1, <4>2
    <3> QED
      BY <1>5, <3>1 DEF Establish, TeardownInv
  <2>6. ReportInv'
    BY <1>5, <2>1 DEF Establish, Recorded, TypeOK, ReportInv, Returned
  <2> QED
    BY <2>2, <2>3, <2>4, <2>5, <2>6
<1>6. ASSUME NEW c \in Calls, EnterRun(c) PROVE ToolInv'
  <2>2. TypeOK'
    <3>1. CASE shut
      <4>1. pc[c] = "run" /\ pc' = [pc EXCEPT ![c] = "report"] /\ active' = active
        BY <1>6, <3>1 DEF EnterRun, Refuses
      <4>2. active' = {d \in Calls : pc'[d] \in {"start", "running"}}
        BY <4>1 DEF TypeOK
      <4>3. outcome' \in [Calls -> [started: BOOLEAN, failed: BOOLEAN]]
        <5>1. outcome' = [outcome EXCEPT ![c] = [started |-> FALSE, failed |-> TRUE]]
          BY <1>6, <3>1 DEF EnterRun, Refuses
        <5> QED
          BY <5>1 DEF TypeOK
      <4> QED
        BY <1>6, <4>1, <4>2, <4>3 DEF EnterRun, TypeOK, Phases
    <3>2. CASE ~shut
      BY <1>6, <3>2 DEF EnterRun, Refuses, TypeOK, Phases
    <3> QED
      BY <3>1, <3>2
  <2>3. MutexInv'
    BY <1>6 DEF EnterRun, Refuses, TypeOK, MutexInv, Establishing
  <2>4. CloserInv'
    BY <1>6 DEF EnterRun, Refuses, TypeOK, MutexInv, CloserInv
  <2>5. TeardownInv'
    BY <1>6 DEF EnterRun, Refuses, TypeOK, CloserInv, TeardownInv
  <2>6. ReportInv'
    BY <1>6 DEF EnterRun, Refuses, TypeOK, ReportInv, Returned
  <2> QED
    BY <2>2, <2>3, <2>4, <2>5, <2>6
<1>7. ASSUME NEW c \in Calls, NotStarted(c) PROVE ToolInv'
  BY <1>7 DEF NotStarted, TypeOK, Phases, MutexInv, CloserInv, TeardownInv,
     ReportInv, Establishing, Returned
<1>8. ASSUME NEW c \in Calls, Start(c) PROVE ToolInv'
  BY <1>8 DEF Start, TypeOK, Phases, MutexInv, CloserInv, TeardownInv,
     ReportInv, Establishing, Returned
<1>9. ASSUME NEW c \in Calls, NEW failed \in BOOLEAN, pc[c] = "running", Returns(c, failed) PROVE ToolInv'
  BY <1>9 DEF Returns, TypeOK, Phases, MutexInv, CloserInv, TeardownInv,
     ReportInv, Establishing, Returned
<1>10. ASSUME NEW c \in Calls, Report(c) PROVE ToolInv'
  <2>2. TypeOK'
    BY <1>10 DEF Report, Recorded, Phase, TypeOK, Phases
  <2>3. MutexInv'
    BY <1>10 DEF Report, Recorded, Phase, TypeOK, MutexInv, Establishing
  <2>4. CloserInv'
    BY <1>10 DEF Report, Recorded, Phase, TypeOK, MutexInv, CloserInv
  <2>5. TeardownInv'
    BY <1>10 DEF Report, Recorded, Phase, TypeOK, CloserInv, TeardownInv
  <2>6. ReportInv'
    <3>1. CASE Refused(c) /\ Goto(c, "returned_error") /\ UNCHANGED events
      BY <1>10, <3>1 DEF Report, Refused, TypeOK, ReportInv, Returned
    <3>2. CASE Recorded(Phase(c), c) /\ Goto(c, "result")
      <4>1. c \in effects => [phase |-> "partial_effects", by |-> c] \in events'
        BY <1>10, <3>2 DEF Report, Recorded, Phase, ReportInv
      <4>2. events \subseteq events'
        BY <3>2 DEF Recorded
      <4> QED
        BY <1>10, <3>2, <4>1, <4>2 DEF Report, TypeOK, ReportInv, Returned
    <3> QED
      BY <1>10, <3>1, <3>2 DEF Report
  <2> QED
    BY <2>2, <2>3, <2>4, <2>5, <2>6
<1>11. ASSUME NEW c \in Calls, Result(c) PROVE ToolInv'
  <2>1. TypeOK'
    BY <1>11 DEF Result, TypeOK, Phases
  <2>2. MutexInv'
    BY <1>11 DEF Result, TypeOK, MutexInv, Establishing
  <2>3. CloserInv'
    BY <1>11 DEF Result, TypeOK, CloserInv
  <2>4. TeardownInv'
    BY <1>11 DEF Result, TypeOK, TeardownInv
  <2>5. ReportInv'
    BY <1>11 DEF Result, TypeOK, ReportInv, Returned
  <2> QED
    BY <2>1, <2>2, <2>3, <2>4, <2>5
<1>12. ASSUME NEW c \in Calls, End(c) PROVE ToolInv'
  BY <1>12 DEF End, TypeOK, Phases, MutexInv, CloserInv, TeardownInv,
     ReportInv, Establishing, Returned
<1>13. ASSUME NEW k \in Closers, CloseHandler(k) \/ Shut(k) \/ GiveUp(k) PROVE ToolInv'
  <2>2. TypeOK'
    BY <1>13 DEF CloseHandler, Shut, GiveUp, TypeOK, Phases
  <2>3. MutexInv'
    BY <1>13 DEF CloseHandler, Shut, GiveUp, TypeOK, MutexInv, Establishing
  <2>4. CloserInv'
    BY <1>13 DEF CloseHandler, Shut, GiveUp, TypeOK, MutexInv, CloserInv
  <2>5. TeardownInv'
    BY <1>13 DEF CloseHandler, Shut, GiveUp, TypeOK, CloserInv, TeardownInv
  <2>6. ReportInv'
    BY <1>13 DEF CloseHandler, Shut, GiveUp, TypeOK, ReportInv, Returned
  <2> QED
    BY <2>2, <2>3, <2>4, <2>5, <2>6
<1>14. ASSUME NEW k \in Closers, TearDown(k) PROVE ToolInv'
  BY <1>14 DEF TearDown, Quiet, Recorded, TypeOK, Phases, MutexInv, CloserInv, TeardownInv,
     ReportInv, Establishing, Returned
<1> QED
  BY <1>1, <1>2, <1>3, <1>4, <1>5, <1>6, <1>7, <1>8, <1>9, <1>10, <1>11, <1>12, <1>13, <1>14
     DEF Next, Exit, Kill

(* The invariant holds at the start.                                       *)
LEMMA ToolStart == Init => ToolInv
<1> SUFFICES ASSUME Init PROVE ToolInv
  OBVIOUS
<1>1. TypeOK
  BY DEF Init, NotRun, TypeOK, Phases
<1>2. MutexInv
  BY ToolAssumption DEF Init, MutexInv, Establishing
<1>3. CloserInv
  BY ToolAssumption DEF Init, CloserInv
<1>4. TeardownInv /\ ReportInv
  BY DEF Init, TeardownInv, ReportInv
<1> QED
  BY <1>1, <1>2, <1>3, <1>4 DEF ToolInv

(* The handler closed by all its closers leaves no open sandbox behind     *)
(* (PrepareSandbox against Close).                                         *)
THEOREM NoSandboxIsLeft == Spec => []NoSandboxLeft
<1>1. ToolInv => NoSandboxLeft
  BY ToolAssumption DEF ToolInv, MutexInv, CloserInv, NoSandboxLeft
<1> QED
  BY <1>1, ToolStart, ToolStep, PTL DEF Spec

(* After the teardown no command runs or starts (confinement.Run against   *)
(* confinement.Close).                                                     *)
THEOREM TeardownStaysFinal == Spec => TeardownIsFinal
<1> DEFINE Final == (\E k \in Closers : [phase |-> "teardown", by |-> k] \in events)
                      => Running = {} /\ effects' = effects
<1>1. ToolInv /\ [Next]_vars => [Final]_vars
  <2> SUFFICES ASSUME ToolInv, Next, \E k \in Closers : [phase |-> "teardown", by |-> k] \in events
               PROVE  Running = {} /\ effects' = effects
    BY DEF Running
  <2>1. \A c \in Calls : pc[c] \notin {"start", "running"}
    BY DEF ToolInv, TypeOK, TeardownInv
  <2> QED
    BY <2>1 DEF Running, Next, Prepare, BeginEstablish, Probe, Establish, EnterRun, NotStarted, Start, Exit,
       Kill, Returns, Report, Result, End, CloseHandler, Shut, TearDown, GiveUp, history
<1> QED
  BY <1>1, ToolStart, ToolStep, PTL DEF Spec, TeardownIsFinal

(* A process that ran is in the record of its call when that returns,      *)
(* unless the store refuses the record (handler.Execute).                  *)
THEOREM EffectsStayReported == Spec => []EffectsAreReported
<1>1. ToolInv => EffectsAreReported
  BY DEF ToolInv, ReportInv, Returned, EffectsAreReported
<1> QED
  BY <1>1, ToolStart, ToolStep, PTL DEF Spec

-----------------------------------------------------------------------------
(* The composition with the helper processes does only what the handler    *)
(* does.                                                                   *)
THEOREM FileToolImplementsTool == FileSpec => Spec
<1>1. FileInit => Init
  BY DEF FileInit
<1>2. [FileNext]_<<vars, files>> => [Next]_vars
  BY DEF FileNext, Handling, Helping, StartHelper, ExitHelper, KillHelper, ResultHelper, Next
<1> QED
  BY <1>1, <1>2, PTL DEF FileSpec, Spec

Steps == {"off", "look", "load", "create", "fill", "rename", "remove", "remove_failed",
          "unremoved", "ok", "refused", "killed"}

FileTypeOK ==
  /\ helper \in [Calls -> Steps]
  /\ text \in [Calls -> SUBSET Calls]
  /\ temp \in [Calls -> {"none", "part", "whole"}]
  /\ changed \subseteq Calls

\* A process has a helper, whose temporary file lasts from its creation to its removal and is
\* whole when it is renamed.
TempInv ==
  \A c \in Calls :
    /\ pc[c] = "running" => c \in effects
    /\ pc[c] = "running" \/ helper[c] \in {"off", "ok", "refused", "unremoved", "killed"}
    /\ c \notin effects => helper[c] = "off"
    /\ temp[c] # "none" => helper[c] \in {"fill", "rename", "remove_failed", "unremoved", "killed"}
    /\ helper[c] = "rename" => temp[c] = "whole"

\* Texts come from calls that have replaced the file, a helper's own text apart.
TextInv == file.whole /\ file.of \subseteq changed /\ \A c \in Calls : text[c] \subseteq changed \cup {c}

\* A call that replaced the file has run a process, which succeeded or failed; its result says so.
ChangedInv ==
  \A c \in changed :
    /\ c \in effects
    /\ helper[c] \in {"remove", "ok", "killed"}
    /\ pc[c] \in {"report", "result"} => outcome[c].started /\ (outcome[c].failed \/ helper[c] = "ok")
    /\ pc[c] # "returned_whole" /\ (pc[c] = "returned_error" => c \in Unwritable)

FileInv == ToolInv /\ FileTypeOK /\ TempInv /\ TextInv /\ ChangedInv

(* A step of the handler leaves other calls alone, and a call with a       *)
(* process only goes on to record it.                                      *)
LEMMA HandlingKeeps ==
  ASSUME ToolInv, NEW c \in Calls, Handling(c)
  PROVE  /\ effects' = effects
         /\ \A d \in Calls \ {c} : pc'[d] = pc[d] /\ outcome'[d] = outcome[d]
         /\ pc[c] = "running" <=> pc'[c] = "running"
         /\ c \in effects => /\ outcome'[c] = outcome[c]
                             /\ \/ pc'[c] = pc[c]
                                \/ /\ pc[c] = "report"
                                   /\ pc'[c] = "result" \/ (pc'[c] = "returned_error" /\ c \in Unwritable)
<1> USE DEF ToolInv, TypeOK, Goto, history, handler, confinement
<1>1. CASE Prepare(c)
  BY <1>1 DEF Prepare, Prepared, ReportInv, Returned
<1>2. CASE BeginEstablish(c)
  BY <1>2 DEF BeginEstablish, ReportInv, Returned
<1>3. CASE Probe(c)
  BY <1>3 DEF Probe, ReportInv, Returned
<1>4. CASE Establish(c)
  BY <1>4 DEF Establish, Prepared, ReportInv, Returned
<1>5. CASE EnterRun(c)
  BY <1>5 DEF EnterRun, ReportInv, Returned
<1>6. CASE NotStarted(c)
  BY <1>6 DEF NotStarted, ReportInv, Returned
<1>7. CASE Report(c)
  <2>1. UNCHANGED <<effects, outcome>> /\ pc[c] = "report"
    BY <1>7 DEF Report
  <2>2. /\ pc'[c] = "result" \/ (pc'[c] = "returned_error" /\ c \in Unwritable)
        /\ \A d \in Calls \ {c} : pc'[d] = pc[d]
    BY <1>7 DEF Report, Refused
  <2> QED
    BY <2>1, <2>2
<1>8. CASE End(c)
  BY <1>8 DEF End
<1> QED
  BY <1>1, <1>2, <1>3, <1>4, <1>5, <1>6, <1>7, <1>8 DEF Handling

(* Every step of a helper, and of the handler around it, keeps the         *)
(* invariant.                                                              *)
LEMMA FileStep == FileInv /\ [FileNext]_<<vars, files>> => FileInv'
<1> SUFFICES ASSUME FileInv, [FileNext]_<<vars, files>> PROVE FileInv'
  OBVIOUS
<1>1. ToolInv'
  BY ToolStep DEF FileNext, Handling, Helping, StartHelper, ExitHelper, KillHelper, ResultHelper, Next, FileInv
<1> USE DEF FileInv, files, Goto, Step, At
<1>2. CASE UNCHANGED <<vars, files>>
  BY <1>1, <1>2 DEF vars, FileTypeOK, TempInv, TextInv, ChangedInv
<1>3. ASSUME NEW c \in Calls, Handling(c), UNCHANGED files PROVE FileInv'
  <2>1. FileTypeOK' /\ TextInv'
    BY <1>3 DEF FileTypeOK, TextInv
  <2>2. TempInv'
    BY <1>3, HandlingKeeps DEF TempInv
  <2>3. ChangedInv'
    BY <1>3, HandlingKeeps DEF ChangedInv, FileTypeOK
  <2> QED
    BY <1>1, <2>1, <2>2, <2>3
<1>4. ASSUME NEW c \in Calls, Helping(c), UNCHANGED vars PROVE FileInv'
  <2>5. CASE Look(c)
    <3>1. FileTypeOK'
      BY <1>4, <2>5 DEF Look, Refuse, Steps, FileTypeOK
    <3>2. TempInv'
      BY <1>4, <2>5 DEF Look, Refuse, vars, FileTypeOK, TempInv
    <3>3. TextInv'
      BY <1>4, <2>5 DEF Look, Refuse, FileTypeOK, TextInv
    <3>4. ChangedInv'
      BY <1>4, <2>5 DEF Look, Refuse, vars, FileTypeOK, ChangedInv
    <3> QED
      BY <1>1, <3>1, <3>2, <3>3, <3>4
  <2>6. CASE Load(c)
    <3>1. FileTypeOK'
      BY <1>4, <2>6 DEF Load, Refuse, Steps, FileTypeOK, TextInv
    <3>2. TempInv'
      BY <1>4, <2>6 DEF Load, Refuse, vars, FileTypeOK, TempInv
    <3>3. TextInv'
      BY <1>4, <2>6 DEF Load, Refuse, FileTypeOK, TextInv
    <3>4. ChangedInv'
      BY <1>4, <2>6 DEF Load, Refuse, vars, FileTypeOK, ChangedInv
    <3> QED
      BY <1>1, <3>1, <3>2, <3>3, <3>4
  <2>7. CASE Create(c)
    <3>1. FileTypeOK'
      BY <1>4, <2>7 DEF Create, Refuse, Steps, FileTypeOK
    <3>2. TempInv'
      BY <1>4, <2>7 DEF Create, Refuse, vars, FileTypeOK, TempInv
    <3>3. TextInv'
      BY <1>4, <2>7 DEF Create, Refuse, FileTypeOK, TextInv
    <3>4. ChangedInv'
      BY <1>4, <2>7 DEF Create, Refuse, vars, FileTypeOK, ChangedInv
    <3> QED
      BY <1>1, <3>1, <3>2, <3>3, <3>4
  <2>2. CASE Fill(c)
    <3>1. FileTypeOK'
      BY <1>4, <2>2 DEF Fill, Filled, Steps, FileTypeOK
    <3>2. TempInv'
      BY <1>4, <2>2 DEF Fill, Filled, vars, FileTypeOK, TempInv
    <3>3. TextInv'
      BY <1>4, <2>2 DEF Fill, Filled, FileTypeOK, TextInv
    <3>4. ChangedInv'
      BY <1>4, <2>2 DEF Fill, Filled, vars, FileTypeOK, ChangedInv
    <3> QED
      BY <1>1, <3>1, <3>2, <3>3, <3>4
  <2>3. CASE Rename(c)
    <3>1. CASE RenameFailed(c)
      <4>1. FileTypeOK'
        BY <1>4, <2>3, <3>1 DEF Rename, RenameFailed, Steps, FileTypeOK
      <4>2. TempInv'
        BY <1>4, <2>3, <3>1 DEF Rename, RenameFailed, vars, FileTypeOK, TempInv
      <4>3. TextInv'
        BY <1>4, <2>3, <3>1 DEF Rename, RenameFailed, FileTypeOK, TextInv
      <4>4. ChangedInv'
        BY <1>4, <2>3, <3>1 DEF Rename, RenameFailed, vars, FileTypeOK, ChangedInv
      <4> QED
        BY <1>1, <4>1, <4>2, <4>3, <4>4
    <3>2. CASE ~RenameFailed(c)
      <4>1. /\ pc[c] = "running" /\ helper[c] = "rename"
            /\ file' = [kind |-> "regular", whole |-> temp[c] = "whole", of |-> text[c]]
            /\ temp' = [temp EXCEPT ![c] = "none"] /\ changed' = changed \cup {c}
            /\ helper' = [helper EXCEPT ![c] = "remove"] /\ text' = text
        BY <2>3, <3>2 DEF Rename
      <4>2. FileTypeOK'
        BY <4>1 DEF Steps, FileTypeOK
      <4>3. TempInv'
        BY <1>4, <4>1 DEF vars, FileTypeOK, TempInv
      <4>4. TextInv'
        BY <4>1 DEF FileTypeOK, TempInv, TextInv
      <4>5. ChangedInv'
        BY <1>4, <4>1 DEF vars, FileTypeOK, TempInv, ChangedInv
      <4> QED
        BY <1>1, <4>2, <4>3, <4>4, <4>5
    <3> QED
      BY <3>1, <3>2
  <2>4. CASE Remove(c)
    BY <1>1, <1>4, <2>4 DEF Remove, vars, Steps, FileTypeOK, TempInv, TextInv, ChangedInv
  <2> QED
    BY <1>4, <2>2, <2>3, <2>4, <2>5, <2>6, <2>7 DEF Helping
<1> USE DEF ToolInv, TypeOK
<1>5. ASSUME NEW c \in Calls, StartHelper(c) PROVE FileInv'
  <2>1. c \notin effects
    BY <1>5 DEF StartHelper, Start, ReportInv, Returned
  <2>2. FileTypeOK' /\ TextInv'
    BY <1>5 DEF StartHelper, Steps, FileTypeOK, TextInv
  <2>3. TempInv'
    BY <1>5, <2>1 DEF StartHelper, Start, FileTypeOK, TempInv
  <2>4. ChangedInv'
    BY <1>5, <2>1 DEF StartHelper, Start, FileTypeOK, ChangedInv
  <2> QED
    BY <1>1, <2>2, <2>3, <2>4
<1>6. ASSUME NEW c \in Calls, ExitHelper(c) PROVE FileInv'
  <2>1. FileTypeOK' /\ TextInv'
    BY <1>6 DEF ExitHelper, FileTypeOK, TextInv
  <2>2. TempInv'
    BY <1>6 DEF ExitHelper, Exit, Returns, history, TempInv
  <2>3. ChangedInv'
    BY <1>6 DEF ExitHelper, Exit, Returns, history, FileTypeOK, ChangedInv
  <2> QED
    BY <1>1, <2>1, <2>2, <2>3
<1>7. ASSUME NEW c \in Calls, KillHelper(c) PROVE FileInv'
  <2>1. FileTypeOK' /\ TextInv'
    BY <1>7 DEF KillHelper, Steps, FileTypeOK, TextInv
  <2>2. TempInv'
    BY <1>7 DEF KillHelper, Kill, Returns, history, ReportInv, FileTypeOK, TempInv
  <2>3. ChangedInv'
    BY <1>7 DEF KillHelper, Kill, Returns, history, FileTypeOK, ChangedInv
  <2> QED
    BY <1>1, <2>1, <2>2, <2>3
<1>8. ASSUME NEW c \in Calls, ResultHelper(c) PROVE FileInv'
  <2>1. FileTypeOK' /\ TextInv'
    BY <1>8 DEF ResultHelper, FileTypeOK, TextInv
  <2>2. TempInv'
    BY <1>8 DEF ResultHelper, Result, history, TempInv
  <2>3. ChangedInv'
    BY <1>8 DEF ResultHelper, Result, Says, history, FileTypeOK, ChangedInv
  <2> QED
    BY <1>1, <2>1, <2>2, <2>3
<1>9. ASSUME NEW k \in Closers, CloseHandler(k) \/ Shut(k) \/ TearDown(k) \/ GiveUp(k), UNCHANGED files
      PROVE  FileInv'
  <2>1. UNCHANGED <<outcome, effects>> /\ \A c \in Calls : pc'[c] = pc[c]
    BY <1>9, ToolAssumption DEF CloseHandler, Shut, TearDown, GiveUp, history
  <2>2. FileTypeOK' /\ TextInv'
    BY <1>9 DEF FileTypeOK, TextInv
  <2>3. TempInv'
    BY <1>9, <2>1 DEF TempInv
  <2>4. ChangedInv'
    BY <1>9, <2>1 DEF FileTypeOK, ChangedInv
  <2> QED
    BY <1>1, <2>2, <2>3, <2>4
<1> QED
  BY <1>2, <1>3, <1>4, <1>5, <1>6, <1>7, <1>8, <1>9 DEF FileNext

(* The invariant holds at the start.                                       *)
LEMMA FileStart == FileInit => FileInv
<1> SUFFICES ASSUME FileInit PROVE FileInv
  OBVIOUS
<1>1. ToolInv
  BY ToolStart DEF FileInit
<1>2. FileTypeOK
  BY DEF FileInit, FileTypeOK, Steps
<1>3. TempInv
  BY ToolAssumption DEF FileInit, Init, TempInv
<1>4. TextInv /\ ChangedInv
  BY DEF FileInit, Untouched, TextInv, ChangedInv
<1> QED
  BY <1>1, <1>2, <1>3, <1>4 DEF FileInv

(* The target is always a whole text, and only helpers that were killed or *)
(* could not remove them leave temporary files (toolop.Run).               *)
THEOREM RootStaysSound == FileSpec => []RootIsSound
<1>1. FileInv => RootIsSound
  BY DEF FileInv, FileTypeOK, TempInv, TextInv, RootIsSound
<1> QED
  BY <1>1, FileStart, FileStep, PTL DEF FileSpec

(* A call that has returned told its process and its replacement of the    *)
(* file, killed ones included (handler.Execute with the helper's output).  *)
THEOREM EffectsStayTold == FileSpec => []EffectsAreTold
<1>1. FileInv => EffectsAreTold
  BY DEF FileInv, ToolInv, ReportInv, Returned, ChangedInv, EffectsAreReported, EffectsAreTold
<1> QED
  BY <1>1, FileStart, FileStep, PTL DEF FileSpec
=============================================================================
