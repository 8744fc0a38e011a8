----------------------------- MODULE EngineRun -----------------------------
(***************************************************************************)
(* Engine.Run and Engine.Resume from entry to return: opening the stream   *)
(* or claiming an interrupted one, the turn/tool loop (Placement,          *)
(* ModelTurn, ToolBatch), the closing of tools and the terminal records;   *)
(* crashes, cancellations and expiring deadlines in between.               *)
(***************************************************************************)
EXTENDS ToolBatch

Init ==
    /\ proj = EmptyProjection
    /\ run = [e \in Engines |-> Idle]
    /\ plan = [e \in Engines |-> NoPlan]
    /\ performed = {}
    /\ repeated = {}
    /\ calls = 0
    /\ spent = Zero
    /\ resumes = 0
    /\ faults = 0

-----------------------------------------------------------------------------
WorkloadMoves(from, to) == [type |-> "workload_transitioned", from |-> from, to |-> to]
StepMoves(from, to) == [type |-> "step_transitioned", from |-> from, to |-> to]

Opening ==
    <<[type |-> "workload_created"], WorkloadMoves("created", "running"),
      [type |-> "step_created"], StepMoves("pending", "ready"),
      StepMoves("ready", "leased"), StepMoves("leased", "running"), Record("request", Idle)>>

(* Engine.Run appends the opening events at sequence zero.  On a stream    *)
(* that has events the conflict is returned and nothing changes.           *)
Run(e) ==
    /\ run[e].pc = "idle"
    /\ proj.version = 0
    /\ \E steps \in StepBudgets :
        Write(e, Opening, FALSE, [Idle EXCEPT !.pc = IF steps < 1 THEN "admit" ELSE "enter"], Idle)
    /\ UNCHANGED unplaced

(* admit refuses a budget without steps.                                   *)
Admit(e) == run[e].pc = "admit" /\ BudgetFailure(e) /\ UNCHANGED unplaced

\* Faulty variant: the loop sequence is not restored.
ContinuedUnnumbered(c) ==
    [Idle EXCEPT !.turn = c.result.calls + 1, !.mc = c.result.calls, !.tc = c.result.tools,
                 !.usage = c.result.usage, !.stop = c.result.stop]

(* What the loop continues with after checkpoint c.                        *)
Continued(c) ==
    [Idle EXCEPT !.turn = c.result.calls + 1, !.mc = c.result.calls, !.tc = c.result.tools,
                 !.usage = c.result.usage, !.stop = c.result.stop, !.loopSeq = c.seq]

\* Faulty variant: the usage of recorded summaries is not restored.
RestoredUnpaid(p) ==
    [Continued(p.resume.ckpt) EXCEPT
        !.pc = "loaded", !.seq = p.version, !.approved = TRUE,
        !.reserved = p.resume.reserved, !.extra = p.resume.extra]

(* restore: the engine takes over what the records and the checkpoint say. *)
(* A stream without a usable checkpoint is refused and nothing changes.    *)
Restored(p) ==
    [Continued(p.resume.ckpt) EXCEPT
        !.pc = "loaded", !.seq = p.version, !.approved = TRUE,
        !.reserved = p.resume.reserved, !.extra = p.resume.extra, !.compaction = p.resume.usage]

Load(e) ==
    /\ run[e].pc = "idle"
    /\ Resumable(proj)
    /\ resumes + faults + Cardinality(Calling) < MaxTrouble
    /\ resumes' = resumes + 1
    /\ Local(e, Restored(proj))
    /\ UNCHANGED <<plan, world>>

(* The resumed record claims the version that was read.                    *)
Claim(e) ==
    LET r == run[e]
    IN /\ r.pc = "loaded"
       /\ Write(e, <<Record("resumed", r)>>, FALSE, [r EXCEPT !.pc = "enter"], Idle)
       /\ UNCHANGED unplaced

(* The loop starts.  With a context that has ended it returns a result of  *)
(* its own at once, before it looks at a continuation.                     *)
Enter(e) ==
    LET r == run[e]
        inLoop == [r EXCEPT !.emitting = TRUE]
    IN /\ r.pc = "enter"
       /\ \/ /\ ~Live(e)
             /\ Local(e, [Fail(r) EXCEPT !.mc = 0, !.tc = 0, !.usage = Zero, !.stop = "none"])
          \/ /\ Live(e)
             /\ \/ Local(e, [inLoop EXCEPT !.pc = "turn"])
                \/ Local(e, Fail(inLoop))          \* a schema does not compile
       /\ UNCHANGED unplaced

-----------------------------------------------------------------------------
(* The loop's deferred function, or engineRun.cleanup if the loop did not  *)
(* run: each tool is closed once; a tool with a sandbox records its        *)
(* teardown first.                                                         *)
OpenTools(r) == r.pc = "close" /\ r.idx > 0

TearDown(e) ==
    LET r == run[e]
        next == [r EXCEPT !.pc = "cleanup"]
    IN /\ OpenTools(r)
       /\ \/ Local(e, next)
          \/ /\ Sandboxed
             /\ Write(e, <<Record("sandbox", r)>>, TRUE, next, Stopped([next EXCEPT !.err = TRUE]))
       /\ UNCHANGED unplaced

CloseTool(e) ==
    LET next == [run[e] EXCEPT !.pc = "close", !.idx = @ - 1]
        failing == [next EXCEPT !.err = TRUE]
    IN /\ run[e].pc = "cleanup"
       /\ \E closed \in {next, failing} :
            Write(e, <<Record("cleanup", run[e])>>, TRUE, closed, failing)
       /\ UNCHANGED unplaced

(* loop_stopped, unless an earlier emission failed.                        *)
StopLoop(e) ==
    LET next == [run[e] EXCEPT !.emitting = FALSE]
    IN /\ run[e].pc = "close" /\ run[e].idx = 0
       /\ run[e].emitting
       /\ Write(e, <<LoopRecord(run[e], "stopped")>>, TRUE,
                [next EXCEPT !.loopSeq = @ + 1], [next EXCEPT !.err = TRUE])
       /\ UNCHANGED unplaced

(* The terminal state and its records, on a context of their own.          *)
Outcome(r) ==
    IF r.caller \/ r.stop = "cancelled" THEN "cancelled"
    ELSE IF r.err \/ r.cause # "live" THEN "failed"
    ELSE "succeeded"

\* Faulty variant: summary calls are left out of the result.
FinishedRecordOfLoop(r) ==
    [type |-> "execution", stage |-> "finished", turn |-> r.turn,
     result |-> [calls |-> r.mc, usage |-> r.usage]]

FinishedRecord(r) ==
    [type |-> "execution", stage |-> "finished", turn |-> r.turn,
     result |-> [calls |-> r.mc + r.extra, usage |-> Plus(r.usage, r.compaction)]]

Closing(r) ==
    <<FinishedRecord(r), StepMoves("running", Outcome(r)), WorkloadMoves("running", Outcome(r))>>

Finish(e) ==
    LET r == run[e]
    IN /\ r.pc = "close" /\ r.idx = 0
       /\ ~r.emitting
       /\ Write(e, Closing(r), TRUE, Idle, Idle)
       /\ plan' = [plan EXCEPT ![e] = NoPlan]
       /\ UNCHANGED <<world, resumes>>

-----------------------------------------------------------------------------
Cancel(e) ==
    /\ "user" \in Interrupts
    /\ run[e].pc # "idle" /\ ~run[e].caller
    /\ Local(e, [run[e] EXCEPT !.caller = TRUE, !.cause = IF @ = "live" THEN "user" ELSE @])
    /\ UNCHANGED unplaced

Expire(e) ==
    /\ "wall" \in Interrupts
    /\ run[e].pc # "idle" /\ Live(e)
    /\ Local(e, [run[e] EXCEPT !.cause = "wall"])
    /\ UNCHANGED unplaced

Crash(e) ==
    /\ Crashes
    /\ run[e].pc # "idle"
    /\ Local(e, Idle)
    /\ plan' = [plan EXCEPT ![e] = NoPlan]
    /\ UNCHANGED <<world, resumes>>

EngineStep(e) ==
    \/ Admit(e) \/ Claim(e) \/ Enter(e)
    \/ PlacementStep(e) \/ ModelTurnStep(e) \/ ToolStep(e)
    \/ TearDown(e) \/ CloseTool(e) \/ StopLoop(e) \/ Finish(e)

Next ==
    \E e \in Engines :
        \/ Run(e) \/ Load(e)
        \/ EngineStep(e)
        \/ Cancel(e) \/ Expire(e) \/ Crash(e)

Spec == Init /\ [][Next]_vars

(* An engine that is in a call goes on: the code waits for nothing but the *)
(* store, providers, tools, policies and approvers, which all answer or    *)
(* are cut off by a timeout.                                               *)
FairSpec == Spec /\ \A e \in Engines : WF_vars(EngineStep(e))

-----------------------------------------------------------------------------
(* Every stream an engine writes is one replay accepts: whatever engines,  *)
(* crashes, resumes, cancellations and store faults there are, no event    *)
(* that applyExecutionRecorded would reject is ever committed, so the      *)
(* workload can always be replayed and audited.                            *)
ReplayAccepts == proj.valid

(* A checkpoint that resume accepts has a committed tool_completed record  *)
(* for every tool call that was executed: no tool effect is left           *)
(* unaccounted for behind a resume point.                                  *)
CheckpointCoversTools ==
    proj.resume.ckpt.turn # 0 =>
        \A x \in performed : x[2] \notin {Summary, Model} => <<x[1], x[2][2]>> \in proj.completed

(* A workload that is recorded as succeeded accounts for everything: its   *)
(* result counts every model and summary call ever made for it, by any     *)
(* engine, and every unit of usage that was accepted, and every executed   *)
(* tool call has its completion record.                                    *)
SuccessIsAccounted ==
    proj.workload = "succeeded" =>
        /\ proj.result = [calls |-> calls, usage |-> spent]
        /\ \A x \in performed : x[2] \notin {Summary, Model} => <<x[1], x[2][2]>> \in proj.completed

(* Every terminal record, also of a run that failed or was cancelled,      *)
(* counts every model and summary call ever made for the workload and pays *)
(* for every summary its stream holds: what a resume inherits from the     *)
(* checkpoint and the compaction records is not lost when the resumed run  *)
(* ends, however it ends.                                                  *)
FinishedIsAccounted ==
    proj.finished => /\ proj.result.calls = calls
                     /\ Within(proj.resume.usage, proj.result.usage)

(* What engine e is about to do as effect k is what the stream authorises: *)
(* the recorded placement of the turn is the candidate called, the last    *)
(* recorded verdict on executing there is an allow and, across zones, so   *)
(* is the one on egress, and with an approver the step is approved; a tool *)
(* call has an allow of its own.                                           *)
Authorized(e, k) ==
    LET r == run[e]
        Allowed(kind, i) == <<r.turn, r.purpose, kind, i>> \in proj.allowed
    IN IF k \in {Summary, Model}
       THEN /\ proj.routing[r.turn] = r.sel
            /\ Allowed("exec", r.sel)
            /\ r.sel \in Remote => Allowed("egress", r.sel)
            /\ HasApprover => proj.approved
       ELSE Allowed("tool", k[2])

(* No model, summary or tool call ever happens without the committed       *)
(* verdicts, placement and approval that authorise it, even if the engine  *)
(* has gone stale, was resumed (and takes the approval of the step for     *)
(* granted) or had its context ended in the meantime.                      *)
EffectsAuthorized ==
    [][\A e \in Engines, k \in Effects :
        plan[e][k] = "intended" /\ plan'[e][k] = "performed" => Authorized(e, k)]_vars

(* Every call of Engine.Run and Engine.Resume returns.                     *)
EngineReturns == \A e \in Engines : run[e].pc # "idle" ~> run[e].pc = "idle"

(* A workload that was started reaches a terminal state and its stream can *)
(* be replayed to the end, also when a tool is denied while its siblings   *)
(* run or the context is cancelled or expires in the middle of anything    *)
(* but a commit, as long as no append of the store fails and no engine     *)
(* crashes.                                                                *)
WorkloadTerminates ==
    proj.workload = "running" ~>
        \/ proj.workload \in {"succeeded", "failed", "cancelled"} /\ proj.valid
        \/ faults > 0

-----------------------------------------------------------------------------
(* The engine implements DurableExecution.  An engine holds the stream     *)
(* when its sequence is the stream's; it is busy from the first durable    *)
(* intent of a turn to its checkpoint.                                     *)
Phase(e) ==
    CASE run[e].pc \in {"idle", "loaded"} -> run[e].pc
      [] run[e].pc \in {"close", "cleanup"} -> "closing"
      [] OTHER -> IF plan[e] = NoPlan THEN "ready" ELSE "busy"

WorkloadPhase ==
    CASE proj.workload = "none" -> "absent"
      [] proj.workload = "running" -> "running"
      [] OTHER -> "done"

(* The variables of the protocol: the turn of the checkpoint that a resume *)
(* would accept, the engines that hold the stream, and of each engine its  *)
(* phase, turn, reservations, summary calls and the rest of the            *)
(* reservation its current call may still use.                             *)
AbsCkpt == IF proj.workload = "running" THEN proj.resume.ckpt.turn ELSE 0
AbsHolds == {e \in Engines : run[e].pc # "idle" /\ run[e].seq = proj.version}
AbsPc == [e \in Engines |-> Phase(e)]
AbsTurn == [e \in Engines |-> run[e].turn]
AbsMine == [e \in Engines |-> run[e].reserved]
AbsExtra == [e \in Engines |-> run[e].extra]
AbsRoom == [e \in Engines |-> Minus(run[e].bound, run[e].used)]

D == INSTANCE DurableExecution WITH
        state <- WorkloadPhase, ckpt <- AbsCkpt, holds <- AbsHolds,
        reserved <- proj.resume.reserved, extra <- proj.resume.extra,
        pc <- AbsPc, turn <- AbsTurn, mine <- AbsMine, myExtra <- AbsExtra, room <- AbsRoom

(* Every step of every engine is a step of the abstract protocol, so its   *)
(* guarantees (effects at most once, spend and calls within the budget,    *)
(* resume points that cover all effects) hold of the engine.               *)
ImplementsDurableExecution == D!Spec
=============================================================================
