---------------------------- MODULE EngineState ----------------------------
(***************************************************************************)
(* The state of the execution engine and its write to the event store.     *)
(*                                                                         *)
(* Engines are calls of Engine.Run or Engine.Resume for one workload, in   *)
(* one or several processes.  run[e] is the engineRun of such a call       *)
(* together with the locals of the turn/tool loop it drives.  Every step   *)
(* of the model makes at most one store append or one external call, so a  *)
(* crash, a cancellation or another engine can come between any two.       *)
(***************************************************************************)
EXTENDS WorkloadProjection, FiniteSets

CONSTANTS
    Engines,
    MaxModelCalls, MaxToolCalls,            \* the workload's Budget
    StepBudgets,    \* values of its MaxSteps
    MaxSpend,
    Spends,         \* amounts an estimate or a usage report may name
    NC,             \* number of routing candidates
    Remote,         \* candidates outside the source zone
    NTools,         \* number of declared tools
    Sandboxed,      \* the tools run in a sandbox
    HasApprover,    \* Engine.Approver is set
    AutoCompaction, \* ModelRequest.AutomaticCompaction
    Parallel,       \* the request allows batches to run in parallel
    Verdicts,       \* verdicts the policies give
    MaxBatch,       \* bound: tool calls in one response
    MaxEvents,      \* bound: content events of a response, which one more usage report may follow
    MaxTrouble,     \* bound: resumes that find a checkpoint, store faults and engines in a call, together
    MaxFaults,      \* bound: store appends that fail for no reason of ours
    Interrupts,     \* what ends contexts from outside: "user", "wall"
    Crashes         \* processes may die

ASSUME EngineAssumption ==
    /\ {MaxModelCalls, MaxToolCalls, NC, NTools, MaxBatch} \subseteq Nat
    /\ StepBudgets \cup {MaxEvents, MaxTrouble, MaxFaults} \subseteq Nat
    /\ MaxModelCalls # 0 /\ NC # 0
    /\ Turns = 1..MaxModelCalls
    /\ MaxSpend \in Amounts /\ Spends \subseteq Amounts
    /\ Remote \subseteq 1..NC
    /\ Verdicts \subseteq {"allow", "deny", "approve"}
    /\ Interrupts \subseteq {"user", "wall"}
    /\ {HasApprover, Sandboxed, AutoCompaction, Parallel, Crashes} \subseteq BOOLEAN

Summary == <<"summary", 0>>
Model == <<"model", 0>>
Tool(i) == <<"tool", i>>
Effects == {Summary, Model} \cup {Tool(i) : i \in 1..MaxBatch}
NoPlan == [k \in Effects |-> "none"]

VARIABLES
    proj,       \* the stream, as the projection its replay gives
    run,        \* engineRun and loop locals of each engine
    plan,       \* history: how far each effect of an engine's turn is
    performed,  \* history: <<turn, effect>> pairs that happened
    repeated,   \* history: the ones that happened more than once
    calls,      \* history: model and summary calls made
    spent,      \* history: usage accepted from providers
    resumes,    \* resumes so far
    faults      \* appends so far that failed for no reason of ours, or committed while the context ended

world == <<performed, repeated, calls, spent>>
vars == <<proj, run, plan, world, resumes, faults>>

(* The fields of one response, fresh at the start of every stream.         *)
NoEvent == [kind |-> "none"]

Idle ==
    [pc |-> "idle",
     seq |-> 0, storeErr |-> FALSE,             \* engineRun.sequence, storeErr
     cause |-> "live", caller |-> FALSE,        \* cause of runCtx, caller's ctx ended
     turn |-> 1, mc |-> 0, tc |-> 0,            \* turn, ModelCalls, ToolCalls
     usage |-> Zero, stop |-> "none",           \* LoopResult.Usage, Stop
     err |-> FALSE,                             \* runErr
     extra |-> 0, compaction |-> Zero,          \* extraCalls, compactionUsage
     reserved |-> Zero, approved |-> FALSE,     \* reserved, stepApproved
     loopSeq |-> 0, emitting |-> FALSE,         \* loopEmitter, in the loop
     purpose |-> "turn", cand |-> 1, elig |-> {}, sel |-> 0, asked |-> "none", last |-> 0,
     bound |-> Zero, used |-> Zero,             \* of the model stream
     pend |-> NoEvent, events |-> 0, terminal |-> FALSE, text |-> FALSE,
     said |-> "none", modelErr |-> FALSE, summary |-> Zero,
     ncalls |-> 0, idx |-> 0, nres |-> 0, batchErr |-> FALSE, parallel |-> FALSE,
     tool |-> [i \in 1..MaxBatch |-> "none"]]

-----------------------------------------------------------------------------
(* runCtx and every context derived from it are not done.                  *)
Live(e) == run[e].cause = "live"

(* engineRun.stop: the first cause of a context's end is the one kept.     *)
Stopped(r) == [r EXCEPT !.cause = IF @ = "live" THEN "stop" ELSE @]

\* Faulty variant: an append whose context ended also blocks the later ones.
StickyAlways(e, detached) == TRUE

(* A failed append is remembered, and fails every later one, unless its    *)
(* own context had ended.                                                  *)
Sticky(e, detached) == detached \/ Live(e)

(* Engines in a call.                                                      *)
Calling == {e \in Engines : run[e].pc # "idle"}

(* The call of Engine.Run or Engine.Resume is over when its pc is "idle".  *)
Left(r) == IF r.pc = "idle" THEN Idle ELSE r

(* engineRun.append of events evs; ok and failed are the engine's record   *)
(* after success and after an error, detached says the append does not use *)
(* the run's context.                                                      *)
Write(e, evs, detached, ok, failed) ==
    LET writable == ~run[e].storeErr /\ run[e].seq = proj.version
        open == detached \/ Live(e)
        committed == Replay(proj, evs)
        Becomes(r) == run' = [run EXCEPT ![e] = Left(r)]
    IN \/ /\ writable /\ open
          /\ proj' = committed
          /\ Becomes([ok EXCEPT !.seq = @ + Len(evs)])
          /\ UNCHANGED faults
       \/ /\ ~(writable /\ open)        \* earlier error, version conflict, ended context
          /\ Becomes([failed EXCEPT !.storeErr = @ \/ Sticky(e, detached)])
          /\ UNCHANGED <<proj, faults>>
       \/ /\ writable /\ open           \* the store fails, having committed or not;
          /\ faults < MaxFaults         \* a detached context may also have run out
          /\ resumes + faults + Cardinality(Calling) <= MaxTrouble
          /\ faults' = faults + 1
          /\ proj' \in {proj, committed}
          /\ \E sticky \in {TRUE, ~detached} : Becomes([failed EXCEPT !.storeErr = sticky])
       \/ /\ writable /\ Live(e) /\ ~detached   \* the context ends during the commit
          /\ faults' = faults + 1
          /\ proj' = committed
          /\ \E why \in Interrupts :
                Becomes([failed EXCEPT !.cause = why, !.caller = why = "user"])

(* The write of an effect intent k, or of the end of one: the plan follows *)
(* when the engine learns of the commit.                                   *)
Planned(e, next) ==
    plan' = IF run'[e].seq # run[e].seq THEN [plan EXCEPT ![e] = next] ELSE plan

-----------------------------------------------------------------------------
(* Execution records.                                                      *)
Record(stage, r) == [type |-> "execution", stage |-> stage, turn |-> r.turn]

PolicyRecord(r, scope, verdict) ==
    [type |-> "execution", stage |-> "policy", turn |-> r.turn,
     scope |-> <<r.turn, r.purpose, scope[1], scope[2]>>, verdict |-> verdict]

ApprovalRecord(r, asked, granted) ==
    [type |-> "execution", stage |-> "approval", turn |-> r.turn, asked |-> asked, granted |-> granted]

RoutingRecord(r, selected) ==
    [type |-> "execution", stage |-> "routing", turn |-> r.turn, selected |-> selected]

ReservedRecord(r, bound) ==
    [type |-> "execution", stage |-> "reserved", turn |-> r.turn, bound |-> bound]

CompactionRecord(r) ==
    [type |-> "execution", stage |-> "compaction", turn |-> r.turn, last |-> r.last, usage |-> r.summary]

LoopRecord(r, loop) ==
    [type |-> "execution", stage |-> "loop", turn |-> r.turn, loop |-> loop,
     seq |-> r.loopSeq + 1, model |-> r.sel, call |-> r.idx,
     result |-> [calls |-> r.mc, tools |-> r.tc, usage |-> r.usage, stop |-> r.stop]]

-----------------------------------------------------------------------------
(* The locals of a turn go out of scope.                                   *)
Fresh(r) ==
    [r EXCEPT !.purpose = "turn", !.cand = 1, !.elig = {}, !.sel = 0, !.asked = "none", !.last = 0,
              !.pend = NoEvent, !.events = 0, !.terminal = FALSE, !.text = FALSE, !.said = "none",
              !.modelErr = FALSE, !.summary = Zero, !.ncalls = 0, !.idx = 0, !.nres = 0,
              !.batchErr = FALSE, !.tool = [i \in 1..MaxBatch |-> "none"]]

(* The loop returns: its deferred function closes the tools.               *)
Return(r) == [Fresh(r) EXCEPT !.pc = "close", !.idx = NTools]

Fail(r) == [Return(r) EXCEPT !.err = TRUE]

\* Faulty variant: the loop goes on after a failed emission.
EmitUnchecked(e, loop, ok) ==
    Write(e, <<LoopRecord(run[e], loop)>>, FALSE, [ok EXCEPT !.loopSeq = @ + 1], ok)

(* loopEmitter.emit: after a failed emission nothing more is emitted.      *)
Emit(e, loop, ok) ==
    Write(e, <<LoopRecord(run[e], loop)>>, FALSE,
          [ok EXCEPT !.loopSeq = @ + 1], [Fail(run[e]) EXCEPT !.emitting = FALSE])

(* engineRun.budgetFailure: the dimension is recorded and the turn fails.  *)
BudgetFailure(e) ==
    Write(e, <<Record("budget", run[e])>>, FALSE, Fail(run[e]), Fail(run[e]))

(* A local step of engine e, which then is in state r.                     *)
Local(e, r) ==
    /\ run' = [run EXCEPT ![e] = r]
    /\ UNCHANGED <<proj, faults>>

(* An error that needs no write: a step of code that returns one, or the   *)
(* check of an ended context.                                              *)
Abort(e) ==
    /\ Local(e, Fail(run[e]))
    /\ UNCHANGED <<plan, world, resumes>>
=============================================================================
