-------------------------- MODULE DurableExecution --------------------------
(***************************************************************************)
(* What the durable workload stream promises about external effects.       *)
(*                                                                         *)
(* Several engines (processes that called Engine.Run or Engine.Resume for  *)
(* one workload) share one append-only stream.  A stream write carries the *)
(* sequence its writer last saw, and the store refuses any other, so only  *)
(* two cases matter about a writer: it holds the last version of the       *)
(* stream, or it is stale for good.  "holds" is the set of engines of the  *)
(* first kind; EngineRun has the real sequence numbers and refines this    *)
(* module.                                                                 *)
(*                                                                         *)
(* An external effect is a model call, a context summary call or the       *)
(* execution of one tool call of a turn.  Every effect is preceded by a    *)
(* durable intent: a spend reservation or a tool_started record.           *)
(***************************************************************************)
EXTENDS Spend

CONSTANTS
    Engines,        \* processes that may run or resume the workload
    MaxBatch,       \* most tool calls in one model response
    MaxModelCalls,  \* Budget.MaxModelCalls
    MaxSpend,       \* Budget.MaxInputTokens, MaxOutputTokens, MaxCost
    Spends          \* amounts an estimate or a usage report may name

ASSUME BatchAssumption == MaxBatch \in Nat
ASSUME CallsAssumption == MaxModelCalls \in Nat
ASSUME SpendAssumption == MaxSpend \in Amounts /\ Spends \subseteq Amounts

Summary == <<"summary", 0>>
Model == <<"model", 0>>
Tool(i) == <<"tool", i>>
Calls == {Summary, Model}
Effects == Calls \cup {Tool(i) : i \in 1..MaxBatch}

VARIABLES
    state,      \* of the workload: "absent", "running" or "done"
    ckpt,       \* turn of the checkpoint a resume would accept, 0 for none
    reserved,   \* sum of the reservations in the stream
    extra,      \* number of compaction records in the stream
    holds,      \* engines whose sequence is the stream's last one
    performed,  \* <<turn, effect>> pairs that happened in the outside world
    repeated,   \* the ones among them that happened more than once
    calls,      \* model and summary calls made
    spent,      \* usage accepted from the providers
    pc,         \* phase of each engine
    turn,       \* turn each engine works on
    plan,       \* state of each effect of that turn, per engine
    mine,       \* each engine's own sum of reservations
    myExtra,    \* each engine's count of summary calls (extraCalls)
    room        \* what is left of the reservation of the call in progress

durable == <<state, ckpt, reserved, extra>>
world == <<performed, repeated, calls, spent>>
local == <<turn, plan, mine, myExtra, room>>
vars == <<durable, holds, world, pc, local>>

NoPlan == [k \in Effects |-> "none"]

TypeOK ==
    /\ state \in {"absent", "running", "done"}
    /\ ckpt \in Nat
    /\ reserved \in Amounts
    /\ extra \in Nat
    /\ holds \subseteq Engines
    /\ performed \subseteq Nat \X Effects
    /\ repeated \subseteq performed
    /\ calls \in Nat
    /\ spent \in Amounts
    /\ pc \in [Engines -> {"idle", "loaded", "ready", "busy", "closing"}]
    /\ turn \in [Engines -> Nat]
    /\ plan \in [Engines -> [Effects -> {"none", "intended", "performed", "recorded"}]]
    /\ mine \in [Engines -> Amounts]
    /\ myExtra \in [Engines -> Nat]
    /\ room \in [Engines -> Amounts]

Init ==
    /\ state = "absent"
    /\ ckpt = 0
    /\ reserved = Zero
    /\ extra = 0
    /\ holds = {}
    /\ performed = {}
    /\ repeated = {}
    /\ calls = 0
    /\ spent = Zero
    /\ pc = [e \in Engines |-> "idle"]
    /\ turn = [e \in Engines |-> 1]
    /\ plan = [e \in Engines |-> NoPlan]
    /\ mine = [e \in Engines |-> Zero]
    /\ myExtra = [e \in Engines |-> 0]
    /\ room = [e \in Engines |-> Zero]

-----------------------------------------------------------------------------
\* Faulty variant: the store takes a write at any sequence.
AppendUnchecked(e, ack) == holds' = IF ack THEN {e} ELSE {}

\* Faulty variant: a commit does not outdate the other engines.
AppendUnfenced(e, ack) == e \in holds /\ holds' = IF ack THEN holds ELSE holds \ {e}

(* One stream write.  It commits only for a writer that holds the last     *)
(* version, and makes every other engine stale.  ack is FALSE when the     *)
(* store committed and the writer was told it failed: it then keeps its    *)
(* old sequence and is stale like the others.                              *)
Append(e, ack) ==
    /\ e \in holds
    /\ holds' = IF ack THEN {e} ELSE {}

(* The phase after a write: the next one, or the failure path.             *)
After(e, ack, next, failed) ==
    pc' = [pc EXCEPT ![e] = IF ack THEN next ELSE failed]

(* The locals of a call that is over.                                      *)
Reset(e) ==
    /\ turn' = [turn EXCEPT ![e] = 1]
    /\ plan' = [plan EXCEPT ![e] = NoPlan]
    /\ mine' = [mine EXCEPT ![e] = Zero]
    /\ myExtra' = [myExtra EXCEPT ![e] = 0]
    /\ room' = [room EXCEPT ![e] = Zero]

(* Engine.Run: the opening events are appended at sequence zero.           *)
Create(e, ack) ==
    /\ pc[e] = "idle"
    /\ state = "absent"
    /\ state' = "running"
    /\ holds' = IF ack THEN {e} ELSE {}
    /\ After(e, ack, "ready", "idle")
    /\ UNCHANGED <<ckpt, reserved, extra, world, local>>

\* Faulty variant: the reservations of the stream are not restored.
LoadUnreserved(e) ==
    /\ pc[e] = "idle"
    /\ state = "running"
    /\ ckpt # 0
    /\ holds' = holds \cup {e}
    /\ pc' = [pc EXCEPT ![e] = "loaded"]
    /\ turn' = [turn EXCEPT ![e] = ckpt + 1]
    /\ myExtra' = [myExtra EXCEPT ![e] = extra]
    /\ UNCHANGED <<durable, world, plan, mine, room>>

(* Engine.Resume reads the stream and finds a usable checkpoint.           *)
Load(e) ==
    /\ pc[e] = "idle"
    /\ state = "running"
    /\ ckpt # 0
    /\ holds' = holds \cup {e}
    /\ pc' = [pc EXCEPT ![e] = "loaded"]
    /\ turn' = [turn EXCEPT ![e] = ckpt + 1]
    /\ mine' = [mine EXCEPT ![e] = reserved]
    /\ myExtra' = [myExtra EXCEPT ![e] = extra]
    /\ UNCHANGED <<durable, world, plan, room>>

(* The resumer claims the version it read with a resumed record.           *)
Claim(e, ack) ==
    /\ pc[e] = "loaded"
    /\ Append(e, ack)
    /\ After(e, ack, "ready", "idle")
    /\ \/ ack /\ UNCHANGED local
       \/ ~ack /\ Reset(e)
    /\ UNCHANGED <<durable, world>>

(* A record that is no intent: verdicts, routing, approvals, loop events.  *)
(* A loop event invalidates the checkpoint, an audit record does not.      *)
Note(e, ack, keep) ==
    /\ pc[e] \in {"ready", "busy", "closing"}
    /\ Append(e, ack)
    /\ \E next \in {pc[e], "closing"} : pc' = [pc EXCEPT ![e] = next]
    /\ ckpt' = IF keep THEN ckpt ELSE 0
    /\ UNCHANGED <<state, reserved, extra, world, local>>

\* Faulty variant: a summary does not leave room for its turn.
MayIntendOneMore(e, k) ==
    /\ plan[e][k] = "none"
    /\ k = Summary => plan[e][Model] = "none" /\ turn[e] + myExtra[e] <= MaxModelCalls
    /\ k = Model => plan[e][Summary] \in {"none", "recorded"}
    /\ k \notin Calls => plan[e][Model] = "performed"

(* May effect k of the current turn be intended now?                       *)
MayIntend(e, k) ==
    /\ plan[e][k] = "none"
    /\ k = Summary => plan[e][Model] = "none" /\ turn[e] + myExtra[e] < MaxModelCalls
    /\ k = Model => plan[e][Summary] \in {"none", "recorded"} /\ turn[e] + myExtra[e] <= MaxModelCalls
    /\ k \notin Calls => plan[e][Model] = "performed"

(* A durable effect intent: a reservation of b before a call, a            *)
(* tool_started record before a tool.  It invalidates the checkpoint.      *)
Intend(e, k, b, ack) ==
    /\ pc[e] \in {"ready", "busy"}
    /\ Append(e, ack)
    /\ MayIntend(e, k)
    /\ Within(Plus(mine[e], b), MaxSpend)
    /\ k \notin Calls => b = Zero
    /\ ckpt' = 0
    /\ reserved' = Plus(reserved, b)
    /\ After(e, ack, "busy", "closing")
    /\ plan' = [plan EXCEPT ![e][k] = IF ack THEN "intended" ELSE @]
    /\ mine' = [mine EXCEPT ![e] = IF ack THEN Plus(@, b) ELSE @]
    /\ room' = [room EXCEPT ![e] = IF ack /\ k \in Calls THEN b ELSE @]
    /\ UNCHANGED <<state, extra, world, turn, myExtra>>

(* The effect itself.  No check of the stream happens here.                *)
Perform(e, k) ==
    /\ pc[e] = "busy"
    /\ plan[e][k] = "intended"
    /\ plan' = [plan EXCEPT ![e][k] = "performed"]
    /\ performed' = performed \cup {<<turn[e], k>>}
    /\ repeated' = repeated \cup (performed \cap {<<turn[e], k>>})
    /\ calls' = IF k \in Calls THEN calls + 1 ELSE calls
    /\ myExtra' = [myExtra EXCEPT ![e] = IF k = Summary THEN @ + 1 ELSE @]
    /\ UNCHANGED <<durable, holds, spent, pc, turn, mine, room>>

(* Usage reported by the provider is accepted only within the reservation. *)
Report(e, u) ==
    /\ pc[e] = "busy"
    /\ Within(u, room[e])
    /\ spent' = Plus(spent, u)
    /\ room' = [room EXCEPT ![e] = Minus(@, u)]
    /\ UNCHANGED <<durable, holds, performed, repeated, calls, pc, turn, plan, mine, myExtra>>

(* The compaction record that makes a summary call count in the stream.    *)
Compact(e, ack) ==
    /\ pc[e] = "busy"
    /\ plan[e][Summary] = "performed"
    /\ Append(e, ack)
    /\ ckpt' = 0
    /\ extra' = extra + 1
    /\ After(e, ack, "busy", "closing")
    /\ plan' = [plan EXCEPT ![e][Summary] = IF ack THEN "recorded" ELSE @]
    /\ UNCHANGED <<state, reserved, world, turn, mine, myExtra, room>>

(* A turn boundary: every effect of the turn is settled.                   *)
Checkpoint(e, ack) ==
    /\ pc[e] = "busy"
    /\ plan[e][Model] = "performed"
    /\ plan[e][Summary] \in {"none", "recorded"}
    /\ Append(e, ack)
    /\ ckpt' = turn[e]
    /\ After(e, ack, "ready", "closing")
    /\ turn' = [turn EXCEPT ![e] = IF ack THEN @ + 1 ELSE @]
    /\ plan' = [plan EXCEPT ![e] = IF ack THEN NoPlan ELSE @]
    /\ room' = [room EXCEPT ![e] = IF ack THEN Zero ELSE @]
    /\ UNCHANGED <<state, reserved, extra, world, mine, myExtra>>

(* The loop ends, for success or for any error.                            *)
Stop(e) ==
    /\ pc[e] \in {"ready", "busy"}
    /\ pc' = [pc EXCEPT ![e] = "closing"]
    /\ UNCHANGED <<durable, holds, world, local>>

(* The terminal records.                                                   *)
Finish(e) ==
    /\ pc[e] = "closing"
    /\ e \in holds
    /\ holds' = {}
    /\ state' = "done"
    /\ ckpt' = 0
    /\ pc' = [pc EXCEPT ![e] = "idle"]
    /\ Reset(e)
    /\ UNCHANGED <<reserved, extra, world>>

(* The call returns, or the process dies.                                  *)
Leave(e) ==
    /\ pc[e] # "idle"
    /\ pc' = [pc EXCEPT ![e] = "idle"]
    /\ holds' = holds \ {e}
    /\ Reset(e)
    /\ UNCHANGED <<durable, world>>

Next ==
    \E e \in Engines :
        \/ Load(e) \/ Stop(e) \/ Finish(e) \/ Leave(e)
        \/ \E k \in Effects : Perform(e, k)
        \/ \E u \in Spends : Report(e, u)
        \/ \E ack \in BOOLEAN :
            \/ Create(e, ack) \/ Claim(e, ack) \/ Compact(e, ack)
            \/ Checkpoint(e, ack)
            \/ \E keep \in BOOLEAN : Note(e, ack, keep)
            \/ \E k \in Effects, b \in Spends \cup {Zero} : Intend(e, k, b, ack)

Spec == Init /\ [][Next]_vars

-----------------------------------------------------------------------------
(* No external effect of a turn ever happens twice, whatever crashes,      *)
(* resumes, lost acknowledgements and competing engines there are: neither *)
(* the model call, nor the summary call, nor any of the tool calls.        *)
AtMostOnce == repeated = {}

(* A checkpoint a resume may start from has every effect of the world      *)
(* behind it: nothing of a later turn has happened, and the calls made are *)
(* exactly the ones the checkpoint and the compaction records count.       *)
ResumePointCoversEffects ==
    ckpt # 0 =>
        /\ \A x \in performed : x[1] <= ckpt
        /\ calls = ckpt + extra

(* Usage accepted from providers stays within the durable reservations,    *)
(* and those within the workload's budget, across any number of resumes.   *)
SpendWithinBudget == Within(spent, reserved) /\ Within(reserved, MaxSpend)

(* Turns and summaries together never make more calls than the budget.     *)
CallsWithinLimit == calls <= MaxModelCalls

(* After the terminal records nothing more is written and no effect of any *)
(* engine, stale or not, happens any more.                                 *)
TerminalIsFinal ==
    [][state = "done" => UNCHANGED <<durable, performed, calls, spent>>]_vars
-----------------------------------------------------------------------------
IsReset(e) ==
    /\ turn[e] = 1
    /\ plan[e] = NoPlan
    /\ mine[e] = Zero
    /\ myExtra[e] = 0
    /\ room[e] = Zero

(* The invariant behind the properties.  An engine that has committed an   *)
(* intent is alone: no checkpoint is left for a resume to start from and   *)
(* no other engine can write any more, even if its own last write was not  *)
(* acknowledged and it is stale itself.                                    *)
Fencing ==
    /\ \A e \in Engines :
        /\ pc[e] = "busy" => state = "running" /\ ckpt = 0 /\ holds \subseteq {e}
        /\ pc[e] = "idle" => e \notin holds /\ IsReset(e)
    /\ \A e, f \in Engines : pc[e] = "busy" /\ pc[f] = "busy" => e = f
    /\ state = "absent" => /\ \A e \in Engines : pc[e] = "idle"
                           /\ ckpt = 0 /\ reserved = Zero /\ extra = 0
                           /\ performed = {} /\ calls = 0
    /\ state = "done" => holds = {} /\ ckpt = 0

(* What an engine between turns that can still write knows is what the     *)
(* stream says, and the world has done nothing of its turn yet.            *)
ReadyKnowsStream ==
    \A e \in holds :
        pc[e] \in {"loaded", "ready"} =>
            /\ mine[e] = reserved
            /\ myExtra[e] = extra
            /\ plan[e] = NoPlan
            /\ turn[e] # 0
            /\ calls + 1 = turn[e] + extra
            /\ \A x \in performed : x[1] < turn[e]

(* What an engine within a turn knows is what the world did: it counts the *)
(* calls made, has room for the calls it still intends, and an effect it   *)
(* has not performed has not happened.                                     *)
BusyKnowsWorld ==
    \A e \in Engines :
        pc[e] = "busy" =>
            /\ mine[e] = reserved
            /\ Within(Plus(spent, room[e]), reserved)
            /\ turn[e] # 0
            /\ plan[e][Model] \in {"none", "intended", "performed"}
            /\ plan[e][Model] # "none" => plan[e][Summary] \in {"none", "recorded"}
            /\ calls + 1 = turn[e] + myExtra[e] + (IF plan[e][Model] = "performed" THEN 1 ELSE 0)
            /\ myExtra[e] = extra + (IF plan[e][Summary] = "performed" THEN 1 ELSE 0)
            /\ plan[e][Model] # "none" => turn[e] + myExtra[e] <= MaxModelCalls
            /\ plan[e][Summary] = "intended" => turn[e] + myExtra[e] < MaxModelCalls
            /\ \A x \in performed : x[1] <= turn[e]
            /\ \A k \in Effects : plan[e][k] \in {"none", "intended"} => <<turn[e], k>> \notin performed

Consistent ==
    /\ Fencing
    /\ ReadyKnowsStream
    /\ BusyKnowsWorld
    /\ AtMostOnce
    /\ ResumePointCoversEffects
    /\ SpendWithinBudget
    /\ CallsWithinLimit
=============================================================================
