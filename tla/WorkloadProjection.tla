------------------------- MODULE WorkloadProjection -------------------------
(***************************************************************************)
(* The deterministic replay of a workload stream.  Apply folds one event   *)
(* into a projection, or finds it unacceptable; the summary that restore   *)
(* computes with a second pass over the records is folded along with it    *)
(* (field resume), and so is what the audit records say about              *)
(* authorisation and completed work (fields allowed and completed).        *)
(*                                                                         *)
(* An event is a record: type and, for a transition, from and to; for an   *)
(* execution record, stage, turn and the stage's payload.                  *)
(***************************************************************************)
EXTENDS Spend, Sequences

CONSTANTS
    Turns       \* turn numbers a record may carry, 1..MaxModelCalls

WorkloadTransitions ==
    [created |-> {"running", "cancelled"},
     running |-> {"waiting", "succeeded", "failed", "cancelled"},
     waiting |-> {"running", "failed", "cancelled"}]

CanTransitionWorkload(from, to) ==
    from \in DOMAIN WorkloadTransitions /\ to \in WorkloadTransitions[from]

StepTransitions ==
    [pending |-> {"ready", "cancelled"},
     ready |-> {"leased", "failed", "cancelled"},
     leased |-> {"running", "ready", "uncertain", "cancelled"},
     running |-> {"succeeded", "failed", "waiting_approval", "uncertain", "cancelled"},
     waiting_approval |-> {"running", "failed", "cancelled"},
     uncertain |-> {"succeeded", "failed", "ready", "cancelled"}]

CanTransitionStep(from, to) ==
    from \in DOMAIN StepTransitions /\ to \in StepTransitions[from]

NoCheckpoint == [turn |-> 0]

EmptyProjection ==
    [version |-> 0,             \* sequence of the last event
     workload |-> "none",       \* workload state
     step |-> "none",           \* state of its single step
     loopSeq |-> 0,             \* sequence and type of the last loop event
     loopType |-> "none",
     routing |-> [t \in Turns |-> 0],   \* last placement of each turn, 0 for none
     finished |-> FALSE,
     result |-> [calls |-> 0, usage |-> Zero],
     resume |-> [ckpt |-> NoCheckpoint, reserved |-> Zero, extra |-> 0, usage |-> Zero],
     allowed |-> {},            \* scopes whose last verdict is allow
     approved |-> FALSE,        \* a granted approval of the step is recorded
     completed |-> {},          \* <<turn, i>> of recorded tool completions
     valid |-> TRUE]            \* no event was rejected so far

-----------------------------------------------------------------------------
(* The checks of a loop event: the loop sequence has no gap and ends with  *)
(* the stop, activity follows the placement of its turn, a checkpoint      *)
(* follows the tool message of its turn.                                   *)
AcceptsLoop(p, ev) ==
    /\ ev.seq = p.loopSeq + 1
    /\ p.loopType # "stopped"
    /\ ev.loop # "stopped" => p.routing[ev.turn] # 0 /\ p.routing[ev.turn] = ev.model
    /\ ev.loop = "checkpoint" => /\ p.loopType = "tool_message"
                                 /\ ev.result.calls = ev.turn
                                 /\ ev.result.tools >= 1
                                 /\ ev.result.stop = "tool_use"

AcceptsExecution(p, ev) ==
    /\ p.workload = "running"
    /\ p.step = "running"
    /\ ~p.finished
    /\ ev.stage = "compaction" => ev.last >= 1 /\ ev.last < p.version + 1
    /\ ev.stage = "routing" => ev.turn >= 1
    /\ ev.stage = "loop" => AcceptsLoop(p, ev)

Accepts(p, ev) ==
    CASE ev.type = "workload_created" -> p.version = 0 /\ p.workload = "none"
      [] ev.type = "workload_transitioned" ->
            p.workload = ev.from /\ CanTransitionWorkload(ev.from, ev.to)
      [] ev.type = "step_created" -> p.workload # "none" /\ p.step = "none"
      [] ev.type = "step_transitioned" ->
            p.step = ev.from /\ CanTransitionStep(ev.from, ev.to)
      [] ev.type = "execution" -> AcceptsExecution(p, ev)

\* Faulty variant: later activity leaves the checkpoint usable.
ScanKeepingCheckpoint(r, ev) ==
    CASE ev.stage = "reserved" -> [r EXCEPT !.reserved = Plus(@, ev.bound)]
      [] ev.stage = "compaction" -> [r EXCEPT !.extra = @ + 1, !.usage = Plus(@, ev.usage)]
      [] ev.stage = "loop" /\ ev.loop = "checkpoint" ->
            [r EXCEPT !.ckpt = [turn |-> ev.turn, seq |-> ev.seq, result |-> ev.result]]
      [] OTHER -> r

(* The pass of restore over one execution record: reservations and         *)
(* compactions are summed up; a reservation, a compaction and any loop     *)
(* event but a checkpoint invalidate the checkpoint seen before.           *)
Scan(r, ev) ==
    CASE ev.stage = "reserved" ->
            [r EXCEPT !.ckpt = NoCheckpoint, !.reserved = Plus(@, ev.bound)]
      [] ev.stage = "compaction" ->
            [r EXCEPT !.ckpt = NoCheckpoint, !.extra = @ + 1, !.usage = Plus(@, ev.usage)]
      [] ev.stage = "loop" ->
            [r EXCEPT !.ckpt = IF ev.loop = "checkpoint"
                               THEN [turn |-> ev.turn, seq |-> ev.seq, result |-> ev.result]
                               ELSE NoCheckpoint]
      [] OTHER -> r

(* The scopes that hold an allow after a verdict is recorded.              *)
AllowedAfter(allowed, ev) ==
    IF ev.verdict = "allow" THEN allowed \cup {ev.scope} ELSE allowed \ {ev.scope}

ApplyExecution(p, ev) ==
    LET q == [p EXCEPT !.resume = Scan(@, ev)]
    IN CASE ev.stage = "loop" ->
              [q EXCEPT !.loopSeq = ev.seq, !.loopType = ev.loop,
                        !.completed = IF ev.loop = "tool_completed"
                                      THEN @ \cup {<<ev.turn, ev.call>>} ELSE @]
         [] ev.stage = "routing" -> [q EXCEPT !.routing[ev.turn] = ev.selected]
         [] ev.stage = "policy" -> [q EXCEPT !.allowed = AllowedAfter(@, ev)]
         [] ev.stage = "approval" -> [q EXCEPT !.approved = @ \/ (ev.asked = "step" /\ ev.granted)]
         [] ev.stage = "finished" -> [q EXCEPT !.finished = TRUE, !.result = ev.result]
         [] OTHER -> q

Effect(p, ev) ==
    CASE ev.type = "workload_created" -> [p EXCEPT !.workload = "created"]
      [] ev.type = "workload_transitioned" -> [p EXCEPT !.workload = ev.to]
      [] ev.type = "step_created" -> [p EXCEPT !.step = "pending"]
      [] ev.type = "step_transitioned" -> [p EXCEPT !.step = ev.to]
      [] ev.type = "execution" -> ApplyExecution(p, ev)

(* One event: its sequence is the next one because the store numbers it.   *)
(* The in-memory store commits events without looking at them, so a stream *)
(* that replay would refuse is a reachable state, marked not valid.        *)
Apply(p, ev) ==
    IF p.valid /\ Accepts(p, ev)
    THEN [Effect(p, ev) EXCEPT !.version = @ + 1]
    ELSE [p EXCEPT !.version = @ + 1, !.valid = FALSE]

(* The events in order: what the first n of them make of p, and so all.    *)
Replay(p, events) ==
    LET after[n \in 0..Len(events)] == IF n = 0 THEN p ELSE Apply(after[n - 1], events[n])
    IN after[Len(events)]

(* A resume is possible: the workload runs and the scan kept a checkpoint. *)
Resumable(p) == p.valid /\ p.workload = "running" /\ p.resume.ckpt.turn # 0
=============================================================================
