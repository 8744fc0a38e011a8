----------------------------- MODULE ModelTurn -----------------------------
(***************************************************************************)
(* One model call and the consumption of its stream: engineProvider.Stream,*)
(* engineModelStream.Recv and the loop's consumeTurn and assistantMessage  *)
(* for a turn; the second half of prepareContext for a summary call.       *)
(*                                                                         *)
(* A model event is "content" (text and tool-call deltas), a completed     *)
(* "tool_call", a "usage" report, the "stop" or an "error".                *)
(***************************************************************************)
EXTENDS Placement

(* turn_started is committed before the provider is called, unless the     *)
(* selection lacks a provider, its name or a valid model.                  *)
StartTurn(e) ==
    /\ run[e].pc = "start"
    /\ \/ Abort(e)
       \/ Emit(e, "turn_started", [run[e] EXCEPT !.pc = "call"]) /\ UNCHANGED unplaced

(* The external call.  It counts even if it gives no stream, which is then *)
(* the first failure of RecvFails.                                         *)
CallModel(e) ==
    LET r == run[e]
        k == IF r.purpose = "summary" THEN Summary ELSE Model
        called == [r EXCEPT !.mc = IF k = Model THEN @ + 1 ELSE @,
                            !.extra = IF k = Summary THEN @ + 1 ELSE @,
                            !.events = 0, !.terminal = FALSE, !.said = "none", !.text = FALSE,
                            !.modelErr = FALSE, !.ncalls = 0, !.summary = Zero]
    IN /\ r.pc = "call"
       /\ Local(e, [called EXCEPT !.pc = "recv"])
       /\ plan' = [plan EXCEPT ![e][k] = "performed"]
       /\ performed' = performed \cup {<<r.turn, k>>}
       /\ repeated' = repeated \cup (performed \cap {<<r.turn, k>>})
       /\ calls' = calls + 1
       /\ UNCHANGED <<spent, resumes>>

-----------------------------------------------------------------------------
(* The provider delivers event ev, to be handled at pc next.  A turn looks *)
(* at its context before every event, a summary call does not.             *)
MayRecv(e) ==
    /\ run[e].pc = "recv"
    /\ run[e].purpose = "turn" => Live(e)

Received(r, ev, next) == [r EXCEPT !.pend = ev, !.pc = next, !.events = @ + 1]

(* Usage beyond the reservation of the call is a budget failure; usage     *)
(* within it is accepted.                                                  *)
FitsReservation(r, u) == Within(Plus(r.used, u), r.bound)

RecvUsage(e) ==
    LET r == run[e]
    IN /\ MayRecv(e)
       /\ r.events <= MaxEvents
       /\ \E u \in Spends :
            \/ ~FitsReservation(r, u) /\ BudgetFailure(e) /\ UNCHANGED unplaced
            \/ /\ FitsReservation(r, u)
               /\ Local(e, [Received(r, [kind |-> "usage", usage |-> u], "emit")
                            EXCEPT !.used = Plus(@, u)])
               /\ spent' = Plus(spent, u)
               /\ UNCHANGED <<plan, performed, repeated, calls, resumes>>

(* Content from another zone waits for the verdict on its way back.        *)
Quarantine(r) == IF r.sel \in Remote THEN "return" ELSE "emit"

RecvContent(e) ==
    /\ MayRecv(e)
    /\ run[e].events < MaxEvents
    /\ \E kind \in {"content", "tool_call", "error"} :
        /\ kind = "tool_call" => run[e].ncalls < MaxBatch
        /\ Local(e, Received(run[e], [kind |-> kind], Quarantine(run[e])))
    /\ UNCHANGED unplaced

RecvStop(e) ==
    /\ MayRecv(e)
    /\ ~run[e].terminal
    /\ \E stop \in {"end_turn", "tool_use", "cancelled"} :
        Local(e, Received(run[e], [kind |-> "stop", stop |-> stop], "emit"))
    /\ UNCHANGED unplaced

(* The end of the stream is an error before the terminal event.            *)
RecvEnd(e) ==
    /\ MayRecv(e)
    /\ run[e].terminal
    /\ Local(e, [run[e] EXCEPT !.pend = NoEvent,
                               !.pc = IF run[e].purpose = "summary" THEN "compact" ELSE "message"])
    /\ UNCHANGED unplaced

(* A context that ended, a transport error, an early end or a malformed    *)
(* event.                                                                  *)
RecvFails(e) == run[e].pc = "recv" /\ Abort(e)

(* The egress verdict on content that came back from another zone.         *)
ReturnVerdict(e) ==
    LET r == run[e]
    IN /\ r.pc = "return"
       /\ \/ ~Live(e) /\ Abort(e)
          \/ /\ Live(e)
             /\ \E v \in Verdicts :
                    Write(e, <<PolicyRecord(r, <<"return", r.cand>>, v)>>, FALSE,
                          CASE v = "allow" -> [r EXCEPT !.pc = "emit"]
                            [] v = "approve" -> [r EXCEPT !.pc = "approve", !.asked = "return"]
                            [] v = "deny" -> Fail(r),
                          Fail(r))
             /\ UNCHANGED unplaced

(* What the loop keeps of a model event it has recorded.                   *)
Consumed(r) ==
    LET ev == r.pend
        q == [r EXCEPT !.pc = "recv"]
    IN CASE ev.kind = "content" -> [q EXCEPT !.text = TRUE]
         [] ev.kind = "tool_call" -> [q EXCEPT !.ncalls = @ + 1]
         [] ev.kind = "stop" -> [q EXCEPT !.terminal = TRUE, !.said = ev.stop]
         [] ev.kind = "error" -> [q EXCEPT !.terminal = TRUE, !.modelErr = TRUE]
         [] ev.kind = "usage" ->
                LET total == Plus(r.usage, ev.usage)
                IN IF Within(total, MaxSpend) THEN [q EXCEPT !.usage = total]
                   ELSE [Fail(r) EXCEPT !.usage = total]

(* ModelStreamValidator.Accept, then the record of the event.              *)
EmitEvent(e) ==
    /\ run[e].pc = "emit"
    /\ run[e].purpose = "turn"
    /\ \/ run[e].terminal /\ Abort(e)
       \/ /\ ~run[e].terminal
          /\ Emit(e, "model", Consumed(run[e]))
          /\ UNCHANGED unplaced

(* A summary call keeps text and usage and takes no tool call.             *)
TakeSummary(e) ==
    LET r == run[e]
        q == [r EXCEPT !.pc = "recv"]
    IN /\ r.pc = "emit"
       /\ r.purpose = "summary"
       /\ \/ (r.terminal \/ r.pend.kind \in {"tool_call", "error"}) /\ Abort(e)
          \/ /\ ~r.terminal
             /\ \/ r.pend.kind = "content" /\ Local(e, [q EXCEPT !.text = TRUE])
                \/ r.pend.kind = "stop" /\ Local(e, [q EXCEPT !.terminal = TRUE])
                \/ r.pend.kind = "usage" /\ Local(e, [q EXCEPT !.summary = Plus(@, r.pend.usage)])
             /\ UNCHANGED unplaced

(* The summary replaces the history once its record is committed, and the  *)
(* turn itself is placed.  An empty or unfitting summary is an error.      *)
CompactHistory(e) ==
    LET r == run[e]
    IN /\ r.pc = "compact"
       /\ \/ Abort(e)
          \/ /\ r.text
             /\ Write(e, <<CompactionRecord(r)>>, FALSE,
                      [Place(r, "turn") EXCEPT !.compaction = Plus(@, r.summary)], Fail(r))
             /\ Planned(e, [plan[e] EXCEPT ![Summary] = "recorded"])
             /\ UNCHANGED <<world, resumes>>

-----------------------------------------------------------------------------
(* How the loop goes on after a response: it ends unless tools are called, *)
(* and those must fit the budget.                                          *)
AfterResponse(r) ==
    LET q == [r EXCEPT !.stop = r.said]
    IN IF r.modelErr THEN Fail(r)
       ELSE IF r.said # "tool_use" THEN Return(q)
       ELSE IF r.ncalls = 0 \/ r.tc + r.ncalls > MaxToolCalls THEN Fail(q)
       ELSE [q EXCEPT !.tc = @ + r.ncalls, !.pc = "tool_start", !.idx = 1]

(* The assistant message, if there is content.  A duplicate call ID or an  *)
(* invalid message is an error.                                            *)
AppendMessage(e) ==
    LET r == run[e]
    IN /\ r.pc = "message"
       /\ \/ Abort(e)
          \/ /\ IF r.text \/ r.ncalls > 0
                THEN Emit(e, "message", AfterResponse(r))
                ELSE Local(e, AfterResponse(r))
             /\ UNCHANGED unplaced

ModelTurnStep(e) ==
    \/ StartTurn(e) \/ CallModel(e) \/ RecvUsage(e) \/ RecvContent(e) \/ RecvStop(e)
    \/ RecvEnd(e) \/ RecvFails(e) \/ ReturnVerdict(e) \/ EmitEvent(e) \/ TakeSummary(e)
    \/ CompactHistory(e) \/ AppendMessage(e)
=============================================================================
