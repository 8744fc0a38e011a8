-------------------------- MODULE EngineRunProofs --------------------------
(***************************************************************************)
(* Proofs that the execution engine keeps its promises for any number of   *)
(* engines, any budget, any number of candidates and tools and any faults. *)
(* EngineStateProofs holds the inductive invariant and the actions of      *)
(* Placement and of a model call; this module those that take its answer,  *)
(* those of ToolBatch, and the theorems.                                   *)
(***************************************************************************)
EXTENDS EngineStateProofs

-----------------------------------------------------------------------------
(* The rest of ModelTurn: the answer of the model.                         *)

LEMMA ReturnVerdictStep ==
    ASSUME EngineRunInv, NEW e \in Engines, ReturnVerdict(e)
    PROVE EngineRunInv' /\ AbsNext
<1> DEFINE r == run[e]
<1>1. r.pc = "return" /\ r.pc \notin {"idle", "loaded"} /\ ~Over(r) /\ Streaming(r)
    BY Zenon DEF ReturnVerdict, Over, Streaming
<1>2. LocalInv(r, plan[e]) /\ DOMAIN r = Fields /\ Typed(r) /\ Counts(r)
    BY Zenon, EngineFacts DEF LocalInv
<1>3. r.summary \in Amounts /\ r.usage \in Amounts /\ r.ncalls \in Nat /\ r.ncalls <= MaxBatch /\ PendOK(r)
    BY Zenon, <1>1, <1>2 DEF Typed, Counts, PendOK
<1>4. CASE Abort(e)
    BY Zenon, <1>1, <1>4, AbortStep
<1>5. ASSUME NEW v \in Verdicts, UNCHANGED unplaced,
             Write(e, <<PolicyRecord(r, <<"return", r.cand>>, v)>>, FALSE,
                   CASE v = "allow" -> [r EXCEPT !.pc = "emit"]
                     [] v = "approve" -> [r EXCEPT !.pc = "approve", !.asked = "return"]
                     [] v = "deny" -> Fail(r), Fail(r))
      PROVE EngineRunInv' /\ AbsNext
    <2> DEFINE x == [r EXCEPT !.pc = "emit"]
               y == [r EXCEPT !.pc = "approve", !.asked = "return"]
               ok == CASE v = "allow" -> x [] v = "approve" -> y [] v = "deny" -> Fail(r)
               ev == PolicyRecord(r, <<"return", r.cand>>, v)
    <2>1. Changed(r, x, StreamFields) /\ x.pc = "emit" /\ x.pend = r.pend
          /\ x.summary = r.summary /\ x.usage = r.usage /\ x.ncalls = r.ncalls
        BY Zenon, <1>2 DEF Changed, StreamFields, Fields
    <2>2. Changed(r, y, StreamFields) /\ y.pc = "approve" /\ y.asked = "return" /\ y.pend = r.pend
          /\ y.summary = r.summary /\ y.usage = r.usage /\ y.ncalls = r.ncalls
        BY Zenon, <1>2 DEF Changed, StreamFields, Fields
    <2>3. Write(e, <<ev>>, FALSE, ok, Fail(r))
        BY Zenon, <1>5
    <2>4. ev.type = "execution" /\ ev.stage \in AuditStages \ {"routing"}
        BY PolicyRecordFields
    <2> HIDE DEF x, y, ev
    <2>5. GoodNext(r, plan[e], x) /\ x.pc # "checkpoint"
        <3>1. Streaming(x) /\ PendOK(x)
            BY Zenon, <1>3, <2>1 DEF Streaming, PendOK
        <3> QED
            BY Zenon, <1>1, <1>2, <1>3, <2>1, <3>1, StreamGood
    <2>6. GoodNext(r, plan[e], y) /\ y.pc # "checkpoint"
        <3>1. Streaming(y) /\ PendOK(y)
            BY Zenon, <1>3, <2>2 DEF Streaming, PendOK
        <3> QED
            BY Zenon, <1>1, <1>2, <1>3, <2>2, <3>1, StreamGood
    <2>7. GoodNext(r, plan[e], Fail(r)) /\ Fail(r).pc # "checkpoint"
        BY Zenon, <1>2, FailGood
    <2>8. GoodNext(r, plan[e], ok) /\ ok.pc # "checkpoint"
        BY Zenon, <1>5, <2>5, <2>6, <2>7, EngineAssumption
    <2> HIDE DEF ok
    <2> QED
        BY Zenon, <1>1, <1>5, <2>3, <2>4, <2>7, <2>8, GoodAudit
<1> QED
    BY Zenon, <1>4, <1>5 DEF ReturnVerdict

(* What the loop makes of a model event it has recorded.                   *)
LEMMA ConsumedGood ==
    ASSUME NEW r, NEW p, LocalInv(r, p), r.pc = "emit"
    PROVE GoodNext(r, p, Consumed(r)) /\ Consumed(r).pc # "checkpoint"
<1> DEFINE ev == r.pend
           q == [r EXCEPT !.pc = "recv"]
           c == Consumed(r)
<1>1. Streaming(r) /\ DOMAIN r = Fields /\ Typed(r) /\ Counts(r)
    BY Zenon DEF Streaming, LocalInv, Typed
<1>2. r.summary \in Amounts /\ r.usage \in Amounts /\ r.ncalls \in Nat /\ r.ncalls <= MaxBatch /\ PendOK(r)
    BY Zenon, <1>1 DEF Typed, Counts, PendOK
<1>3. MaxBatch \in Nat
    BY Zenon, EngineAssumption
<1>4. Changed(r, q, {"pc"}) /\ q.pc = "recv"
    BY Zenon, <1>1 DEF Changed, Fields
<1>5. DOMAIN q = Fields /\ q.pc = "recv" /\ q.summary = r.summary /\ q.usage = r.usage /\ q.ncalls = r.ncalls
    BY Zenon, <1>4 DEF Changed, Fields
<1> HIDE DEF q
<1>6. ASSUME NEW x, Changed(r, x, StreamFields), x.pc = "recv", x.summary = r.summary, x.usage \in Amounts,
             x.ncalls \in Nat, x.ncalls <= MaxBatch
      PROVE GoodNext(r, p, x) /\ x.pc # "checkpoint"
    <2>1. Streaming(x)
        BY Zenon, <1>6 DEF Streaming
    <2> QED
        BY Zenon, <1>1, <1>2, <1>6, <2>1, StreamGood
<1>7. CASE ev.kind = "content"
    <2> DEFINE x == [q EXCEPT !.text = TRUE]
    <2>1. c = x
        BY Zenon, <1>7 DEF Consumed, q
    <2>2. Changed(q, x, {"text"}) /\ x.pc = q.pc /\ x.summary = q.summary /\ x.usage = q.usage /\ x.ncalls = q.ncalls
        BY Zenon, <1>5 DEF Changed, Fields
    <2> HIDE DEF x
    <2>3. Changed(r, x, StreamFields)
        BY ZenonT(40), <1>4, <2>2 DEF Changed, StreamFields, Fields
    <2> QED
        BY Zenon, <1>2, <1>5, <1>6, <2>1, <2>2, <2>3
<1>8. CASE ev.kind = "tool_call"
    <2> DEFINE x == [q EXCEPT !.ncalls = @ + 1]
    <2>1. c = x
        BY Zenon, <1>8 DEF Consumed, q
    <2>2. Changed(q, x, {"ncalls"}) /\ x.pc = q.pc /\ x.summary = q.summary /\ x.usage = q.usage /\ x.ncalls = q.ncalls + 1
        BY Zenon, <1>5 DEF Changed, Fields
    <2> HIDE DEF x
    <2>3. Changed(r, x, StreamFields)
        BY <1>4, <2>2 DEF Changed, StreamFields, Fields
    <2>4. r.ncalls < MaxBatch
        BY Zenon, <1>2, <1>8 DEF PendOK
    <2>5. x.ncalls \in Nat /\ x.ncalls <= MaxBatch
        BY <1>2, <1>3, <1>5, <2>2, <2>4
    <2> QED
        BY Zenon, <1>2, <1>5, <1>6, <2>1, <2>2, <2>3, <2>5
<1>9. CASE ev.kind = "stop"
    <2> DEFINE x == [q EXCEPT !.terminal = TRUE, !.said = ev.stop]
    <2>1. c = x
        BY Zenon, <1>9 DEF Consumed, q
    <2>2. Changed(q, x, {"terminal", "said"}) /\ x.pc = q.pc /\ x.summary = q.summary /\ x.usage = q.usage
          /\ x.ncalls = q.ncalls
        BY Zenon, <1>5 DEF Changed, Fields
    <2> HIDE DEF x
    <2>3. Changed(r, x, StreamFields)
        BY ZenonT(40), <1>4, <2>2 DEF Changed, StreamFields, Fields
    <2> QED
        BY Zenon, <1>2, <1>5, <1>6, <2>1, <2>2, <2>3
<1>10. CASE ev.kind = "error"
    <2> DEFINE x == [q EXCEPT !.terminal = TRUE, !.modelErr = TRUE]
    <2>1. c = x
        BY Zenon, <1>10 DEF Consumed, q
    <2>2. Changed(q, x, {"terminal", "modelErr"}) /\ x.pc = q.pc /\ x.summary = q.summary /\ x.usage = q.usage
          /\ x.ncalls = q.ncalls
        BY Zenon, <1>5 DEF Changed, Fields
    <2> HIDE DEF x
    <2>3. Changed(r, x, StreamFields)
        BY ZenonT(40), <1>4, <2>2 DEF Changed, StreamFields, Fields
    <2> QED
        BY Zenon, <1>2, <1>5, <1>6, <2>1, <2>2, <2>3
<1>11. CASE ev.kind = "usage"
    <2> DEFINE total == Plus(r.usage, ev.usage)
               x == [q EXCEPT !.usage = total]
               f == Fail(r)
               y == [f EXCEPT !.usage = total]
    <2>1. c = IF Within(total, MaxSpend) THEN x ELSE y
        BY Zenon, <1>11 DEF Consumed, q
    <2>2. total \in Amounts
        BY Zenon, <1>2, <1>11, PlusAmount DEF PendOK
    <2> HIDE DEF total
    <2>3. Changed(q, x, {"usage"}) /\ x.pc = q.pc /\ x.summary = q.summary /\ x.usage = total /\ x.ncalls = q.ncalls
        BY Zenon, <1>5 DEF Changed, Fields
    <2> HIDE DEF x
    <2>4. Changed(r, x, StreamFields)
        BY <1>4, <2>3 DEF Changed, StreamFields, Fields
    <2>5. GoodNext(r, p, x) /\ x.pc # "checkpoint"
        BY Zenon, <1>2, <1>5, <1>6, <2>2, <2>3, <2>4
    <2>6. Typed(f) /\ f.pc = "close" /\ SameAbs(r, f) /\ f.loopSeq = r.loopSeq /\ f.seq = r.seq
        BY Zenon, <1>1, FreshTyped, FailGood DEF GoodNext, Quiet, Follows
    <2> HIDE DEF f
    <2>7. Typed(y)
        BY ZenonT(40), <2>2, <2>6 DEF Typed, Fields
    <2>8. y.pc = f.pc /\ SameAbs(f, y) /\ y.loopSeq = f.loopSeq /\ y.seq = f.seq
        BY Zenon, <2>6 DEF Typed, Fields, SameAbs
    <2> HIDE DEF y
    <2>9. GoodNext(r, p, y) /\ y.pc # "checkpoint"
        BY Zenon, <2>6, <2>7, <2>8, CloseGood DEF SameAbs
    <2> QED
        BY Zenon, <2>1, <2>5, <2>9
<1> QED
    BY Zenon, <1>2, <1>7, <1>8, <1>9, <1>10, <1>11 DEF PendOK

LEMMA EmitEventStep ==
    ASSUME EngineRunInv, NEW e \in Engines, EmitEvent(e)
    PROVE EngineRunInv' /\ AbsNext
<1> DEFINE r == run[e]
<1>1. r.pc = "emit" /\ r.pc \notin {"idle", "loaded"} /\ ~Over(r) /\ Emittable(r, "model")
    BY Zenon DEF EmitEvent, Over, Emittable, Routed, Streaming
<1>2. LocalInv(r, plan[e])
    BY Zenon, EngineFacts
<1>3. CASE Abort(e)
    BY Zenon, <1>1, <1>3, AbortStep
<1>4. CASE Emit(e, "model", Consumed(r)) /\ UNCHANGED unplaced
    <2>1. Write(e, <<LoopRecord(r, "model")>>, FALSE, Emitted(Consumed(r)), [Fail(r) EXCEPT !.emitting = FALSE])
        BY Zenon, <1>4 DEF Emit, Emitted
    <2> QED
        BY Zenon, <1>1, <1>2, <1>4, <2>1, ConsumedGood, FailGood, GoodLoop
<1> QED
    BY Zenon, <1>3, <1>4 DEF EmitEvent

LEMMA TakeSummaryStep ==
    ASSUME EngineRunInv, NEW e \in Engines, TakeSummary(e)
    PROVE EngineRunInv' /\ AbsNext
<1> DEFINE r == run[e]
           q == [r EXCEPT !.pc = "recv"]
<1>1. r.pc = "emit" /\ r.pc \notin {"idle", "loaded"} /\ ~Over(r) /\ Streaming(r)
    BY Zenon DEF TakeSummary, Over, Streaming
<1>2. LocalInv(r, plan[e]) /\ DOMAIN r = Fields /\ Typed(r) /\ Counts(r)
    BY Zenon, EngineFacts DEF LocalInv
<1>3. r.summary \in Amounts /\ r.usage \in Amounts /\ r.ncalls \in Nat /\ r.ncalls <= MaxBatch /\ PendOK(r)
    BY Zenon, <1>1, <1>2 DEF Typed, Counts, PendOK
<1>4. Changed(r, q, {"pc"}) /\ DOMAIN q = Fields /\ q.pc = "recv" /\ q.summary = r.summary /\ q.usage = r.usage
      /\ q.ncalls = r.ncalls
    BY Zenon, <1>2 DEF Changed, Fields
<1>5. \/ Abort(e)
      \/ Local(e, [q EXCEPT !.text = TRUE]) /\ UNCHANGED unplaced
      \/ Local(e, [q EXCEPT !.terminal = TRUE]) /\ UNCHANGED unplaced
      \/ r.pend.kind = "usage" /\ Local(e, [q EXCEPT !.summary = Plus(@, r.pend.usage)]) /\ UNCHANGED unplaced
    BY Zenon DEF TakeSummary
<1> HIDE DEF q
<1>6. ASSUME NEW x, Local(e, x), UNCHANGED unplaced, Changed(q, x, {"text", "terminal", "summary"}),
             x.summary \in Amounts
      PROVE EngineRunInv' /\ AbsNext
    <2>1. Changed(r, x, StreamFields)
        BY <1>4, <1>6 DEF Changed, StreamFields, Fields
    <2>2. x.pc = "recv" /\ x.usage = r.usage /\ x.ncalls = r.ncalls
        BY Zenon, <1>4, <1>6 DEF Changed, Fields
    <2>3. Streaming(x)
        BY Zenon, <2>2 DEF Streaming
    <2>4. GoodNext(r, plan[e], x)
        BY Zenon, <1>1, <1>2, <1>3, <1>6, <2>1, <2>2, <2>3, StreamGood
    <2> QED
        BY Zenon, <1>1, <1>6, <2>2, <2>4, GoodLocal
<1>7. CASE Abort(e)
    BY Zenon, <1>1, <1>7, AbortStep
<1>8. CASE Local(e, [q EXCEPT !.text = TRUE]) /\ UNCHANGED unplaced
    <2> DEFINE x == [q EXCEPT !.text = TRUE]
    <2>1. Changed(q, x, {"text", "terminal", "summary"}) /\ x.summary = q.summary
        BY Zenon, <1>4 DEF Changed, Fields
    <2> QED
        BY Zenon, <1>3, <1>4, <1>6, <1>8, <2>1
<1>9. CASE Local(e, [q EXCEPT !.terminal = TRUE]) /\ UNCHANGED unplaced
    <2> DEFINE x == [q EXCEPT !.terminal = TRUE]
    <2>1. Changed(q, x, {"text", "terminal", "summary"}) /\ x.summary = q.summary
        BY Zenon, <1>4 DEF Changed, Fields
    <2> QED
        BY Zenon, <1>3, <1>4, <1>6, <1>9, <2>1
<1>10. CASE r.pend.kind = "usage" /\ Local(e, [q EXCEPT !.summary = Plus(@, r.pend.usage)]) /\ UNCHANGED unplaced
    <2> DEFINE x == [q EXCEPT !.summary = Plus(@, r.pend.usage)]
    <2>1. Changed(q, x, {"text", "terminal", "summary"}) /\ x.summary = Plus(q.summary, r.pend.usage)
        BY Zenon, <1>4 DEF Changed, Fields
    <2>2. x.summary \in Amounts
        BY Zenon, <1>3, <1>4, <1>10, <2>1, PlusAmount DEF PendOK
    <2> QED
        BY Zenon, <1>6, <1>10, <2>1, <2>2
<1> QED
    BY Zenon, <1>5, <1>7, <1>8, <1>9, <1>10

(* What follows the assistant message.                                     *)
LEMMA AfterResponseGood ==
    ASSUME NEW r, NEW p, LocalInv(r, p), r.pc = "message"
    PROVE GoodNext(r, p, AfterResponse(r)) /\ AfterResponse(r).pc # "checkpoint"
<1> DEFINE q == [r EXCEPT !.stop = r.said]
           x == [q EXCEPT !.tc = @ + r.ncalls, !.pc = "tool_start", !.idx = 1]
<1>1. Streaming(r) /\ DOMAIN r = Fields /\ Typed(r) /\ Counts(r) /\ Shape(r, p)
    BY Zenon DEF Streaming, LocalInv, Typed
<1>2. Changed(r, q, {"stop"}) /\ q.stop = r.said
    BY Zenon, <1>1 DEF Changed, Fields
<1>3. Changed(r, x, {"stop", "tc", "pc", "idx"}) /\ x.stop = r.said /\ x.tc = r.tc + r.ncalls /\ x.pc = "tool_start" /\ x.idx = 1
    BY Zenon, <1>1 DEF Changed, Fields
<1>4. AfterResponse(r) = IF r.modelErr THEN Fail(r)
                         ELSE IF r.said # "tool_use" THEN Return(q)
                         ELSE IF r.ncalls = 0 \/ r.tc + r.ncalls > MaxToolCalls THEN Fail(q)
                         ELSE x
    BY Zenon DEF AfterResponse
<1> HIDE DEF q, x
<1>5. GoodNext(r, p, Fail(r)) /\ Fail(r).pc # "checkpoint"
    BY Zenon, FailGood
<1>6. ASSUME NEW y, y = Return(q) \/ y = Fail(q)
      PROVE GoodNext(r, p, y) /\ y.pc # "checkpoint"
    <2>1. /\ DOMAIN q = Fields /\ q.seq = r.seq /\ q.turn = r.turn /\ q.mc = r.mc /\ q.tc = r.tc /\ q.usage = r.usage
          /\ q.extra = r.extra /\ q.compaction = r.compaction /\ q.reserved = r.reserved /\ q.loopSeq = r.loopSeq
          /\ q.purpose = r.purpose /\ q.last = r.last /\ q.bound = r.bound /\ q.used = r.used /\ q.elig = r.elig
          /\ q.sel = r.sel /\ q.summary = r.summary /\ q.ncalls = r.ncalls /\ q.idx = r.idx /\ q.tool = r.tool
        BY ZenonT(40), <1>2 DEF Changed, Fields
    <2>2. Typed(q)
        BY Zenon, <1>1, <2>1 DEF Typed
    <2>3. Typed(y)
        BY Zenon, <1>6, <2>2, FreshTyped
    <2>4. Returned(q, y)
        BY Zenon, <1>6, <2>1, ReturnFields
    <2>5. y.pc = "close" /\ SameAbs(r, y) /\ y.loopSeq = r.loopSeq /\ y.seq = r.seq
        BY Zenon, <2>1, <2>4 DEF Returned, SameAbs
    <2> QED
        BY Zenon, <2>3, <2>5, CloseGood
<1>7. ASSUME ~r.modelErr, r.said = "tool_use", ~(r.ncalls = 0 \/ r.tc + r.ncalls > MaxToolCalls)
      PROVE GoodNext(r, p, x) /\ x.pc # "checkpoint"
    <2>1. /\ DOMAIN x = Fields /\ x.seq = r.seq /\ x.turn = r.turn /\ x.mc = r.mc /\ x.usage = r.usage
          /\ x.extra = r.extra /\ x.compaction = r.compaction /\ x.reserved = r.reserved /\ x.loopSeq = r.loopSeq
          /\ x.purpose = r.purpose /\ x.last = r.last /\ x.bound = r.bound /\ x.used = r.used /\ x.elig = r.elig
          /\ x.sel = r.sel /\ x.summary = r.summary /\ x.ncalls = r.ncalls /\ x.tool = r.tool
        BY ZenonT(40), <1>3 DEF Changed, Fields
    <2>2. r.tc \in Nat /\ r.ncalls \in Nat
        BY Zenon, <1>1 DEF Typed
    <2>3. x.tc \in Nat /\ x.tc # 0 /\ x.idx \in Nat /\ x.idx # 0 /\ x.idx <= r.ncalls
        BY <1>3, <1>7, <2>2
    <2>4. /\ InTurn(r) /\ Routed(r) /\ InTurn(x) /\ Routed(x) /\ ~Placing(x) /\ ~Streaming(x)
          /\ x.pc \notin Before \cup Batch \cup CallDue \cup {"cleanup", "message", "compact", "tools", "call", "start"}
        BY Zenon, <1>1, <1>3 DEF Placing, Streaming, InTurn, Routed, CallDue, Before, Batch
    <2>5. Typed(x)
        BY Zenon, <1>1, <2>1, <2>3 DEF Typed
    <2>6. Counts(x)
        BY Zenon, <1>1, <1>3, <1>7, <2>1, <2>3, <2>4 DEF Counts
    <2>7. CallPlan(r, p, "performed") /\ r.purpose # "summary"
        BY Zenon, <1>1 DEF Shape, Counts
    <2>8. \A i \in 1..MaxBatch : ~(i < 1)
        BY EngineAssumption
    <2>9. Shape(x, p)
        BY Zenon, <1>3, <2>4, <2>7, <2>8 DEF Shape, CallPlan, Untouched
    <2>10. Quiet(r, p, x)
        BY Zenon, <1>3, <2>1 DEF Quiet, PhaseOf, SameAbs
    <2> QED
        BY Zenon, <1>3, <2>1, <2>4, <2>5, <2>6, <2>9, <2>10 DEF GoodNext, LocalInv, Follows
<1> QED
    BY Zenon, <1>4, <1>5, <1>6, <1>7

LEMMA AppendMessageStep ==
    ASSUME EngineRunInv, NEW e \in Engines, AppendMessage(e)
    PROVE EngineRunInv' /\ AbsNext
<1> DEFINE r == run[e]
<1>1. r.pc = "message" /\ r.pc \notin {"idle", "loaded"} /\ ~Over(r) /\ Emittable(r, "message")
    BY Zenon DEF AppendMessage, Over, Emittable, Routed, Streaming
<1>2. LocalInv(r, plan[e])
    BY Zenon, EngineFacts
<1>3. CASE Abort(e)
    BY Zenon, <1>1, <1>3, AbortStep
<1>4. CASE Emit(e, "message", AfterResponse(r)) /\ UNCHANGED unplaced
    <2>1. Write(e, <<LoopRecord(r, "message")>>, FALSE, Emitted(AfterResponse(r)), [Fail(r) EXCEPT !.emitting = FALSE])
        BY Zenon, <1>4 DEF Emit, Emitted
    <2> QED
        BY Zenon, <1>1, <1>2, <1>4, <2>1, AfterResponseGood, FailGood, GoodLoop
<1>5. CASE Local(e, AfterResponse(r)) /\ UNCHANGED unplaced
    BY Zenon, <1>1, <1>2, <1>5, AfterResponseGood, GoodLocal
<1> QED
    BY Zenon, <1>3, <1>4, <1>5 DEF AppendMessage

(* The compaction record of the engine is the one of DurableExecution.     *)
Compacts(e, ack, r, p) ==
    /\ run' = [run EXCEPT ![e] = r] /\ plan' = [plan EXCEPT ![e] = p] /\ UNCHANGED world
    /\ e \in AbsHolds /\ AbsHolds' = IF ack THEN {e} ELSE {}
    /\ PhaseOf(run[e], plan[e]) = "busy"
    /\ PhaseOf(r, p) = IF ack THEN "busy" ELSE "closing"
    /\ p = IF ack THEN [plan[e] EXCEPT ![Summary] = "recorded"] ELSE plan[e]
    /\ plan[e][Summary] = "performed"
    /\ proj.workload = "running" /\ proj'.workload = "running" /\ proj'.resume.ckpt.turn = 0
    /\ proj'.resume.reserved = proj.resume.reserved /\ proj'.resume.extra = proj.resume.extra + 1
    /\ SameAbs(run[e], r)

LEMMA AbsCompact ==
    ASSUME EngineRunInv, NEW e \in Engines, NEW ack \in BOOLEAN, NEW r, NEW p, Compacts(e, ack, r, p)
    PROVE AbsNext
<1>1. AbsMoves(e, r, p)
    BY Zenon, FrameAbs DEF Compacts
<1>2. AbsTurn = [f \in Engines |-> AbsTurn[f]]
      /\ AbsMine = [f \in Engines |-> AbsMine[f]] /\ AbsExtra = [f \in Engines |-> AbsExtra[f]]
      /\ AbsRoom = [f \in Engines |-> AbsRoom[f]]
    BY Zenon DEF AbsTurn, AbsMine, AbsExtra, AbsRoom
<1>3. AbsTurn' = AbsTurn /\ AbsMine' = AbsMine /\ AbsExtra' = AbsExtra /\ AbsRoom' = AbsRoom
    BY Zenon, <1>1, <1>2 DEF AbsMoves, Compacts, SameAbs
<1>4. AbsPc' = [AbsPc EXCEPT ![e] = IF ack THEN "busy" ELSE "closing"] /\ AbsPc[e] = "busy"
    BY Zenon, <1>1 DEF AbsMoves, Compacts
<1>5. WorkloadPhase' = WorkloadPhase /\ AbsCkpt' = 0
    BY Zenon DEF WorkloadPhase, AbsCkpt, Compacts
<1>6. plan' = [plan EXCEPT ![e][Summary] = IF ack THEN "recorded" ELSE @]
    BY Zenon DEF Compacts, EngineRunInv
<1>7. D!Summary = Summary
    BY Zenon DEF D!Summary, Summary
<1>8. D!Append(e, ack) /\ D!After(e, ack, "busy", "closing") /\ UNCHANGED D!world
    BY Zenon, <1>4 DEF D!Append, D!After, D!world, world, Compacts
<1>9. D!Compact(e, ack)
    BY Zenon, <1>3, <1>4, <1>5, <1>6, <1>7, <1>8
       DEF D!Compact, Compacts
<1> QED
    BY Zenon, <1>9 DEF AbsNext, D!Next

LEMMA ApplyCompaction ==
    ASSUME NEW q, StreamInv(q), q.workload = "running",
           NEW ev, ev.type = "execution", ev.stage = "compaction", ev.last >= 1, ev.last < q.version + 1,
           NEW s, s = Apply(q, ev)
    PROVE /\ Summed(q, s) /\ s.resume.reserved = q.resume.reserved
          /\ s.resume.extra = q.resume.extra + 1 /\ s.resume.usage = Plus(q.resume.usage, ev.usage)
<1>1. DOMAIN q = PFields /\ q.valid = TRUE /\ q.step = "running" /\ q.finished = FALSE
      /\ DOMAIN q.resume = {"ckpt", "reserved", "extra", "usage"}
    BY Zenon DEF StreamInv
<1>2. Accepts(q, ev)
    BY Zenon, <1>1 DEF Accepts, AcceptsExecution
<1>3. Apply(q, ev) = [Effect(q, ev) EXCEPT !.version = @ + 1]
    BY Zenon, <1>1, <1>2, AcceptedCounts
<1>4. Effect(q, ev) = ApplyExecution(q, ev)
    BY Zenon DEF Effect
<1> DEFINE u == [q.resume EXCEPT !.ckpt = NoCheckpoint, !.extra = @ + 1, !.usage = Plus(@, ev.usage)]
           t == [q EXCEPT !.resume = u]
<1>5. Scan(q.resume, ev) = u
    BY Zenon DEF Scan
<1>6. ApplyExecution(q, ev) = t
    BY Zenon, <1>5 DEF ApplyExecution
<1>7. /\ DOMAIN u = {"ckpt", "reserved", "extra", "usage"} /\ u.ckpt = NoCheckpoint
      /\ u.reserved = q.resume.reserved /\ u.extra = q.resume.extra + 1 /\ u.usage = Plus(q.resume.usage, ev.usage)
    BY Zenon, <1>1
<1> HIDE DEF u
<1>8. DOMAIN t = PFields /\ t.resume = u /\ \A f \in PFields \ {"resume"} : t[f] = q[f]
    BY Zenon, <1>1 DEF PFields
<1> HIDE DEF t
<1>9. s = [t EXCEPT !.version = @ + 1]
    BY Zenon, <1>3, <1>4, <1>6
<1> QED
    BY <1>1, <1>7, <1>8, <1>9 DEF PFields, Summed

LEMMA CompactHistoryStep ==
    ASSUME EngineRunInv, NEW e \in Engines, CompactHistory(e)
    PROVE EngineRunInv' /\ AbsNext
<1> DEFINE r == run[e]
           p == plan[e]
           x == [Place(r, "turn") EXCEPT !.compaction = Plus(@, r.summary)]
           ev == CompactionRecord(r)
           next == [p EXCEPT ![Summary] = "recorded"]
           s == Apply(proj, ev)
<1>1. r.pc = "compact" /\ r.pc \notin {"idle", "loaded"} /\ ~Over(r) /\ Streaming(r) /\ InTurn(r) /\ Routed(r)
    BY Zenon DEF CompactHistory, Over, Streaming, InTurn, Routed
<1>2. LocalInv(r, p) /\ DOMAIN r = Fields /\ Typed(r) /\ Counts(r) /\ StreamInv(proj) /\ EngineInv(r, p, proj)
      /\ p \in [Effects -> PlanStates]
    BY Zenon, EngineFacts DEF LocalInv
<1>3. CASE Abort(e)
    BY Zenon, <1>1, <1>3, AbortStep
<1>4. ASSUME Write(e, <<ev>>, FALSE, x, Fail(r)), Planned(e, next), UNCHANGED <<world, resumes>>
      PROVE EngineRunInv' /\ AbsNext
    <2>1. /\ Changed(r, x, {"pc", "purpose", "cand", "elig", "sel", "compaction"}) /\ x.pc = "policy"
          /\ x.purpose = "turn" /\ x.elig = 1..NC /\ x.compaction = Plus(r.compaction, r.summary)
        BY Zenon, <1>2 DEF Place, Changed, Fields
    <2>2. ev.type = "execution" /\ ev.stage = "compaction" /\ ev.turn = r.turn /\ ev.last = r.last /\ ev.usage = r.summary
        BY Zenon DEF CompactionRecord
    <2>3. /\ next \in [Effects -> PlanStates] /\ next[Summary] = "recorded" /\ Summary \in Effects /\ Model \in Effects
          /\ (\A j \in Effects \ {Summary} : next[j] = p[j]) /\ Summary # Model
        BY Zenon, <1>2, EffectKinds DEF PlanStates
    <2>4. next = [plan[e] EXCEPT ![Summary] = "recorded"]
        BY Zenon
    <2> HIDE DEF x, ev, next
    <2>5. /\ DOMAIN x = Fields /\ x.seq = r.seq /\ x.turn = r.turn /\ x.mc = r.mc /\ x.tc = r.tc /\ x.usage = r.usage
          /\ x.extra = r.extra /\ x.reserved = r.reserved /\ x.loopSeq = r.loopSeq
          /\ x.last = r.last /\ x.bound = r.bound /\ x.used = r.used
          /\ x.summary = r.summary /\ x.ncalls = r.ncalls /\ x.idx = r.idx /\ x.tool = r.tool
        BY <2>1 DEF Changed, Fields
    <2>6. r.purpose = "summary" /\ r.summary \in Amounts /\ r.compaction \in Amounts /\ r.last # 0 /\ r.last <= r.seq
          /\ r.last \in Nat /\ r.seq \in Nat
        BY Zenon, <1>1, <1>2 DEF Counts, Typed
    <2>7. CallPlan(r, p, "performed")
        BY Zenon, <1>1, <1>2 DEF LocalInv, Shape
    <2>8. CallPlan(x, next, "none")
        <3>1. Untouched(next)
            BY Zenon, <2>3, <2>7, EffectKinds DEF CallPlan, Untouched
        <3> QED
            BY Zenon, <2>1, <2>3, <2>6, <2>7, <3>1 DEF CallPlan, Settled
    <2>9. LocalInv(x, next)
        <3>1. /\ InTurn(x) /\ ~Routed(x) /\ Placing(x) /\ ~Streaming(x)
              /\ x.pc \notin Before \cup Batch \cup CallDue \cup {"tool_start", "cleanup", "message", "compact", "tools", "call"}
            BY Zenon, <2>1 DEF Placing, Streaming, InTurn, Routed, CallDue, Before, Batch
        <3>2. x.compaction \in Amounts /\ x.elig \subseteq 1..NC /\ x.purpose # "summary"
            BY Zenon, <2>1, <2>6, PlusAmount
        <3>3. Typed(x)
            BY Zenon, <1>2, <2>5, <3>2 DEF Typed
        <3>4. Counts(x)
            BY Zenon, <1>1, <1>2, <2>5, <2>6, <3>1, <3>2 DEF Counts, CallDue
        <3>5. Shape(x, next)
            BY Zenon, <2>8, <3>1 DEF Shape
        <3> QED
            BY Zenon, <3>3, <3>4, <3>5 DEF LocalInv
    <2>10. GoodNext(r, p, Fail(r)) /\ Fail(r).pc = "close"
        BY Zenon, <1>2, FailGood
    <2>11. ASSUME r.seq = proj.version
           PROVE /\ StreamInv(s) /\ s.version = proj.version + 1 /\ s.workload = "running" /\ proj.workload = "running"
                 /\ s.resume.ckpt.turn = 0 /\ s.resume.reserved = proj.resume.reserved
                 /\ s.resume.extra = proj.resume.extra + 1
                 /\ EngineInv(Acked(x, 1), next, s) /\ Acked(x, 1).pc = x.pc /\ SameAbs(x, Acked(x, 1))
        <3>1. proj.workload = "running" /\ Knows(r, proj) /\ proj.resume.reserved = r.reserved
            BY Zenon, <1>1, <1>2, <2>11 DEF EngineInv, Knows
        <3>2. ev.last >= 1 /\ ev.last < proj.version + 1 /\ ev.usage \in Amounts
            BY <2>2, <2>6, <2>11
        <3>3. Summed(proj, s) /\ s.resume.reserved = proj.resume.reserved
              /\ s.resume.extra = proj.resume.extra + 1 /\ s.resume.usage = Plus(proj.resume.usage, ev.usage)
            BY <1>2, <2>2, <3>1, <3>2, ApplyCompaction
        <3> HIDE DEF s
        <3>4. StreamInv(s)
            <4>1. /\ s.resume.reserved \in Amounts /\ Within(s.resume.reserved, MaxSpend)
                  /\ s.resume.extra \in Nat /\ proj.resume.usage \in Amounts
                BY SMTT(40), <1>2, <3>1, <3>3 DEF StreamInv
            <4>2. s.resume.usage \in Amounts
                BY Zenon, <3>2, <3>3, <4>1, PlusAmount
            <4> QED
                BY Zenon, <1>2, <3>1, <3>3, <4>1, <4>2, SummedKeepsStream
        <3>5. /\ s.version = proj.version + 1 /\ s.workload = "running" /\ s.loopSeq = proj.loopSeq
              /\ s.loopType = proj.loopType /\ s.routing = proj.routing /\ s.resume.ckpt.turn = 0
            BY <3>3 DEF Summed, NoCheckpoint
        <3>6. ~Routed(x) /\ x.pc # "checkpoint" /\ x.pc # "idle"
            BY Zenon, <2>1 DEF Routed, Streaming, CallDue, Batch
        <3>7. Heard(x, s)
            BY Zenon, <1>1, <2>5, <2>11, <3>1, <3>3, <3>5, <3>6 DEF Heard, Knows
        <3> QED
            BY <1>2, <2>5, <2>9, <2>11, <3>1, <3>3, <3>4, <3>5, <3>6, <3>7, AckedInv
    <2>12. x.pc # "idle" /\ SameAbs(r, x)
        BY Zenon, <2>1, <2>5 DEF SameAbs
    <2>13. /\ EngineRunInv' /\ (AbsNext \/ Told(e, ev, x, next) \/ Untold(e, ev, Fail(r)))
           /\ r.seq = proj.version => e \in AbsHolds /\ proj.workload = "running"
        BY Zenon, <1>1, <1>4, <2>3, <2>5, <2>10, <2>11, <2>12, PlannedWrite
    <2>14. p[Summary] = "performed"
        BY Zenon, <2>6, <2>7 DEF CallPlan
    <2>15. PhaseOf(r, p) = "busy"
        BY Zenon, <1>1, <2>14, NoPlanValues DEF PhaseOf
    <2>16. CASE Told(e, ev, x, next)
        <3> DEFINE y == Acked(x, 1)
        <3>1. /\ r.seq = proj.version /\ proj' = s /\ run' = [run EXCEPT ![e] = y]
              /\ plan' = [plan EXCEPT ![e] = next] /\ AbsHolds' = {e}
            BY Zenon, <2>16 DEF Told
        <3>2. y.pc = x.pc /\ SameAbs(x, y)
            BY Zenon, <2>11, <3>1
        <3> HIDE DEF y
        <3>3. PhaseOf(y, next) = "busy"
            BY Zenon, <2>1, <2>3, <3>2, NoPlanValues DEF PhaseOf
        <3>4. Compacts(e, TRUE, y, next)
            BY Zenon, <1>4, <2>4, <2>11, <2>12, <2>13, <2>14, <2>15, <3>1, <3>2, <3>3 DEF Compacts, SameAbs
        <3> QED
            BY Zenon, <2>13, <3>4, AbsCompact
    <2>17. CASE Untold(e, ev, Fail(r))
        <3>1. PICK y : Alike(Fail(r), y) /\ run' = [run EXCEPT ![e] = y]
            BY Zenon, <2>17 DEF Untold
        <3>2. /\ r.seq = proj.version /\ proj' = s /\ plan' = [plan EXCEPT ![e] = plan[e]] /\ AbsHolds' = {}
            BY Zenon, <2>17 DEF Untold
        <3>3. /\ y.pc = Fail(r).pc /\ y.turn = Fail(r).turn /\ y.extra = Fail(r).extra /\ y.reserved = Fail(r).reserved
              /\ y.bound = Fail(r).bound /\ y.used = Fail(r).used
            BY Zenon, <3>1 DEF Alike, Fields
        <3>4. y.pc = "close" /\ SameAbs(r, y)
            BY Zenon, <2>10, <3>3 DEF GoodNext, Quiet, SameAbs
        <3>5. PhaseOf(y, p) = "closing"
            BY Zenon, <3>4 DEF PhaseOf
        <3>6. Compacts(e, FALSE, y, p)
            BY Zenon, <1>4, <2>11, <2>13, <2>14, <2>15, <3>1, <3>2, <3>4, <3>5 DEF Compacts
        <3> QED
            BY Zenon, <2>13, <3>6, AbsCompact
    <2> QED
        BY Zenon, <2>13, <2>16, <2>17
<1> QED
    BY Zenon, <1>3, <1>4 DEF CompactHistory

-----------------------------------------------------------------------------
(* The actions of ToolBatch.                                               *)

BatchFields == {"pc", "idx", "nres", "batchErr", "parallel", "tool", "cause"}

(* Where the goroutine of a call is before the call has happened.          *)
Waiting == {"ready", "prepare", "policy", "approve", "grant", "execute"}

LEMMA BatchLocal ==
    ASSUME NEW r, NEW p, LocalInv(r, p), r.pc \in Batch, NEW x, Changed(r, x, BatchFields), x.pc \in Batch,
           x.idx \in Nat, DOMAIN x.tool = 1..MaxBatch, NEW next, next[Model] = p[Model], next[Summary] = p[Summary],
           x.pc = "tools" => \A i \in 1..MaxBatch : i <= r.ncalls /\ x.tool[i] \in Waiting => next[Tool(i)] = "intended"
    PROVE LocalInv(x, next) /\ Follows(r, x) /\ SameAbs(r, x)
<1>1. /\ InTurn(r) /\ InTurn(x) /\ Routed(r) /\ Routed(x) /\ ~Placing(x) /\ ~Streaming(x)
      /\ x.pc \notin Before \cup CallDue \cup {"tool_start", "cleanup", "call", "message", "compact"}
    BY Zenon DEF Placing, Streaming, InTurn, Routed, CallDue, Before, Batch
<1>2. Counts(r) /\ Shape(r, p) /\ Typed(r)
    BY Zenon DEF LocalInv
<1>3. /\ DOMAIN x = Fields /\ x.seq = r.seq /\ x.turn = r.turn /\ x.mc = r.mc /\ x.tc = r.tc /\ x.usage = r.usage
      /\ x.extra = r.extra /\ x.compaction = r.compaction /\ x.reserved = r.reserved /\ x.loopSeq = r.loopSeq
      /\ x.purpose = r.purpose /\ x.last = r.last /\ x.bound = r.bound /\ x.used = r.used /\ x.stop = r.stop
      /\ x.elig = r.elig /\ x.sel = r.sel /\ x.summary = r.summary /\ x.ncalls = r.ncalls
    BY DEF Changed, BatchFields, Fields
<1>4. Typed(x)
    BY Zenon, <1>2, <1>3 DEF Typed
<1>5. Counts(x)
    BY Zenon, <1>1, <1>2, <1>3 DEF Counts
<1>6. Shape(x, next)
    BY Zenon, <1>1, <1>2, <1>3 DEF Shape, Settled, Waiting
<1> QED
    BY Zenon, <1>1, <1>3, <1>4, <1>5, <1>6 DEF LocalInv, Follows, SameAbs

LEMMA BatchGood ==
    ASSUME NEW r, NEW p, LocalInv(r, p), r.pc \in Batch, NEW x, Changed(r, x, BatchFields), x.pc \in Batch,
           x.idx \in Nat, DOMAIN x.tool = 1..MaxBatch,
           x.pc = "tools" => \A i \in 1..MaxBatch : i <= r.ncalls /\ x.tool[i] \in Waiting => p[Tool(i)] = "intended"
    PROVE GoodNext(r, p, x)
<1>1. LocalInv(x, p) /\ Follows(r, x) /\ SameAbs(r, x)
    BY Zenon, BatchLocal
<1>2. Quiet(r, p, x)
    BY Zenon, <1>1 DEF Quiet, PhaseOf, Batch
<1> QED
    BY Zenon, <1>1, <1>2 DEF GoodNext

(* The goroutine of one call moves, or gives up and stops the run.         *)
MoveFields == {"tool", "cause"}

Moved(r, i, position, x) ==
    /\ Changed(r, x, MoveFields) /\ DOMAIN x.tool = DOMAIN r.tool /\ x.tool[i] = position
    /\ \A j \in DOMAIN r.tool : j # i => x.tool[j] = r.tool[j]

LEMMA MovedFields ==
    ASSUME NEW r, Typed(r), NEW i \in 1..MaxBatch, NEW position
    PROVE Moved(r, i, position, Move(r, i, position)) /\ Moved(r, i, "done", StopRun(r, i))
          /\ Moved(r, i, "done", Done(r, i))
<1> DEFINE x == Move(r, i, position)
           y == Move(r, i, "done")
           z == StopRun(r, i)
<1>1. DOMAIN r = Fields /\ DOMAIN r.tool = 1..MaxBatch
    BY Zenon DEF Typed
<1>2. Moved(r, i, position, x)
    BY Zenon, <1>1 DEF Move, Moved, Changed, MoveFields, Fields
<1>3. Changed(r, y, {"tool"}) /\ Moved(r, i, "done", y)
    BY Zenon, <1>1 DEF Move, Moved, Changed, MoveFields, Fields
<1>4. z = [y EXCEPT !.cause = IF @ = "live" THEN "stop" ELSE @]
    BY Zenon DEF StopRun, Stopped, Done
<1> HIDE DEF x, y
<1>5. Changed(y, z, {"cause"})
    BY Zenon, <1>3, <1>4 DEF Changed, Fields
<1>6. z.tool = y.tool
    BY Zenon, <1>5 DEF Changed, Fields
<1> HIDE DEF z
<1>7. Changed(r, z, MoveFields)
    BY Zenon, <1>3, <1>5 DEF Changed, MoveFields, Fields
<1>8. Moved(r, i, "done", z)
    BY Zenon, <1>3, <1>6, <1>7 DEF Moved
<1> QED
    BY Zenon, <1>2, <1>3, <1>8 DEF x, y, z, Done

LEMMA MoveGood ==
    ASSUME NEW r, NEW p, LocalInv(r, p), r.pc = "tools", NEW i \in 1..MaxBatch, NEW position,
           position \in Waiting => r.tool[i] \in Waiting, NEW x, Moved(r, i, position, x)
    PROVE GoodNext(r, p, x) /\ x.pc = "tools"
<1>1. Changed(r, x, BatchFields) /\ x.pc = "tools" /\ x.idx = r.idx
    BY Zenon DEF Moved, Changed, BatchFields, MoveFields, Fields
<1>2. Typed(r) /\ Shape(r, p)
    BY Zenon DEF LocalInv
<1>3. DOMAIN x.tool = 1..MaxBatch /\ r.idx \in Nat /\ DOMAIN r.tool = 1..MaxBatch
    BY Zenon, <1>2 DEF Typed, Moved
<1>4. \A j \in 1..MaxBatch : j <= r.ncalls /\ x.tool[j] \in Waiting => p[Tool(j)] = "intended"
    <2> SUFFICES ASSUME NEW j \in 1..MaxBatch, j <= r.ncalls, x.tool[j] \in Waiting
                 PROVE p[Tool(j)] = "intended"
        BY Zenon
    <2>1. r.tool[j] \in Waiting
        BY Zenon, <1>3 DEF Moved
    <2> QED
        BY Zenon, <1>2, <2>1 DEF Shape, Waiting
<1> QED
    BY Zenon, <1>1, <1>3, <1>4, BatchGood DEF Batch

(* One step of one goroutine that writes nothing, or an audit record.      *)
LEMMA MoveLocal ==
    ASSUME EngineRunInv, NEW e \in Engines, run[e].pc = "tools", NEW i \in 1..MaxBatch, NEW position,
           position \in Waiting => run[e].tool[i] \in Waiting,
           NEW x, Moved(run[e], i, position, x), Local(e, x), UNCHANGED unplaced
    PROVE EngineRunInv' /\ AbsNext
<1>1. LocalInv(run[e], plan[e]) /\ ~Over(run[e])
    BY Zenon, EngineFacts DEF Over
<1>2. GoodNext(run[e], plan[e], x) /\ x.pc = "tools"
    BY Zenon, <1>1, MoveGood
<1> QED
    BY Zenon, <1>1, <1>2, GoodLocal

LEMMA MoveAudit ==
    ASSUME EngineRunInv, NEW e \in Engines, run[e].pc = "tools", NEW i \in 1..MaxBatch, NEW position,
           position \in Waiting => run[e].tool[i] \in Waiting,
           NEW x, Moved(run[e], i, position, x), NEW y, Moved(run[e], i, "done", y),
           NEW ev, ev.type = "execution", ev.stage \in AuditStages \ {"routing"}, NEW detached,
           Write(e, <<ev>>, detached, x, y), UNCHANGED unplaced
    PROVE EngineRunInv' /\ AbsNext
<1>1. LocalInv(run[e], plan[e]) /\ ~Over(run[e]) /\ "done" \notin Waiting
    BY Zenon, EngineFacts DEF Over, Waiting
<1>2. GoodNext(run[e], plan[e], x) /\ x.pc = "tools"
    BY Zenon, <1>1, MoveGood
<1>3. GoodNext(run[e], plan[e], y) /\ y.pc = "tools"
    BY Zenon, <1>1, MoveGood
<1> QED
    BY Zenon, <1>1, <1>2, <1>3, GoodAudit

LEMMA ToolFacts ==
    ASSUME EngineRunInv, NEW e \in Engines, NEW i, NEW position, At(e, i, position)
    PROVE run[e].pc = "tools" /\ run[e].tool[i] = position /\ Typed(run[e]) /\ i <= run[e].ncalls
BY Zenon, EngineFacts DEF At, LocalInv

LEMMA BeginToolStep ==
    ASSUME EngineRunInv, NEW e \in Engines, NEW i \in 1..MaxBatch, BeginTool(e, i)
    PROVE EngineRunInv' /\ AbsNext
<1>1. run[e].pc = "tools" /\ run[e].tool[i] \in Waiting /\ Typed(run[e])
    BY Zenon, ToolFacts DEF BeginTool, MayBegin, Waiting
<1>2. PICK position \in {"prepare", "done"} : Local(e, Move(run[e], i, position))
    BY Zenon DEF BeginTool
<1>3. UNCHANGED unplaced
    BY Zenon DEF BeginTool
<1> QED
    BY Zenon, <1>1, <1>2, <1>3, MovedFields, MoveLocal

LEMMA GiveUpStep ==
    ASSUME EngineRunInv, NEW e \in Engines, run[e].pc = "tools", NEW i \in 1..MaxBatch, GiveUp(e, i)
    PROVE EngineRunInv' /\ AbsNext
<1>1. Typed(run[e]) /\ "done" \notin Waiting
    BY Zenon, EngineFacts DEF LocalInv, Waiting
<1>2. Local(e, Done(run[e], i)) /\ UNCHANGED unplaced
    BY Zenon DEF GiveUp
<1> QED
    BY Zenon, <1>1, <1>2, MovedFields, MoveLocal

LEMMA SandboxRecord ==
    ASSUME NEW r, NEW ev, ev = Record("sandbox", r)
    PROVE ev.type = "execution" /\ ev.stage \in AuditStages \ {"routing"}
BY Zenon DEF Record, AuditStages

LEMMA PrepareToolStep ==
    ASSUME EngineRunInv, NEW e \in Engines, NEW i \in 1..MaxBatch, PrepareTool(e, i)
    PROVE EngineRunInv' /\ AbsNext
<1> DEFINE r == run[e]
<1>1. r.pc = "tools" /\ r.tool[i] \in Waiting /\ Typed(r) /\ UNCHANGED unplaced /\ "done" \notin Waiting
    BY Zenon, ToolFacts DEF PrepareTool, Waiting
<1>2. Moved(r, i, "policy", Move(r, i, "policy")) /\ Moved(r, i, "done", Done(r, i)) /\ Moved(r, i, "done", StopRun(r, i))
    BY Zenon, <1>1, MovedFields
<1>3. \/ Local(e, Move(r, i, "policy")) \/ Local(e, Done(r, i))
      \/ Write(e, <<Record("sandbox", r)>>, FALSE, Move(r, i, "policy"), StopRun(r, i))
      \/ Write(e, <<Record("sandbox", r)>>, FALSE, Done(r, i), StopRun(r, i))
    BY Zenon DEF PrepareTool
<1>4. CASE Local(e, Move(r, i, "policy"))
    BY Zenon, <1>1, <1>2, <1>4, MoveLocal
<1>5. CASE Local(e, Done(r, i))
    BY Zenon, <1>1, <1>2, <1>5, MoveLocal
<1>6. CASE Write(e, <<Record("sandbox", r)>>, FALSE, Move(r, i, "policy"), StopRun(r, i))
    BY Zenon, <1>1, <1>2, <1>6, SandboxRecord, MoveAudit
<1>7. CASE Write(e, <<Record("sandbox", r)>>, FALSE, Done(r, i), StopRun(r, i))
    BY Zenon, <1>1, <1>2, <1>7, SandboxRecord, MoveAudit
<1> QED
    BY Zenon, <1>3, <1>4, <1>5, <1>6, <1>7

LEMMA EvaluateToolStep ==
    ASSUME EngineRunInv, NEW e \in Engines, NEW i \in 1..MaxBatch, EvaluateTool(e, i)
    PROVE EngineRunInv' /\ AbsNext
<1> DEFINE r == run[e]
<1>1. r.pc = "tools" /\ r.tool[i] \in Waiting /\ Typed(r) /\ "done" \notin Waiting
    BY Zenon, ToolFacts DEF EvaluateTool, Waiting
<1>2. CASE GiveUp(e, i)
    BY Zenon, <1>1, <1>2, GiveUpStep
<1>3. ASSUME NEW v \in Verdicts, UNCHANGED unplaced,
             Write(e, <<PolicyRecord(r, <<"tool", i>>, v)>>, FALSE, AfterToolVerdict(r, i, v), StopRun(r, i))
      PROVE EngineRunInv' /\ AbsNext
    <2> DEFINE ev == PolicyRecord(r, <<"tool", i>>, v)
               ok == AfterToolVerdict(r, i, v)
    <2>1. ev.type = "execution" /\ ev.stage \in AuditStages \ {"routing"}
        BY PolicyRecordFields
    <2>2. \E position : Moved(r, i, position, ok)
        <3>1. v \in {"allow", "approve", "deny"}
            BY Zenon, EngineAssumption
        <3>2. ok = Move(r, i, "execute") \/ ok = Move(r, i, "approve") \/ ok = StopRun(r, i)
            BY Zenon, <3>1 DEF AfterToolVerdict
        <3> QED
            BY Zenon, <1>1, <3>2, MovedFields
    <2>3. Moved(r, i, "done", StopRun(r, i)) /\ Write(e, <<ev>>, FALSE, ok, StopRun(r, i))
        BY Zenon, <1>1, <1>3, MovedFields
    <2> HIDE DEF ev, ok
    <2> QED
        BY Zenon, <1>1, <1>3, <2>1, <2>2, <2>3, MoveAudit
<1> QED
    BY Zenon, <1>2, <1>3 DEF EvaluateTool

LEMMA ApproveToolStep ==
    ASSUME EngineRunInv, NEW e \in Engines, NEW i \in 1..MaxBatch, ApproveTool(e, i)
    PROVE EngineRunInv' /\ AbsNext
<1> DEFINE r == run[e]
<1>1. r.pc = "tools" /\ r.tool[i] \in Waiting /\ Typed(r) /\ "done" \notin Waiting /\ UNCHANGED unplaced
    BY Zenon, ToolFacts DEF ApproveTool, Waiting
<1>2. Moved(r, i, "grant", Move(r, i, "grant")) /\ Moved(r, i, "done", StopRun(r, i))
    BY Zenon, <1>1, MovedFields
<1>3. CASE Local(e, StopRun(r, i))
    BY Zenon, <1>1, <1>2, <1>3, MoveLocal
<1>4. ASSUME NEW granted,
             Write(e, <<ApprovalRecord(r, "tool", granted)>>, TRUE,
                   IF granted THEN Move(r, i, "grant") ELSE StopRun(r, i), StopRun(r, i))
      PROVE EngineRunInv' /\ AbsNext
    <2> DEFINE ev == ApprovalRecord(r, "tool", granted)
               ok == IF granted THEN Move(r, i, "grant") ELSE StopRun(r, i)
    <2>1. ev.type = "execution" /\ ev.stage \in AuditStages \ {"routing"}
        BY ApprovalRecordFields
    <2>2. \E position : Moved(r, i, position, ok)
        BY Zenon, <1>2
    <2>3. Write(e, <<ev>>, TRUE, ok, StopRun(r, i))
        BY Zenon, <1>4
    <2> HIDE DEF ev, ok
    <2> QED
        BY Zenon, <1>1, <1>2, <2>1, <2>2, <2>3, MoveAudit
<1> QED
    BY Zenon, <1>3, <1>4 DEF ApproveTool

LEMMA GrantToolStep ==
    ASSUME EngineRunInv, NEW e \in Engines, NEW i \in 1..MaxBatch, GrantTool(e, i)
    PROVE EngineRunInv' /\ AbsNext
<1> DEFINE r == run[e]
           ev == PolicyRecord(r, <<"tool", i>>, "allow")
<1>1. r.pc = "tools" /\ r.tool[i] \in Waiting /\ Typed(r) /\ UNCHANGED unplaced
    BY Zenon, ToolFacts DEF GrantTool, Waiting
<1>2. ev.type = "execution" /\ ev.stage \in AuditStages \ {"routing"}
    BY PolicyRecordFields
<1>3. Write(e, <<ev>>, FALSE, Move(r, i, "execute"), StopRun(r, i))
    BY Zenon DEF GrantTool
<1> HIDE DEF ev
<1> QED
    BY Zenon, <1>1, <1>2, <1>3, MovedFields, MoveAudit

LEMMA ReportToolStep ==
    ASSUME EngineRunInv, NEW e \in Engines, NEW i \in 1..MaxBatch, ReportTool(e, i)
    PROVE EngineRunInv' /\ AbsNext
<1>1. run[e].pc = "tools" /\ Typed(run[e]) /\ UNCHANGED unplaced /\ "done" \notin Waiting
    BY Zenon, ToolFacts DEF ReportTool, Waiting
<1>2. Write(e, <<Record("sandbox", run[e])>>, TRUE, Done(run[e], i), StopRun(run[e], i))
    BY Zenon DEF ReportTool
<1> QED
    BY Zenon, <1>1, <1>2, MovedFields, SandboxRecord, MoveAudit

LEMMA ExecuteToolStep ==
    ASSUME EngineRunInv, NEW e \in Engines, NEW i \in 1..MaxBatch, ExecuteTool(e, i)
    PROVE EngineRunInv' /\ AbsNext
<1> DEFINE r == run[e]
           k == Tool(i)
           position == IF Sandboxed THEN "report" ELSE "done"
           x == Move(r, i, position)
           next == [plan[e] EXCEPT ![k] = "performed"]
<1>1. r.pc = "tools" /\ r.tool[i] = "execute" /\ Typed(r) /\ i <= r.ncalls /\ r.pc \in Batch /\ Routed(r)
    BY Zenon, ToolFacts DEF ExecuteTool, Batch, Routed
<1>2. LocalInv(r, plan[e]) /\ Shape(r, plan[e]) /\ plan[e] \in [Effects -> PlanStates]
    BY Zenon, EngineFacts DEF LocalInv
<1>3. CASE GiveUp(e, i)
    BY Zenon, <1>1, <1>3, GiveUpStep
<1>4. ASSUME Local(e, x), plan' = [plan EXCEPT ![e][k] = "performed"],
             performed' = performed \cup {<<r.turn, k>>}, repeated' = repeated \cup (performed \cap {<<r.turn, k>>}),
             UNCHANGED <<calls, spent, resumes>>
      PROVE EngineRunInv' /\ AbsNext
    <2>1. Moved(r, i, position, x)
        BY Zenon, <1>1, MovedFields
    <2>2. position \notin Waiting
        BY Zenon DEF Waiting
    <2> HIDE DEF x, position
    <2>3. plan[e][k] = "intended" /\ k \in Effects /\ k \notin {Summary, Model} /\ Summary \in Effects /\ Model \in Effects
        BY Zenon, <1>1, <1>2, EffectKinds DEF Shape
    <2>4. next[Model] = plan[e][Model] /\ next[Summary] = plan[e][Summary]
          /\ \A j \in 1..MaxBatch : j # i => next[Tool(j)] = plan[e][Tool(j)]
        BY Zenon, <1>2, <2>3, EffectKinds
    <2> HIDE DEF next
    <2>5. Changed(r, x, BatchFields) /\ x.pc = "tools" /\ x.idx = r.idx /\ x.seq = r.seq /\ x.loopSeq = r.loopSeq
          /\ x.sel = r.sel /\ x.ncalls = r.ncalls
        BY Zenon, <1>1, <2>1 DEF Moved, Changed, BatchFields, MoveFields, Fields
    <2>6. DOMAIN x.tool = 1..MaxBatch /\ r.idx \in Nat /\ DOMAIN r.tool = 1..MaxBatch
        BY Zenon, <1>1, <2>1 DEF Typed, Moved
    <2>7. \A j \in 1..MaxBatch : j <= r.ncalls /\ x.tool[j] \in Waiting => next[Tool(j)] = "intended"
        <3> SUFFICES ASSUME NEW j \in 1..MaxBatch, j <= r.ncalls, x.tool[j] \in Waiting
                     PROVE next[Tool(j)] = "intended"
            BY Zenon
        <3>1. j # i /\ r.tool[j] \in Waiting
            BY Zenon, <2>1, <2>2, <2>6 DEF Moved
        <3> QED
            BY Zenon, <1>1, <1>2, <2>4, <3>1 DEF Shape, Waiting
    <2>8. LocalInv(x, next) /\ Follows(r, x) /\ SameAbs(r, x)
        BY <1>1, <1>2, <2>4, <2>5, <2>6, <2>7, BatchLocal DEF Batch
    <2>9. Performs(e, k, x)
        BY Zenon, <1>1, <1>4, <2>3, <2>5, <2>8 DEF Performs, SameAbs, Local, x
    <2> QED
        BY Zenon, <1>1, <2>3, <2>5, <2>8, <2>9, PerformStep DEF next
<1> QED
    BY Zenon, <1>3, <1>4 DEF ExecuteTool

LEMMA EndBatchGood ==
    ASSUME NEW r, NEW p, LocalInv(r, p), r.pc \in Batch, NEW n, NEW failed
    PROVE GoodNext(r, p, EndBatch(r, n, failed)) /\ EndBatch(r, n, failed).pc = "completed"
<1> DEFINE x == EndBatch(r, n, failed)
<1>1. DOMAIN r = Fields /\ DOMAIN r.tool = 1..MaxBatch
    BY Zenon DEF LocalInv, Typed
<1>2. Changed(r, x, BatchFields) /\ x.pc = "completed" /\ x.idx = 1 /\ x.tool = r.tool
    BY Zenon, <1>1 DEF EndBatch, Changed, BatchFields, Fields
<1> HIDE DEF x
<1> QED
    BY <1>1, <1>2, BatchGood DEF Batch, x

LEMMA BatchStep ==
    ASSUME EngineRunInv, NEW e \in Engines, run[e].pc \in Batch, NEW x, Local(e, x), UNCHANGED unplaced,
           GoodNext(run[e], plan[e], x), x.pc # "checkpoint"
    PROVE EngineRunInv' /\ AbsNext
<1>1. run[e].pc \notin {"idle", "loaded"} /\ ~Over(run[e])
    BY Zenon DEF Batch, Over
<1> QED
    BY Zenon, <1>1, GoodLocal

LEMMA JoinStep ==
    ASSUME EngineRunInv, NEW e \in Engines, JoinBatch(e) \/ FinalizeBatch(e) \/ CutBatch(e)
    PROVE EngineRunInv' /\ AbsNext
<1> DEFINE r == run[e]
           f == [r EXCEPT !.pc = "finalize"]
<1>1. r.pc \in Batch /\ LocalInv(r, plan[e]) /\ UNCHANGED unplaced /\ DOMAIN r = Fields
    BY Zenon, EngineFacts DEF JoinBatch, FinalizeBatch, CutBatch, Batch, LocalInv, Typed
<1>2. GoodNext(r, plan[e], f) /\ f.pc = "finalize"
    <2>1. Changed(r, f, BatchFields) /\ f.pc = "finalize" /\ f.idx = r.idx /\ f.tool = r.tool
        BY Zenon, <1>1 DEF Changed, BatchFields, Fields
    <2>2. r.idx \in Nat /\ DOMAIN r.tool = 1..MaxBatch
        BY Zenon, <1>1 DEF LocalInv, Typed
    <2> HIDE DEF f
    <2> QED
        BY Zenon, <1>1, <2>1, <2>2, BatchGood DEF Batch
<1>3. Local(e, f) \/ \E n, failed : Local(e, EndBatch(r, n, failed))
    BY Zenon DEF JoinBatch, FinalizeBatch, CutBatch
<1> HIDE DEF f
<1>4. CASE Local(e, f)
    BY Zenon, <1>1, <1>2, <1>4, BatchStep
<1>5. ASSUME NEW n, NEW failed, Local(e, EndBatch(r, n, failed))
      PROVE EngineRunInv' /\ AbsNext
    BY Zenon, <1>1, <1>5, EndBatchGood, BatchStep
<1> QED
    BY Zenon, <1>3, <1>4, <1>5

(* One loop event of a batch.                                              *)
LEMMA BatchEmit ==
    ASSUME EngineRunInv, NEW e \in Engines, run[e].pc \in Batch, NEW loop, loop \in {"tool_completed", "tool_message"},
           NEW x, Emit(e, loop, x), UNCHANGED unplaced, GoodNext(run[e], plan[e], x),
           x.pc = "checkpoint" => loop = "tool_message"
    PROVE EngineRunInv' /\ AbsNext
<1>1. run[e].pc \notin {"idle", "loaded"} /\ ~Over(run[e]) /\ Emittable(run[e], loop)
    BY Zenon DEF Batch, Over, Emittable, Routed
<1>2. Write(e, <<LoopRecord(run[e], loop)>>, FALSE, Emitted(x), [Fail(run[e]) EXCEPT !.emitting = FALSE])
    BY Zenon DEF Emit, Emitted
<1>3. LocalInv(run[e], plan[e])
    BY Zenon, EngineFacts
<1> QED
    BY Zenon, <1>1, <1>2, <1>3, FailGood, GoodLoop

LEMMA CompleteStep ==
    ASSUME EngineRunInv, NEW e \in Engines, CompleteTool(e) \/ CompleteBatch(e) \/ AppendToolMessage(e)
    PROVE EngineRunInv' /\ AbsNext
<1> DEFINE r == run[e]
           x == [r EXCEPT !.idx = @ + 1]
           m == [r EXCEPT !.pc = "tool_message"]
           c == [r EXCEPT !.pc = "checkpoint"]
<1>1. r.pc \in {"completed", "tool_message"} /\ LocalInv(r, plan[e]) /\ DOMAIN r = Fields /\ r.idx \in Nat
      /\ DOMAIN r.tool = 1..MaxBatch
    BY Zenon, EngineFacts DEF CompleteTool, CompleteBatch, AppendToolMessage, LocalInv, Typed
<1>2. r.pc \in Batch /\ r.pc \notin {"idle", "loaded"} /\ ~Over(r)
    BY Zenon, <1>1 DEF Batch, Over
<1>3. GoodNext(r, plan[e], x) /\ x.pc = r.pc
    <2>1. Changed(r, x, BatchFields) /\ x.pc = r.pc /\ x.idx = r.idx + 1 /\ x.tool = r.tool
        BY Zenon, <1>1 DEF Changed, BatchFields, Fields
    <2> HIDE DEF x
    <2> QED
        BY <1>1, <1>2, <2>1, BatchGood
<1>4. GoodNext(r, plan[e], m) /\ m.pc = "tool_message"
    <2>1. Changed(r, m, BatchFields) /\ m.pc = "tool_message" /\ m.idx = r.idx /\ m.tool = r.tool
        BY Zenon, <1>1 DEF Changed, BatchFields, Fields
    <2> HIDE DEF m
    <2> QED
        BY Zenon, <1>1, <1>2, <2>1, BatchGood DEF Batch
<1>5. GoodNext(r, plan[e], c) /\ c.pc = "checkpoint"
    <2>1. Changed(r, c, BatchFields) /\ c.pc = "checkpoint" /\ c.idx = r.idx /\ c.tool = r.tool
        BY Zenon, <1>1 DEF Changed, BatchFields, Fields
    <2> HIDE DEF c
    <2> QED
        BY Zenon, <1>1, <1>2, <2>1, BatchGood DEF Batch
<1>6. \/ Abort(e)
      \/ Local(e, m) /\ UNCHANGED unplaced
      \/ Emit(e, "tool_completed", x) /\ UNCHANGED unplaced
      \/ Emit(e, "tool_message", c) /\ UNCHANGED unplaced
    BY Zenon DEF CompleteTool, CompleteBatch, AppendToolMessage
<1> HIDE DEF x, m, c
<1>7. CASE Abort(e)
    BY Zenon, <1>2, <1>7, AbortStep
<1>8. CASE Local(e, m) /\ UNCHANGED unplaced
    BY Zenon, <1>2, <1>4, <1>8, BatchStep
<1>9. CASE Emit(e, "tool_completed", x) /\ UNCHANGED unplaced
    BY Zenon, <1>1, <1>2, <1>3, <1>9, BatchEmit
<1>10. CASE Emit(e, "tool_message", c) /\ UNCHANGED unplaced
    BY Zenon, <1>2, <1>5, <1>10, BatchEmit
<1> QED
    BY Zenon, <1>6, <1>7, <1>8, <1>9, <1>10

(* A loop event that is an intent or a checkpoint: the stream and the      *)
(* engine after its commit.                                                *)
LoopMoves(e, loop, y, p, holders) ==
    /\ run' = [run EXCEPT ![e] = y] /\ plan' = [plan EXCEPT ![e] = p] /\ UNCHANGED world
    /\ e \in AbsHolds /\ AbsHolds' = holders
    /\ proj.workload = "running" /\ proj'.workload = "running"
    /\ proj'.resume.reserved = proj.resume.reserved /\ proj'.resume.extra = proj.resume.extra
    /\ proj'.resume.ckpt.turn = IF loop = "checkpoint" THEN run[e].turn ELSE 0

LEMMA LoopWrite ==
    ASSUME EngineRunInv, NEW e \in Engines, NEW loop, loop # "stopped", NEW z, Emit(e, loop, z),
           NEW next \in [Effects -> PlanStates], Planned(e, next), UNCHANGED <<world, resumes>>,
           run[e].pc \notin {"idle", "loaded"}, ~Over(run[e]), Emittable(run[e], loop),
           LocalInv(z, next), z.seq = run[e].seq, z.loopSeq = run[e].loopSeq, z.reserved = run[e].reserved,
           z.pc \notin {"idle", "checkpoint"}, Routed(z) => Routed(run[e]) /\ z.turn = run[e].turn /\ z.sel = run[e].sel
    PROVE /\ EngineRunInv'
          /\ \/ AbsNext
             \/ \E y : y.pc = z.pc /\ SameAbs(z, y) /\ LoopMoves(e, loop, y, next, {e})
             \/ \E y : y.pc = "close" /\ SameAbs(run[e], y) /\ LoopMoves(e, loop, y, plan[e], {})
<1> DEFINE r == run[e]
           ev == LoopRecord(r, loop)
           x == Emitted(z)
           failed == [Fail(r) EXCEPT !.emitting = FALSE]
           s == Apply(proj, ev)
<1>1. LocalInv(r, plan[e]) /\ DOMAIN r = Fields /\ Typed(r) /\ Counts(r) /\ StreamInv(proj) /\ EngineInv(r, plan[e], proj)
    BY Zenon, EngineFacts DEF LocalInv
<1>2. Write(e, <<ev>>, FALSE, x, failed)
    BY Zenon DEF Emit, Emitted
<1>3. GoodNext(r, plan[e], failed) /\ failed.pc = "close"
    BY Zenon, <1>1, FailGood
<1>4. /\ ev.type = "execution" /\ ev.stage = "loop" /\ ev.turn = r.turn /\ ev.loop = loop
      /\ ev.seq = r.loopSeq + 1 /\ ev.result.calls = r.mc /\ ev.result.tools = r.tc /\ ev.result.usage = r.usage
    BY LoopRecordFields
<1>5. r.seq = proj.version => AcceptsLoop(proj, ev)
    BY Zenon, <1>1, LoopAccepted
<1>0. x = Emitted(z)
    BY Zenon
<1> HIDE DEF ev, x, failed
<1>6. LocalInv(x, next) /\ x.loopSeq = z.loopSeq + 1 /\ \A f \in Fields \ {"loopSeq"} : x[f] = z[f]
    BY <1>0, EmittedLocal
<1>7. /\ x.loopSeq = r.loopSeq + 1 /\ x.pc = z.pc /\ x.seq = r.seq /\ x.asked = z.asked /\ x.turn = z.turn /\ x.sel = z.sel
      /\ x.reserved = r.reserved /\ x.extra = z.extra /\ x.bound = z.bound /\ x.used = z.used
    BY Zenon, <1>6 DEF Fields
<1>8. SameAbs(z, x) /\ (Routed(x) <=> Routed(z))
    BY Zenon, <1>7 DEF SameAbs, Routed, Streaming
<1>9. r.loopSeq \in Nat /\ r.turn \in Nat /\ r.mc \in Nat /\ r.tc \in Nat /\ r.usage \in Amounts
      /\ (loop = "checkpoint" => r.mc = r.turn)
    BY Zenon, <1>1 DEF Typed, Counts, Emittable, Batch
<1>10. ASSUME r.seq = proj.version
       PROVE /\ StreamInv(s) /\ s.version = proj.version + 1 /\ s.workload = "running" /\ proj.workload = "running"
             /\ s.resume.ckpt.turn = (IF loop = "checkpoint" THEN r.turn ELSE 0)
             /\ s.resume.reserved = proj.resume.reserved /\ s.resume.extra = proj.resume.extra
             /\ EngineInv(Acked(x, 1), next, s) /\ Acked(x, 1).pc = x.pc /\ SameAbs(x, Acked(x, 1))
    <2>1. proj.workload = "running" /\ Knows(r, proj)
        BY Zenon, <1>1, <1>10 DEF EngineInv, Knows
    <2>2. StreamInv(s)
        <3>1. ev.seq \in Nat
            BY Zenon, <1>4, <1>9, Successor
        <3> QED
            BY Zenon, <1>1, <1>4, <1>5, <1>9, <1>10, <2>1, <3>1, LoopKeepsStream
    <2>3. Looped(proj, ev, s)
        BY Zenon, <1>1, <1>4, <1>5, <1>10, <2>1, ApplyLoop
    <2> HIDE DEF s
    <2>4. /\ s.version = proj.version + 1 /\ s.workload = "running" /\ s.loopSeq = r.loopSeq + 1
          /\ s.loopType = loop /\ s.routing = proj.routing /\ s.resume.ckpt = CheckpointOf(ev)
          /\ s.resume.reserved = proj.resume.reserved /\ s.resume.extra = proj.resume.extra
        BY Zenon, <1>4, <2>3 DEF Looped
    <2>5. s.resume.ckpt.turn = (IF loop = "checkpoint" THEN r.turn ELSE 0)
        <3>1. PICK c : c = CheckpointOf(ev)
            BY Zenon
        <3>2. (ev.loop = "checkpoint" => c.turn = ev.turn) /\ (ev.loop # "checkpoint" => c.turn = 0)
            BY Zenon, <3>1, CheckpointFields
        <3>3. s.resume.ckpt = c
            BY Zenon, <2>4, <3>1
        <3> QED
            BY Zenon, <1>4, <3>2, <3>3
    <2>6. Heard(x, s)
        BY Zenon, <1>6, <1>7, <1>8, <1>10, <2>1, <2>4 DEF Heard, Knows
    <2> QED
        <3>1. x.pc # "idle" /\ x.seq = proj.version
            BY Zenon, <1>7, <1>10
        <3>2. EngineInv(Acked(x, 1), next, s) /\ Acked(x, 1).pc = x.pc /\ SameAbs(x, Acked(x, 1))
            <4>1. Awaited(x, next, proj, s)
                BY Zenon, <1>1, <1>6, <2>4, <2>6, <3>1 DEF Awaited
            <4>2. Answered(x, next, s)
                BY Zenon, <4>1, AwaitedAnswered
            <4> QED
                BY Zenon, <4>2 DEF Answered
        <3> QED
            BY Zenon, <2>1, <2>2, <2>4, <2>5, <3>2
<1>11. x.pc # "idle"
    BY Zenon, <1>7
<1>12. /\ EngineRunInv' /\ (AbsNext \/ Told(e, ev, x, next) \/ Untold(e, ev, failed))
       /\ r.seq = proj.version => e \in AbsHolds /\ proj.workload = "running"
    BY Zenon, <1>2, <1>3, <1>7, <1>10, <1>11, PlannedWrite
<1>13. CASE Told(e, ev, x, next)
    <2> DEFINE y == Acked(x, 1)
    <2>1. /\ r.seq = proj.version /\ proj' = s /\ run' = [run EXCEPT ![e] = y]
          /\ plan' = [plan EXCEPT ![e] = next] /\ AbsHolds' = {e}
        BY Zenon, <1>13 DEF Told
    <2>2. y.pc = z.pc /\ SameAbs(z, y)
        BY Zenon, <1>7, <1>8, <1>10, <2>1 DEF SameAbs
    <2> HIDE DEF y
    <2>3. LoopMoves(e, loop, y, next, {e})
        BY Zenon, <1>10, <1>12, <2>1 DEF LoopMoves
    <2> QED
        BY Zenon, <1>12, <2>2, <2>3
<1>14. CASE Untold(e, ev, failed)
    <2>1. PICK y : Alike(failed, y) /\ run' = [run EXCEPT ![e] = y]
        BY Zenon, <1>14 DEF Untold
    <2>2. /\ r.seq = proj.version /\ proj' = s /\ plan' = [plan EXCEPT ![e] = plan[e]] /\ AbsHolds' = {}
        BY Zenon, <1>14 DEF Untold
    <2>3. /\ y.pc = failed.pc /\ y.turn = failed.turn /\ y.extra = failed.extra /\ y.reserved = failed.reserved
          /\ y.bound = failed.bound /\ y.used = failed.used
        BY Zenon, <2>1 DEF Alike, Fields
    <2>4. y.pc = "close" /\ SameAbs(r, y)
        BY Zenon, <1>3, <2>3 DEF GoodNext, Quiet, SameAbs
    <2>5. LoopMoves(e, loop, y, plan[e], {})
        BY Zenon, <1>10, <1>12, <2>1, <2>2 DEF LoopMoves
    <2> QED
        BY Zenon, <1>12, <2>4, <2>5
<1> QED
    BY Zenon, <1>12, <1>13, <1>14

LEMMA StartToolStep ==
    ASSUME EngineRunInv, NEW e \in Engines, StartTool(e)
    PROVE EngineRunInv' /\ AbsNext
<1> DEFINE r == run[e]
           p == plan[e]
           k == Tool(r.idx)
           next == [p EXCEPT ![k] = "intended"]
           more == [r EXCEPT !.idx = @ + 1]
           begun(safe) == [r EXCEPT !.pc = "tools", !.idx = 0, !.parallel = Parallel /\ safe,
                                    !.tool = [i \in 1..MaxBatch |-> IF i <= r.ncalls THEN "ready" ELSE "none"]]
<1>1. r.pc = "tool_start" /\ r.pc \notin {"idle", "loaded"} /\ ~Over(r) /\ Emittable(r, "tool_started")
      /\ InTurn(r) /\ Routed(r) /\ Planned(e, next) /\ UNCHANGED <<world, resumes>>
    BY Zenon DEF StartTool, Over, Emittable, InTurn, Routed
<1>2. LocalInv(r, p) /\ DOMAIN r = Fields /\ Typed(r) /\ Counts(r) /\ Shape(r, p) /\ p \in [Effects -> PlanStates]
    BY Zenon, EngineFacts DEF LocalInv
<1>3. r.idx \in 1..MaxBatch /\ r.ncalls <= MaxBatch /\ r.idx <= r.ncalls /\ r.ncalls \in Nat /\ r.idx \in Nat
    <2>1. r.idx # 0 /\ r.ncalls <= MaxBatch /\ r.idx <= r.ncalls
        BY Zenon, <1>1, <1>2 DEF Counts
    <2>2. r.ncalls \in Nat /\ r.idx \in Nat
        BY Zenon, <1>2 DEF Typed
    <2> QED
        BY <2>1, <2>2, EngineAssumption
<1>4. PICK safe \in BOOLEAN : Emit(e, "tool_started", IF r.idx < r.ncalls THEN more ELSE begun(safe))
    BY Zenon DEF StartTool
<1> DEFINE z == IF r.idx < r.ncalls THEN more ELSE begun(safe)
<1>5. k \in Effects /\ k \notin {Summary, Model} /\ p[k] = "none"
    <2>1. ~(r.idx < r.idx)
        BY Zenon, <1>3, AtMostItself
    <2> QED
        BY Zenon, <1>1, <1>2, <1>3, <2>1, EffectKinds DEF Shape
<1>6. next \in [Effects -> PlanStates] /\ next[k] = "intended" /\ next[Model] = p[Model] /\ next[Summary] = p[Summary]
      /\ \A j \in 1..MaxBatch : j # r.idx => next[Tool(j)] = p[Tool(j)]
    BY Zenon, <1>2, <1>5, EffectKinds DEF PlanStates
<1>7. /\ Changed(r, z, {"pc", "idx", "parallel", "tool"}) /\ DOMAIN z.tool = 1..MaxBatch
      /\ r.idx < r.ncalls => z.pc = "tool_start" /\ z.idx = r.idx + 1
      /\ ~(r.idx < r.ncalls) => z.pc = "tools" /\ z.idx = 0
    <2>0. DOMAIN r.tool = 1..MaxBatch
        BY Zenon, <1>2 DEF Typed
    <2>1. CASE r.idx < r.ncalls
        BY Zenon, <1>1, <1>2, <2>0, <2>1 DEF Changed, Fields
    <2>2. CASE ~(r.idx < r.ncalls)
        BY Zenon, <1>2, <2>2 DEF Changed, Fields
    <2> QED
        BY Zenon, <2>1, <2>2
<1>8. next = [plan[e] EXCEPT ![k] = "intended"] /\ Emit(e, "tool_started", z)
    BY Zenon, <1>4
<1> HIDE DEF next, z
<1>9. /\ DOMAIN z = Fields /\ z.seq = r.seq /\ z.turn = r.turn /\ z.mc = r.mc /\ z.tc = r.tc /\ z.usage = r.usage
      /\ z.extra = r.extra /\ z.compaction = r.compaction /\ z.reserved = r.reserved /\ z.loopSeq = r.loopSeq
      /\ z.purpose = r.purpose /\ z.last = r.last /\ z.bound = r.bound /\ z.used = r.used /\ z.stop = r.stop
      /\ z.elig = r.elig /\ z.sel = r.sel /\ z.summary = r.summary /\ z.ncalls = r.ncalls
    BY ZenonT(40), <1>7 DEF Changed, Fields
<1>10. /\ InTurn(z) /\ Routed(z) /\ ~Placing(z) /\ ~Streaming(z) /\ z.pc \in Batch \cup {"tool_start"}
       /\ z.pc \notin Before \cup CallDue \cup {"idle", "loaded", "close", "cleanup", "call", "message", "compact", "checkpoint"}
    BY Zenon, <1>7 DEF Placing, Streaming, InTurn, Routed, CallDue, Before, Batch
<1>11. \A j \in 1..MaxBatch : next[Tool(j)] = IF j < r.idx + 1 THEN "intended" ELSE "none"
    BY SMTT(40), <1>1, <1>2, <1>3, <1>6 DEF Shape
<1>12. LocalInv(z, next)
    <2>1. z.idx \in Nat /\ (z.pc = "tool_start" => z.idx # 0 /\ z.idx <= r.ncalls)
        BY <1>3, <1>7
    <2>2. Typed(z)
        BY Zenon, <1>2, <1>7, <1>9, <2>1 DEF Typed
    <2>3. Counts(z)
        BY Zenon, <1>1, <1>2, <1>9, <1>10, <2>1 DEF Counts
    <2>4. z.pc = "tool_start" => z.idx = r.idx + 1
        BY Zenon, <1>7
    <2>5. z.pc = "tools" => \A i \in 1..MaxBatch : i <= r.ncalls => next[Tool(i)] = "intended"
        BY <1>3, <1>7, <1>11
    <2>6. p[Model] = "performed" /\ Settled(p)
        BY Zenon, <1>1, <1>2 DEF Shape
    <2>7. Shape(z, next)
        BY Zenon, <1>6, <1>9, <1>10, <1>11, <2>4, <2>5, <2>6 DEF Shape, Settled
    <2> QED
        BY Zenon, <2>2, <2>3, <2>7 DEF LocalInv
<1>13. /\ EngineRunInv'
       /\ \/ AbsNext
          \/ \E y : y.pc = z.pc /\ SameAbs(z, y) /\ LoopMoves(e, "tool_started", y, next, {e})
          \/ \E y : y.pc = "close" /\ SameAbs(r, y) /\ LoopMoves(e, "tool_started", y, p, {})
    BY Zenon, <1>1, <1>6, <1>8, <1>9, <1>10, <1>12, LoopWrite
<1>14. /\ PhaseOf(r, p) = "busy" /\ p[Model] = "performed" /\ Zero \in Spends \cup {Zero}
       /\ Within(Plus(r.reserved, Zero), MaxSpend) /\ Plus(r.reserved, Zero) = r.reserved
       /\ Plus(proj.resume.reserved, Zero) = proj.resume.reserved
    <2>1. p[Model] = "performed"
        BY Zenon, <1>1, <1>2 DEF Shape
    <2>2. r.reserved \in Amounts /\ proj.resume.reserved \in Amounts /\ Within(r.reserved, MaxSpend)
        BY Zenon, <1>2, EngineFacts DEF Typed, StreamInv, Counts
    <2>3. Plus(r.reserved, Zero) = r.reserved /\ Plus(proj.resume.reserved, Zero) = proj.resume.reserved
        BY <2>2 DEF Plus, Zero, Amounts
    <2>4. PhaseOf(r, p) = "busy"
        BY Zenon, <1>1, <2>1, NoPlanValues DEF PhaseOf
    <2> QED
        BY Zenon, <2>1, <2>2, <2>3, <2>4
<1>15. ASSUME NEW y, y.pc = z.pc, SameAbs(z, y), LoopMoves(e, "tool_started", y, next, {e})
       PROVE AbsNext
    <2>1. PhaseOf(y, next) = "busy"
        BY Zenon, <1>6, <1>10, <1>14, <1>15, NoPlanValues DEF PhaseOf
    <2>2. SameAbs(r, y)
        BY Zenon, <1>9, <1>15 DEF SameAbs
    <2>3. Intends(e, k, Zero, TRUE, y, next)
        BY Zenon, <1>5, <1>8, <1>14, <1>15, <2>1, <2>2 DEF Intends, SameAbs, LoopMoves
    <2> QED
        BY Zenon, <1>5, <1>14, <2>3, AbsIntend
<1>16. ASSUME NEW y, y.pc = "close", SameAbs(r, y), LoopMoves(e, "tool_started", y, p, {})
       PROVE AbsNext
    <2>1. PhaseOf(y, p) = "closing"
        BY Zenon, <1>16 DEF PhaseOf
    <2>2. Intends(e, k, Zero, FALSE, y, p)
        BY Zenon, <1>5, <1>14, <1>16, <2>1 DEF Intends, SameAbs, LoopMoves
    <2> QED
        BY Zenon, <1>5, <1>14, <2>2, AbsIntend
<1> QED
    BY Zenon, <1>13, <1>15, <1>16

(* The checkpoint of the engine is the one of DurableExecution.            *)
Checks(e, ack, r, p) ==
    /\ LoopMoves(e, "checkpoint", r, p, IF ack THEN {e} ELSE {})
    /\ PhaseOf(run[e], plan[e]) = "busy" /\ PhaseOf(r, p) = IF ack THEN "ready" ELSE "closing"
    /\ p = IF ack THEN NoPlan ELSE plan[e]
    /\ plan[e][Model] = "performed" /\ Settled(plan[e])
    /\ r.turn = IF ack THEN run[e].turn + 1 ELSE run[e].turn
    /\ r.extra = run[e].extra /\ r.reserved = run[e].reserved
    /\ Minus(r.bound, r.used) = IF ack THEN Zero ELSE Minus(run[e].bound, run[e].used)

LEMMA AbsCheck ==
    ASSUME EngineRunInv, NEW e \in Engines, NEW ack \in BOOLEAN, NEW r, NEW p, Checks(e, ack, r, p)
    PROVE AbsNext
<1>1. AbsMoves(e, r, p)
    BY Zenon, FrameAbs DEF Checks, LoopMoves
<1>2. AbsMine = [f \in Engines |-> AbsMine[f]] /\ AbsExtra = [f \in Engines |-> AbsExtra[f]]
    BY Zenon DEF AbsMine, AbsExtra
<1>3. AbsMine' = AbsMine /\ AbsExtra' = AbsExtra
    BY Zenon, <1>1, <1>2 DEF AbsMoves, Checks
<1>4. /\ AbsTurn' = [AbsTurn EXCEPT ![e] = IF ack THEN @ + 1 ELSE @]
      /\ AbsRoom' = [AbsRoom EXCEPT ![e] = IF ack THEN Zero ELSE @]
      /\ AbsPc' = [AbsPc EXCEPT ![e] = IF ack THEN "ready" ELSE "closing"] /\ AbsPc[e] = "busy"
    BY Zenon, <1>1 DEF AbsMoves, Checks
<1>5. WorkloadPhase' = WorkloadPhase /\ AbsCkpt' = AbsTurn[e]
    BY Zenon, <1>1 DEF WorkloadPhase, AbsCkpt, Checks, LoopMoves, AbsMoves
<1>6. plan' = [plan EXCEPT ![e] = IF ack THEN NoPlan ELSE @]
    BY Zenon DEF Checks, LoopMoves
<1>7. D!Summary = Summary /\ D!Model = Model /\ D!Zero = Zero
    BY Zenon DEF D!Summary, Summary, D!Model, Model, D!Zero, Zero
<1>8. D!NoPlan = NoPlan
    BY Zenon DEF D!NoPlan, NoPlan, D!Effects, Effects, D!Calls, D!Summary, Summary, D!Model, Model, D!Tool, Tool
<1>9. D!Append(e, ack) /\ D!After(e, ack, "ready", "closing") /\ UNCHANGED D!world
    BY Zenon, <1>4 DEF D!Append, D!After, D!world, world, Checks, LoopMoves
<1>10. proj'.resume.reserved = proj.resume.reserved /\ proj'.resume.extra = proj.resume.extra
       /\ plan[e][Model] = "performed" /\ plan[e][Summary] \in {"none", "recorded"}
    BY Zenon DEF Checks, LoopMoves, Settled
<1>11. D!Checkpoint(e, ack)
    BY Zenon, <1>3, <1>4, <1>5, <1>6, <1>7, <1>8, <1>9, <1>10
       DEF D!Checkpoint
<1> QED
    BY Zenon, <1>11 DEF AbsNext, D!Next

LEMMA CommitCheckpointStep ==
    ASSUME EngineRunInv, NEW e \in Engines, CommitCheckpoint(e)
    PROVE EngineRunInv' /\ AbsNext
<1> DEFINE r == run[e]
           p == plan[e]
           f == Fresh(r)
           z == NextTurn(r)
<1>1. r.pc = "checkpoint" /\ r.pc \notin {"idle", "loaded"} /\ ~Over(r) /\ Emittable(r, "checkpoint") /\ r.pc \in Batch
      /\ Emit(e, "checkpoint", z) /\ Planned(e, NoPlan) /\ UNCHANGED <<world, resumes>>
    BY Zenon DEF CommitCheckpoint, Over, Emittable, Routed, Batch
<1>2. LocalInv(r, p) /\ DOMAIN r = Fields /\ Typed(r) /\ Counts(r) /\ Shape(r, p)
    BY Zenon, EngineFacts DEF LocalInv
<1>3. Typed(f) /\ DOMAIN f = Fields /\ f.seq = r.seq /\ f.turn = r.turn /\ f.mc = r.mc /\ f.extra = r.extra
      /\ f.reserved = r.reserved /\ f.loopSeq = r.loopSeq
    BY SMTT(40), <1>2, FreshTyped, FreshFields
<1>4. z = [f EXCEPT !.pc = "turn", !.turn = @ + 1, !.bound = Zero, !.used = Zero]
    BY Zenon DEF NextTurn
<1> HIDE DEF f
<1>5. Changed(f, z, {"pc", "turn", "bound", "used"}) /\ z.pc = "turn" /\ z.turn = f.turn + 1 /\ z.bound = Zero /\ z.used = Zero
    <2>1. {"pc", "turn", "bound", "used"} \subseteq Fields
        BY Zenon DEF Fields
    <2> QED
        BY Zenon, <1>3, <1>4, <2>1 DEF Changed
<1> HIDE DEF z
<1>6. /\ DOMAIN z = Fields /\ z.seq = f.seq /\ z.mc = f.mc /\ z.tc = f.tc /\ z.usage = f.usage
      /\ z.extra = f.extra /\ z.compaction = f.compaction /\ z.reserved = f.reserved /\ z.loopSeq = f.loopSeq
      /\ z.last = f.last /\ z.elig = f.elig /\ z.summary = f.summary /\ z.ncalls = f.ncalls /\ z.idx = f.idx
      /\ z.tool = f.tool
    BY Zenon, <1>5 DEF Changed, Fields
<1>7. ~InTurn(z) /\ ~Routed(z) /\ ~Placing(z) /\ ~Streaming(z) /\ z.pc \in Before
      /\ z.pc \notin Batch \cup CallDue \cup {"idle", "checkpoint", "tool_start", "cleanup", "call", "compact", "tools"}
    BY Zenon, <1>5 DEF Placing, Streaming, InTurn, Routed, CallDue, Before, Batch
<1>8. r.mc = r.turn /\ r.turn \in Nat /\ Within(r.reserved, MaxSpend) /\ p[Model] = "performed" /\ Settled(p)
    BY Zenon, <1>1, <1>2 DEF Counts, Typed, Shape
<1>9. z.turn \in Nat /\ z.turn # 0 /\ z.mc + 1 = z.turn /\ z.reserved = r.reserved
    BY SMTT(40), <1>3, <1>5, <1>6, <1>8
<1>10. LocalInv(z, NoPlan)
    <2>1. Typed(z)
        BY Zenon, <1>3, <1>5, <1>6, <1>9, ZeroAmount DEF Typed
    <2>2. Counts(z)
        BY Zenon, <1>5, <1>7, <1>8, <1>9 DEF Counts
    <2>3. Shape(z, NoPlan)
        BY Zenon, <1>7 DEF Shape
    <2> QED
        BY Zenon, <2>1, <2>2, <2>3 DEF LocalInv
<1>11. NoPlan \in [Effects -> PlanStates]
    BY Zenon DEF NoPlan, PlanStates
<1>12. /\ EngineRunInv'
       /\ \/ AbsNext
          \/ \E y : y.pc = z.pc /\ SameAbs(z, y) /\ LoopMoves(e, "checkpoint", y, NoPlan, {e})
          \/ \E y : y.pc = "close" /\ SameAbs(r, y) /\ LoopMoves(e, "checkpoint", y, p, {})
    BY ZenonT(40), <1>1, <1>3, <1>6, <1>7, <1>10, <1>11, LoopWrite
<1>13. PhaseOf(r, p) = "busy"
    BY Zenon, <1>1, <1>8, NoPlanValues DEF PhaseOf
<1>14. ASSUME NEW y, y.pc = z.pc, SameAbs(z, y), LoopMoves(e, "checkpoint", y, NoPlan, {e})
       PROVE AbsNext
    <2>1. PhaseOf(y, NoPlan) = "ready"
        BY Zenon, <1>5, <1>14 DEF PhaseOf
    <2>2. /\ y.turn = r.turn + 1 /\ y.extra = r.extra /\ y.reserved = r.reserved /\ Minus(y.bound, y.used) = Zero
        BY SMTT(40), <1>3, <1>5, <1>6, <1>14 DEF SameAbs, Minus, Zero
    <2>3. Checks(e, TRUE, y, NoPlan)
        BY Zenon, <1>8, <1>13, <1>14, <2>1, <2>2 DEF Checks
    <2> QED
        BY Zenon, <2>3, AbsCheck
<1>15. ASSUME NEW y, y.pc = "close", SameAbs(r, y), LoopMoves(e, "checkpoint", y, p, {})
       PROVE AbsNext
    <2>1. PhaseOf(y, p) = "closing"
        BY Zenon, <1>15 DEF PhaseOf
    <2>2. Checks(e, FALSE, y, p)
        BY Zenon, <1>8, <1>13, <1>15, <2>1 DEF Checks, SameAbs
    <2> QED
        BY Zenon, <2>2, AbsCheck
<1> QED
    BY Zenon, <1>12, <1>14, <1>15

-----------------------------------------------------------------------------
(* The actions of EngineRun: entry, the closing of tools, interruption.    *)

LEMMA AdmitStep ==
    ASSUME EngineRunInv, NEW e \in Engines, Admit(e)
    PROVE EngineRunInv' /\ AbsNext
<1>1. run[e].pc \notin {"idle", "loaded"} /\ ~Over(run[e]) /\ BudgetFailure(e) /\ UNCHANGED unplaced
    BY Zenon DEF Admit, Over
<1> QED
    BY Zenon, <1>1, BudgetStep

LEMMA EnterStep ==
    ASSUME EngineRunInv, NEW e \in Engines, Enter(e)
    PROVE EngineRunInv' /\ AbsNext
<1> DEFINE r == run[e]
           p == plan[e]
           l == [r EXCEPT !.emitting = TRUE]
           x == [l EXCEPT !.pc = "turn"]
           f == Fail(r)
           y == [f EXCEPT !.mc = 0, !.tc = 0, !.usage = Zero, !.stop = "none"]
<1>1. r.pc = "enter" /\ r.pc \notin {"idle", "loaded"} /\ ~Over(r) /\ UNCHANGED unplaced
    BY Zenon DEF Enter, Over
<1>2. LocalInv(r, p) /\ Typed(r) /\ DOMAIN r = Fields /\ Counts(r) /\ Shape(r, p)
    BY Zenon, EngineFacts DEF LocalInv
<1>3. Local(e, y) \/ Local(e, x) \/ Local(e, Fail(l))
    BY Zenon DEF Enter
<1>4. Changed(r, l, {"emitting"}) /\ Changed(r, x, {"emitting", "pc"}) /\ x.pc = "turn"
    BY Zenon, <1>2 DEF Changed, Fields
<1>5. Typed(f) /\ Returned(r, f) /\ Changed(f, y, {"mc", "tc", "usage", "stop"}) /\ y.mc = 0 /\ y.tc = 0 /\ y.usage = Zero
    <2>1. Typed(f) /\ Returned(r, f)
        BY Zenon, <1>2, FreshTyped, ReturnFields
    <2>2. DOMAIN f = Fields
        BY Zenon, <2>1 DEF Typed
    <2> HIDE DEF f
    <2> QED
        BY Zenon, <2>1, <2>2 DEF Changed, Fields
<1> HIDE DEF l, x, f, y
<1>6. GoodNext(r, p, y) /\ y.pc = "close"
    <2>1. /\ DOMAIN y = Fields /\ y.pc = f.pc /\ y.seq = f.seq /\ y.turn = f.turn /\ y.extra = f.extra
          /\ y.compaction = f.compaction /\ y.reserved = f.reserved /\ y.loopSeq = f.loopSeq /\ y.last = f.last
          /\ y.bound = f.bound /\ y.used = f.used /\ y.elig = f.elig /\ y.summary = f.summary
          /\ y.ncalls = f.ncalls /\ y.idx = f.idx /\ y.tool = f.tool
        BY Zenon, <1>5 DEF Changed, Fields
    <2>2. Typed(y)
        BY SMTT(40), <1>5, <2>1, ZeroAmount DEF Typed
    <2>3. y.pc = "close" /\ SameAbs(r, y) /\ y.loopSeq = r.loopSeq /\ y.seq = r.seq
        BY Zenon, <1>5, <2>1 DEF Returned, SameAbs
    <2> QED
        BY Zenon, <1>2, <2>2, <2>3, CloseGood
<1>7. GoodNext(r, p, x)
    <2>1. /\ DOMAIN x = Fields /\ x.seq = r.seq /\ x.turn = r.turn /\ x.mc = r.mc /\ x.tc = r.tc /\ x.usage = r.usage
          /\ x.extra = r.extra /\ x.compaction = r.compaction /\ x.reserved = r.reserved /\ x.loopSeq = r.loopSeq
          /\ x.last = r.last /\ x.bound = r.bound /\ x.used = r.used /\ x.elig = r.elig
          /\ x.summary = r.summary /\ x.ncalls = r.ncalls /\ x.idx = r.idx /\ x.tool = r.tool
        BY Zenon, <1>4 DEF Changed, Fields
    <2>2. /\ ~InTurn(x) /\ ~Routed(x) /\ ~Placing(x) /\ ~Streaming(x) /\ x.pc \in Before /\ r.pc \in Before
          /\ x.pc \notin Batch \cup CallDue \cup {"start", "tool_start", "cleanup", "message", "compact", "tools", "call"}
        BY Zenon, <1>1, <1>4 DEF Placing, Streaming, InTurn, Routed, CallDue, Before, Batch
    <2>3. Typed(x)
        BY Zenon, <1>2, <2>1 DEF Typed
    <2>4. Counts(x)
        BY Zenon, <1>2, <2>1, <2>2 DEF Counts
    <2>5. Shape(x, p)
        BY Zenon, <1>2, <2>2 DEF Shape
    <2>6. Quiet(r, p, x)
        BY Zenon, <1>1, <1>4, <2>1 DEF Quiet, PhaseOf, SameAbs
    <2> QED
        BY Zenon, <2>1, <2>2, <2>3, <2>4, <2>5, <2>6 DEF GoodNext, LocalInv, Follows
<1>8. GoodNext(r, p, Fail(l)) /\ Fail(l).pc = "close"
    <2>1. /\ DOMAIN l = Fields /\ l.pc = r.pc /\ l.seq = r.seq /\ l.turn = r.turn /\ l.mc = r.mc /\ l.tc = r.tc
          /\ l.usage = r.usage /\ l.extra = r.extra /\ l.compaction = r.compaction /\ l.reserved = r.reserved
          /\ l.loopSeq = r.loopSeq /\ l.last = r.last /\ l.bound = r.bound /\ l.used = r.used /\ l.elig = r.elig
          /\ l.summary = r.summary /\ l.ncalls = r.ncalls /\ l.idx = r.idx /\ l.tool = r.tool
        BY ZenonT(40), <1>4 DEF Changed, Fields
    <2>2. Typed(l)
        BY Zenon, <1>2, <2>1 DEF Typed
    <2>3. Typed(Fail(l)) /\ Returned(l, Fail(l))
        BY Zenon, <2>1, <2>2, FreshTyped, ReturnFields
    <2>4. Fail(l).pc = "close" /\ SameAbs(r, Fail(l)) /\ Fail(l).loopSeq = r.loopSeq /\ Fail(l).seq = r.seq
        BY Zenon, <2>1, <2>3 DEF Returned, SameAbs
    <2> QED
        BY Zenon, <1>2, <2>3, <2>4, CloseGood
<1>9. x.pc # "checkpoint"
    BY Zenon, <1>4
<1> QED
    BY Zenon, <1>1, <1>3, <1>6, <1>7, <1>8, <1>9, GoodLocal

(* The steps of the deferred function and of cleanup.                      *)
ClosingFields == {"pc", "idx", "err", "cause", "emitting"}

LEMMA ClosingGood ==
    ASSUME NEW r, NEW p, LocalInv(r, p), r.pc \in {"close", "cleanup"}, NEW x, Changed(r, x, ClosingFields),
           x.pc \in {"close", "cleanup"}, x.idx \in Nat, x.pc = "cleanup" => x.idx # 0
    PROVE GoodNext(r, p, x) /\ x.pc # "checkpoint"
<1>1. /\ DOMAIN x = Fields /\ x.seq = r.seq /\ x.turn = r.turn /\ x.mc = r.mc /\ x.tc = r.tc /\ x.usage = r.usage
      /\ x.extra = r.extra /\ x.compaction = r.compaction /\ x.reserved = r.reserved /\ x.loopSeq = r.loopSeq
      /\ x.last = r.last /\ x.bound = r.bound /\ x.used = r.used /\ x.elig = r.elig
      /\ x.summary = r.summary /\ x.ncalls = r.ncalls /\ x.tool = r.tool
    BY Zenon DEF Changed, ClosingFields, Fields
<1>2. /\ ~InTurn(x) /\ ~Routed(x) /\ ~Placing(x) /\ ~Streaming(x)
      /\ x.pc \notin Before \cup Batch \cup CallDue \cup {"tool_start", "message", "compact", "tools", "call"}
    BY Zenon DEF Placing, Streaming, InTurn, Routed, CallDue, Before, Batch
<1>3. Typed(r) /\ Counts(r)
    BY Zenon DEF LocalInv
<1>4. Typed(x)
    BY Zenon, <1>1, <1>3 DEF Typed
<1>5. Counts(x)
    BY Zenon, <1>1, <1>2, <1>3 DEF Counts
<1>6. Shape(x, p)
    BY Zenon, <1>2 DEF Shape
<1>7. Quiet(r, p, x)
    BY Zenon, <1>1 DEF Quiet, PhaseOf, SameAbs
<1> QED
    BY Zenon, <1>1, <1>2, <1>4, <1>5, <1>6, <1>7 DEF GoodNext, LocalInv, Follows

LEMMA ClosingRecord ==
    ASSUME NEW r, NEW stage \in {"sandbox", "cleanup", "resumed"}, NEW ev, ev = Record(stage, r)
    PROVE ev.type = "execution" /\ ev.stage = stage /\ ev.stage \in AuditStages \ {"routing"}
BY Zenon DEF Record, AuditStages

LEMMA TearDownStep ==
    ASSUME EngineRunInv, NEW e \in Engines, TearDown(e)
    PROVE EngineRunInv' /\ AbsNext
<1> DEFINE r == run[e]
           x == [r EXCEPT !.pc = "cleanup"]
           y == [x EXCEPT !.err = TRUE]
           z == Stopped(y)
<1>1. r.pc = "close" /\ r.idx # 0 /\ r.pc \notin {"idle", "loaded"} /\ ~Over(r) /\ UNCHANGED unplaced
    BY EngineFacts DEF TearDown, OpenTools, Over, LocalInv, Typed
<1>2. LocalInv(r, plan[e]) /\ DOMAIN r = Fields /\ r.idx \in Nat
    BY Zenon, EngineFacts DEF LocalInv, Typed
<1>3. Local(e, x) \/ Write(e, <<Record("sandbox", r)>>, TRUE, x, z)
    BY Zenon DEF TearDown
<1>4. Changed(r, x, ClosingFields) /\ x.pc = "cleanup" /\ x.idx = r.idx
    BY Zenon, <1>2 DEF Changed, ClosingFields, Fields
<1>5. Changed(r, z, ClosingFields) /\ z.pc = "cleanup" /\ z.idx = r.idx
    <2>1. Changed(r, y, ClosingFields) /\ y.pc = "cleanup" /\ y.idx = r.idx
        BY Zenon, <1>2 DEF Changed, ClosingFields, Fields
    <2> HIDE DEF y
    <2>2. Changed(y, z, {"cause"})
        BY Zenon, <2>1 DEF Stopped, Changed, Fields
    <2> HIDE DEF z
    <2> QED
        BY Zenon, <2>1, <2>2 DEF Changed, ClosingFields, Fields
<1> HIDE DEF x, z
<1>6. GoodNext(r, plan[e], x) /\ x.pc # "checkpoint" /\ GoodNext(r, plan[e], z) /\ z.pc # "checkpoint"
    BY Zenon, <1>1, <1>2, <1>4, <1>5, ClosingGood
<1>7. CASE Local(e, x)
    BY Zenon, <1>1, <1>6, <1>7, GoodLocal
<1>8. CASE Write(e, <<Record("sandbox", r)>>, TRUE, x, z)
    BY ZenonT(40), <1>1, <1>6, <1>8, ClosingRecord, GoodAudit
<1> QED
    BY Zenon, <1>3, <1>7, <1>8

LEMMA CloseToolStep ==
    ASSUME EngineRunInv, NEW e \in Engines, CloseTool(e)
    PROVE EngineRunInv' /\ AbsNext
<1> DEFINE r == run[e]
           x == [r EXCEPT !.pc = "close", !.idx = @ - 1]
           y == [x EXCEPT !.err = TRUE]
<1>1. r.pc = "cleanup" /\ r.pc \notin {"idle", "loaded"} /\ ~Over(r) /\ UNCHANGED unplaced
    BY Zenon DEF CloseTool, Over
<1>2. LocalInv(r, plan[e]) /\ DOMAIN r = Fields /\ r.idx \in Nat /\ r.idx # 0
    BY Zenon, <1>1, EngineFacts DEF LocalInv, Typed, Counts
<1>3. Write(e, <<Record("cleanup", r)>>, TRUE, x, y) \/ Write(e, <<Record("cleanup", r)>>, TRUE, y, y)
    BY Zenon DEF CloseTool
<1>4. Changed(r, x, ClosingFields) /\ x.pc = "close" /\ x.idx = r.idx - 1
    BY Zenon, <1>2 DEF Changed, ClosingFields, Fields
<1>5. Changed(r, y, ClosingFields) /\ y.pc = "close" /\ y.idx = r.idx - 1
    BY Zenon, <1>2 DEF Changed, ClosingFields, Fields
<1> HIDE DEF x, y
<1>6. x.idx \in Nat /\ y.idx \in Nat
    BY <1>2, <1>4, <1>5
<1>7. GoodNext(r, plan[e], x) /\ x.pc # "checkpoint" /\ GoodNext(r, plan[e], y) /\ y.pc # "checkpoint"
    BY Zenon, <1>1, <1>2, <1>4, <1>5, <1>6, ClosingGood
<1>8. CASE Write(e, <<Record("cleanup", r)>>, TRUE, x, y)
    BY ZenonT(40), <1>1, <1>7, <1>8, ClosingRecord, GoodAudit
<1>9. CASE Write(e, <<Record("cleanup", r)>>, TRUE, y, y)
    BY ZenonT(40), <1>1, <1>7, <1>9, ClosingRecord, GoodAudit
<1> QED
    BY Zenon, <1>3, <1>8, <1>9

LEMMA StopLoopStep ==
    ASSUME EngineRunInv, NEW e \in Engines, StopLoop(e)
    PROVE EngineRunInv' /\ AbsNext
<1> DEFINE r == run[e]
           x == [r EXCEPT !.emitting = FALSE]
           y == [x EXCEPT !.err = TRUE]
<1>1. r.pc = "close" /\ r.pc \notin {"idle", "loaded"} /\ r.idx = 0 /\ Emittable(r, "stopped") /\ UNCHANGED unplaced
    BY Zenon DEF StopLoop, Emittable
<1>2. ~Over(r)
    BY Zenon DEF StopLoop, Over
<1>3. LocalInv(r, plan[e]) /\ DOMAIN r = Fields
    BY Zenon, EngineFacts
<1>4. Write(e, <<LoopRecord(r, "stopped")>>, TRUE, Emitted(x), y)
    BY Zenon DEF StopLoop, Emitted
<1>5. Changed(r, x, ClosingFields) /\ x.pc = "close" /\ x.idx = 0 /\ x.emitting = FALSE
    BY Zenon, <1>1, <1>3 DEF Changed, ClosingFields, Fields
<1>6. Changed(r, y, ClosingFields) /\ y.pc = "close" /\ y.idx = 0
    BY Zenon, <1>1, <1>3 DEF Changed, ClosingFields, Fields
<1> HIDE DEF x, y
<1>7. GoodNext(r, plan[e], x) /\ x.pc # "checkpoint" /\ GoodNext(r, plan[e], y) /\ y.pc # "checkpoint" /\ Over(x)
    BY <1>1, <1>3, <1>5, <1>6, ClosingGood DEF Over
<1> QED
    BY Zenon, <1>1, <1>2, <1>4, <1>7, GoodLoop

(* A cancelled caller, an expired deadline: the engine finds out later.    *)
LEMMA InterruptStep ==
    ASSUME EngineRunInv, NEW e \in Engines, Cancel(e) \/ Expire(e)
    PROVE EngineRunInv' /\ AbsNext
<1> DEFINE r == run[e]
<1>1. r.pc # "idle" /\ UNCHANGED unplaced
    BY Zenon DEF Cancel, Expire
<1>2. EngineInv(r, plan[e], proj) /\ DOMAIN r = Fields /\ StreamInv(proj) /\ plan[e] \in [Effects -> PlanStates]
    BY Zenon, EngineFacts
<1>3. PICK x : Local(e, x) /\ Alike(r, x)
    <2> DEFINE x == [r EXCEPT !.caller = TRUE, !.cause = IF @ = "live" THEN "user" ELSE @]
               y == [r EXCEPT !.cause = "wall"]
    <2>1. Alike(r, x) /\ Alike(r, y)
        BY Zenon, <1>2 DEF Alike, Fields
    <2>2. Local(e, x) \/ Local(e, y)
        BY Zenon DEF Cancel, Expire
    <2> HIDE DEF x, y
    <2> QED
        BY Zenon, <2>1, <2>2
<1>4. EngineInv(x, plan[e], proj)
    BY Zenon, <1>1, <1>2, <1>3, AlikeInv
<1>5. /\ run' = [run EXCEPT ![e] = x] /\ UNCHANGED <<proj, plan, world>>
      /\ plan' = [plan EXCEPT ![e] = plan[e]]
    BY Zenon, <1>1, <1>3 DEF Local, unplaced, EngineRunInv
<1>6. x.pc = r.pc /\ x.seq = r.seq /\ SameAbs(r, x)
    BY Zenon, <1>3 DEF Alike, Fields, SameAbs
<1>7. EngineRunInv'
    BY Zenon, <1>2, <1>4, <1>5, FrameInv
<1>8. AbsNext
    BY Zenon, <1>1, <1>5, <1>6, AbsLocal DEF PhaseOf
<1> QED
    BY Zenon, <1>7, <1>8

-----------------------------------------------------------------------------
(* Every step keeps the invariant and is a step of the abstract protocol.  *)

LEMMA PlacementHolds ==
    ASSUME EngineRunInv, NEW e \in Engines, PlacementStep(e)
    PROVE EngineRunInv' /\ AbsNext
<1>1. \/ TurnEnded(e) \/ TurnFits(e) \/ TurnOverflows(e) \/ TurnCompacts(e)
      \/ EvaluateExecution(e) \/ EvaluateEgress(e) \/ Approve(e) \/ Grant(e) \/ Route(e) \/ Reserve(e)
    BY Zenon DEF PlacementStep
<1> QED
    BY Zenon, <1>1, TurnStep, EvaluateStep, ApproveStep, GrantStep, RouteStep, ReserveStep

LEMMA ModelTurnHolds ==
    ASSUME EngineRunInv, NEW e \in Engines, ModelTurnStep(e)
    PROVE EngineRunInv' /\ AbsNext
<1>1. \/ StartTurn(e) \/ CallModel(e) \/ RecvUsage(e) \/ RecvContent(e) \/ RecvStop(e)
      \/ RecvEnd(e) \/ RecvFails(e) \/ ReturnVerdict(e) \/ EmitEvent(e) \/ TakeSummary(e)
      \/ CompactHistory(e) \/ AppendMessage(e)
    BY Zenon DEF ModelTurnStep
<1> QED
    BY Zenon, <1>1, StartTurnStep, CallModelStep, RecvUsageStep, RecvStep, ReturnVerdictStep, EmitEventStep,
       TakeSummaryStep, CompactHistoryStep, AppendMessageStep

LEMMA ToolHolds ==
    ASSUME EngineRunInv, NEW e \in Engines, ToolStep(e)
    PROVE EngineRunInv' /\ AbsNext
<1>1. \/ StartTool(e) \/ JoinBatch(e) \/ FinalizeBatch(e) \/ CutBatch(e) \/ CompleteTool(e) \/ CompleteBatch(e)
      \/ AppendToolMessage(e) \/ CommitCheckpoint(e)
      \/ \E i \in 1..MaxBatch :
            \/ BeginTool(e, i) \/ PrepareTool(e, i) \/ EvaluateTool(e, i) \/ ApproveTool(e, i)
            \/ GrantTool(e, i) \/ ExecuteTool(e, i) \/ ReportTool(e, i)
    BY Zenon DEF ToolStep
<1> QED
    BY Zenon, <1>1, StartToolStep, JoinStep, CompleteStep, CommitCheckpointStep, BeginToolStep, PrepareToolStep,
       EvaluateToolStep, ApproveToolStep, GrantToolStep, ExecuteToolStep, ReportToolStep

LEMMA NextHolds == EngineRunInv /\ [Next]_vars => EngineRunInv' /\ AbsNext
<1> SUFFICES ASSUME EngineRunInv, [Next]_vars PROVE EngineRunInv' /\ AbsNext
    BY Zenon
<1>1. CASE UNCHANGED vars
    <2>1. UNCHANGED <<proj, run, plan, world>>
        BY Zenon, <1>1 DEF vars
    <2>2. EngineRunInv'
        BY Zenon, <2>1 DEF EngineRunInv
    <2>3. UNCHANGED D!vars
        BY Zenon, <2>1 DEF D!vars, D!durable, D!world, D!local, world, WorkloadPhase, Phase, AbsCkpt, AbsHolds, AbsPc,
           AbsTurn, AbsMine, AbsExtra, AbsRoom
    <2> QED
        BY Zenon, <2>2, <2>3 DEF AbsNext
<1>2. ASSUME NEW e \in Engines, Run(e) \/ Load(e) \/ EngineStep(e) \/ Cancel(e) \/ Expire(e) \/ Crash(e)
      PROVE EngineRunInv' /\ AbsNext
    <2>1. CASE EngineStep(e)
        <3>1. \/ Admit(e) \/ Claim(e) \/ Enter(e) \/ PlacementStep(e) \/ ModelTurnStep(e) \/ ToolStep(e)
              \/ TearDown(e) \/ CloseTool(e) \/ StopLoop(e) \/ Finish(e)
            BY Zenon, <2>1 DEF EngineStep
        <3> QED
            BY Zenon, <3>1, AdmitStep, ClaimStep, EnterStep, PlacementHolds, ModelTurnHolds, ToolHolds, TearDownStep,
               CloseToolStep, StopLoopStep, FinishStep
    <2> QED
        BY Zenon, <1>2, <2>1, RunStep, LoadStep, InterruptStep, CrashStep
<1> QED
    BY Zenon, <1>1, <1>2 DEF Next

(* The invariant holds in every state of every execution.                  *)
THEOREM AlwaysEngineRunInv == Spec => []EngineRunInv
BY InitHolds, NextHolds, PTL DEF Spec

(* Every stream an engine writes is one replay accepts, for any number of  *)
(* engines, crashes, resumes, cancellations and store faults: no event     *)
(* that applyExecutionRecorded would reject is ever committed.             *)
THEOREM StreamsReplay == Spec => []ReplayAccepts
<1>1. EngineRunInv => ReplayAccepts
    BY Zenon DEF EngineRunInv, StreamInv, ReplayAccepts
<1> QED
    BY <1>1, AlwaysEngineRunInv, PTL

(* Every step of every engine is a step of the durable protocol, or none   *)
(* of its concern: the detailed engine implements DurableExecution.        *)
THEOREM EngineImplementsDurableExecution == Spec => ImplementsDurableExecution
<1>1. EngineRunInv /\ [Next]_vars => [D!Next]_(D!vars)
    BY Zenon, NextHolds DEF AbsNext
<1> QED
    BY <1>1, InitHolds, AlwaysEngineRunInv, PTL DEF Spec, ImplementsDurableExecution, D!Spec

-----------------------------------------------------------------------------
(* What the protocol guarantees, of the engine.                            *)
DP == INSTANCE DurableExecutionProofs WITH
        state <- WorkloadPhase, ckpt <- AbsCkpt, holds <- AbsHolds,
        reserved <- proj.resume.reserved, extra <- proj.resume.extra,
        pc <- AbsPc, turn <- AbsTurn, mine <- AbsMine, myExtra <- AbsExtra, room <- AbsRoom

LEMMA ProtocolAssumptions == DP!BatchAssumption /\ DP!CallsAssumption /\ DP!SpendAssumption
BY EngineAssumption DEF DP!BatchAssumption, DP!CallsAssumption, DP!SpendAssumption, DP!Amounts, Amounts

LEMMA SameProtocol == D!Spec => DP!Spec
<1>1. D!Init => DP!Init
    BY Zenon DEF D!Init, DP!Init, D!Zero, DP!Zero, D!NoPlan, DP!NoPlan, D!Effects, DP!Effects, D!Calls, DP!Calls,
       D!Summary, DP!Summary, D!Model, DP!Model, D!Tool, DP!Tool
<1>2. [D!Next]_(D!vars) => [DP!Next]_(DP!vars)
    BY Zenon DEF D!Next, DP!Next, D!vars, DP!vars, D!durable, DP!durable, D!world, DP!world, D!local, DP!local,
       D!Create, DP!Create, D!Load, DP!Load, D!Claim, DP!Claim, D!Note, DP!Note, D!Intend, DP!Intend,
       D!Perform, DP!Perform, D!Report, DP!Report, D!Compact, DP!Compact, D!Checkpoint, DP!Checkpoint,
       D!Stop, DP!Stop, D!Finish, DP!Finish, D!Leave, DP!Leave, D!Append, DP!Append, D!After, DP!After,
       D!Reset, DP!Reset, D!MayIntend, DP!MayIntend, D!Plus, DP!Plus, D!Minus, DP!Minus, D!Within,
       DP!Within, D!Zero, DP!Zero, D!NoPlan, DP!NoPlan, D!Effects, DP!Effects, D!Calls, DP!Calls,
       D!Summary, DP!Summary, D!Model, DP!Model, D!Tool, DP!Tool
<1> QED
    BY <1>1, <1>2, PTL DEF D!Spec, DP!Spec

LEMMA AlwaysProtocol == Spec => []DP!Consistent
<1>1. DP!Spec => []DP!Consistent
    BY DP!AlwaysConsistent, ProtocolAssumptions
<1> QED
    BY <1>1, SameProtocol, EngineImplementsDurableExecution, PTL DEF ImplementsDurableExecution

(* Engine.Run and Engine.Resume together make no effect happen twice, make *)
(* no more model calls than Budget.MaxModelCalls, never spend more than is *)
(* reserved or reserve more than the budget, and leave no checkpoint that  *)
(* a resume would continue from and that an effect has overtaken.          *)
EnginePromises ==
    /\ repeated = {}
    /\ calls <= MaxModelCalls
    /\ Within(spent, proj.resume.reserved) /\ Within(proj.resume.reserved, MaxSpend)
    /\ AbsCkpt # 0 => \A pair \in performed : pair[1] <= AbsCkpt

THEOREM EngineKeepsPromises == Spec => []EnginePromises
<1>1. DP!Consistent => EnginePromises
    BY Zenon DEF DP!Consistent, DP!AtMostOnce, DP!CallsWithinLimit, DP!SpendWithinBudget,
       DP!ResumePointCoversEffects, DP!Within, Within, EnginePromises
<1> QED
    BY <1>1, AlwaysProtocol, PTL

(* Nothing happens any more once the terminal records are committed, in    *)
(* particular not by an engine that has gone stale in the middle of a turn.*)
EngineEnds == [][WorkloadPhase = "done" => UNCHANGED <<WorkloadPhase, performed, calls, spent>>]_vars

THEOREM EngineEndsForGood == Spec => EngineEnds
<1>1. DP!Spec => DP!TerminalIsFinal
    BY DP!TerminalStaysFinal, ProtocolAssumptions
<1>2. [WorkloadPhase = "done" => UNCHANGED <<DP!durable, performed, calls, spent>>]_(DP!vars)
      => [WorkloadPhase = "done" => UNCHANGED <<WorkloadPhase, performed, calls, spent>>]_vars
    BY Zenon DEF DP!vars, DP!durable, DP!world
<1> QED
    BY <1>1, <1>2, SameProtocol, EngineImplementsDurableExecution, PTL
       DEF ImplementsDurableExecution, DP!TerminalIsFinal, EngineEnds
=============================================================================
