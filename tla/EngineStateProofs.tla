-------------------------- MODULE EngineStateProofs --------------------------
(***************************************************************************)
(* The inductive invariant of the execution engine, and the proofs that    *)
(* the actions that start, resume and end an execution, and those that     *)
(* place and make a model call, keep it and implement DurableExecution,    *)
(* for any number of engines, any budget, any number of candidates and     *)
(* tools and any faults.                                                   *)
(***************************************************************************)
EXTENDS EngineRun, TLAPS

-----------------------------------------------------------------------------
(* The inductive invariant.                                                *)

(* Where an engine is in a turn: placing its call, consuming the stream of *)
(* a call it made, or in the batch of tool calls.                          *)
Before == {"idle", "admit", "loaded", "enter", "turn"}

Placing(r) ==
    \/ r.pc \in {"policy", "egress", "route", "reserve"}
    \/ r.pc \in {"approve", "grant"} /\ r.asked # "return"

Streaming(r) ==
    \/ r.pc \in {"recv", "return", "emit", "compact", "message"}
    \/ r.pc \in {"approve", "grant"} /\ r.asked = "return"

Batch == {"tools", "finalize", "completed", "tool_message", "checkpoint"}

CallDue == {"start", "call"}

InTurn(r) == Placing(r) \/ r.pc \in CallDue \/ Streaming(r) \/ r.pc = "tool_start" \/ r.pc \in Batch

(* The placement of the call in progress is recorded.                      *)
Routed(r) ==
    \/ r.pc = "reserve"
    \/ r.pc = "approve" /\ r.asked = "step"
    \/ r.pc \in CallDue \/ Streaming(r) \/ r.pc = "tool_start" \/ r.pc \in Batch

Fields ==
    {"pc", "seq", "storeErr", "cause", "caller", "turn", "mc", "tc", "usage", "stop", "err", "extra",
     "compaction", "reserved", "approved", "loopSeq", "emitting", "purpose", "cand", "elig", "sel", "asked",
     "last", "bound", "used", "pend", "events", "terminal", "text", "said", "modelErr", "summary", "ncalls",
     "idx", "nres", "batchErr", "parallel", "tool"}

Typed(r) ==
    /\ DOMAIN r = Fields
    /\ r.seq \in Nat /\ r.turn \in Nat /\ r.mc \in Nat /\ r.tc \in Nat /\ r.extra \in Nat /\ r.loopSeq \in Nat
    /\ r.last \in Nat /\ r.ncalls \in Nat /\ r.idx \in Nat
    /\ r.elig \subseteq 1..NC
    /\ r.usage \in Amounts /\ r.compaction \in Amounts /\ r.summary \in Amounts
    /\ r.reserved \in Amounts /\ r.bound \in Amounts /\ r.used \in Amounts
    /\ DOMAIN r.tool = 1..MaxBatch

PlanStates == {"none", "intended", "performed", "recorded"}

Untouched(p) == \A i \in 1..MaxBatch : p[Tool(i)] = "none"

Settled(p) == p[Summary] \in {"none", "recorded"}

(* The plan of a turn whose next or last call is in a state.               *)
CallPlan(r, p, state) ==
    /\ Untouched(p)
    /\ IF r.purpose = "summary" THEN p[Summary] = state /\ p[Model] = "none"
       ELSE p[Model] = state /\ Settled(p)

(* What the plan says where an engine is.                                  *)
Shape(r, p) ==
    /\ r.pc \in Before => p = NoPlan
    /\ Placing(r) => CallPlan(r, p, "none")
    /\ r.pc \in CallDue => CallPlan(r, p, "intended")
    /\ Streaming(r) => CallPlan(r, p, "performed")
    /\ r.pc \in Batch \cup {"tool_start"} => p[Model] = "performed" /\ Settled(p)
    /\ r.pc = "tool_start" => \A i \in 1..MaxBatch : p[Tool(i)] = IF i < r.idx THEN "intended" ELSE "none"
    /\ r.pc = "tools" => \A i \in 1..MaxBatch :
            i <= r.ncalls /\ r.tool[i] \in {"ready", "prepare", "policy", "approve", "grant", "execute"}
                => p[Tool(i)] = "intended"

(* The locals of a turn.                                                   *)
Counts(r) ==
    /\ r.turn # 0
    /\ r.pc \in Before \/ Placing(r) \/ r.pc \in CallDue \/ (Streaming(r) /\ r.purpose = "summary")
        => r.mc + 1 = r.turn
    /\ (Streaming(r) /\ r.purpose # "summary") \/ r.pc = "tool_start" \/ r.pc \in Batch => r.mc = r.turn
    /\ InTurn(r) => r.turn + r.extra <= MaxModelCalls
    /\ (Placing(r) \/ r.pc = "call") /\ r.purpose = "summary" => r.turn + r.extra < MaxModelCalls
    /\ InTurn(r) /\ r.purpose = "summary" => r.last # 0 /\ r.last <= r.seq
    /\ r.pc \in {"start", "message", "tool_start"} \cup Batch => r.purpose # "summary"
    /\ r.pc = "compact" => r.purpose = "summary"
    /\ Routed(r) => r.sel # 0
    /\ Streaming(r) => r.ncalls <= MaxBatch
    /\ Streaming(r) /\ r.pc \notin {"recv", "compact", "message"} =>
            /\ r.pend.kind \in {"content", "tool_call", "usage", "stop", "error"}
            /\ r.pend.kind = "usage" => r.pend.usage \in Amounts
            /\ r.pend.kind = "tool_call" => r.ncalls < MaxBatch
    /\ r.pc \in Batch \cup {"tool_start"} => r.tc # 0 /\ r.stop = "tool_use" /\ r.ncalls <= MaxBatch
    /\ r.pc = "tool_start" => r.idx # 0 /\ r.idx <= r.ncalls
    /\ r.pc = "cleanup" => r.idx # 0
    /\ Within(r.reserved, MaxSpend)

(* The loop is over and its end recorded, or an emission has failed.       *)
Over(r) == r.pc = "close" /\ r.idx = 0 /\ r.emitting = FALSE

(* An engine whose sequence is the stream's knows what the stream says.    *)
Knows(r, q) ==
    r.seq = q.version =>
        /\ q.workload = "running"
        /\ q.loopSeq = r.loopSeq
        /\ q.resume.reserved = r.reserved
        /\ q.loopType = "stopped" => Over(r)
        /\ r.pc = "checkpoint" => q.loopType = "tool_message"
        /\ Routed(r) => q.routing[r.turn] = r.sel

(* What an engine's own state is like, whatever the stream says.           *)
LocalInv(r, p) == Typed(r) /\ Counts(r) /\ Shape(r, p)

EngineInv(r, p, q) ==
    /\ LocalInv(r, p)
    /\ r.pc = "idle" => r = Idle
    /\ r.pc # "idle" => r.seq # 0 /\ r.seq <= q.version /\ Knows(r, q)

PFields ==
    {"version", "workload", "step", "loopSeq", "loopType", "routing", "finished", "result", "resume", "allowed",
     "approved", "completed", "valid"}

(* What every committed stream is like.                                    *)
StreamInv(q) ==
    /\ DOMAIN q = PFields /\ DOMAIN q.resume = {"ckpt", "reserved", "extra", "usage"}
    /\ q.valid = TRUE
    /\ q.version \in Nat /\ q.loopSeq \in Nat
    /\ DOMAIN q.routing = Turns
    /\ q.resume.reserved \in Amounts /\ Within(q.resume.reserved, MaxSpend)
    /\ q.resume.extra \in Nat /\ q.resume.usage \in Amounts
    /\ q.workload \in {"none", "running", "succeeded", "failed", "cancelled"}
    /\ q.version = 0 => q = EmptyProjection
    /\ q.workload = "none" => q.version = 0
    /\ q.workload = "running" => q.step = "running" /\ q.finished = FALSE
    /\ LET c == q.resume.ckpt
       IN c.turn # 0 => /\ q.loopType = "checkpoint" /\ c.seq = q.loopSeq
                        /\ c.turn \in Nat /\ c.result.calls = c.turn
                        /\ c.result.tools \in Nat /\ c.result.usage \in Amounts

EngineRunInv ==
    /\ StreamInv(proj)
    /\ DOMAIN run = Engines
    /\ plan \in [Engines -> [Effects -> PlanStates]]
    /\ \A e \in Engines : EngineInv(run[e], plan[e], proj)

-----------------------------------------------------------------------------
(* What one event makes of a running stream.                               *)

LEMMA ReplayOne == ASSUME NEW p, NEW ev PROVE Replay(p, <<ev>>) = Apply(p, ev)
<1> DEFINE after == CHOOSE after : after = [n \in 0..1 |-> IF n = 0 THEN p ELSE Apply(after[n - 1], <<ev>>[n])]
           g == [n \in 0..1 |-> IF n = 0 THEN p ELSE Apply(p, ev)]
<1>1. g = [n \in 0..1 |-> IF n = 0 THEN p ELSE Apply(g[n - 1], <<ev>>[n])]
  OBVIOUS
<1>2. after = [n \in 0..1 |-> IF n = 0 THEN p ELSE Apply(after[n - 1], <<ev>>[n])]
  BY Zenon, <1>1
<1>4. Replay(p, <<ev>>) = after[1]
  BY Zenon DEF Replay
<1> HIDE DEF after
<1>3. after[0] = p
  BY <1>2
<1>5. after[1] = Apply(after[0], ev)
  BY <1>2
<1> QED BY Zenon, <1>3, <1>4, <1>5

AuditStages == {"request", "budget", "resumed", "sandbox", "cleanup", "policy", "approval", "routing"}

(* An accepted event takes effect and is counted.                          *)
LEMMA AcceptedCounts ==
    ASSUME NEW q, NEW ev, q.valid = TRUE, Accepts(q, ev)
    PROVE Apply(q, ev) = [Effect(q, ev) EXCEPT !.version = @ + 1]
BY Zenon DEF Apply

(* An audit record leaves the workload, the loop and the resume point as   *)
(* they are.                                                               *)
Audited(q, ev, s) ==
    /\ DOMAIN s = PFields /\ s.version = q.version + 1 /\ s.valid = TRUE
    /\ s.workload = "running" /\ s.step = q.step /\ s.finished = q.finished /\ s.result = q.result
    /\ s.loopSeq = q.loopSeq /\ s.loopType = q.loopType
    /\ s.resume = q.resume /\ s.completed = q.completed
    /\ s.routing = IF ev.stage = "routing" THEN [q.routing EXCEPT ![ev.turn] = ev.selected] ELSE q.routing
    /\ s.allowed = IF ev.stage = "policy" THEN AllowedAfter(q.allowed, ev) ELSE q.allowed
    /\ s.approved = IF ev.stage = "approval" THEN q.approved \/ (ev.asked = "step" /\ ev.granted) ELSE q.approved

LEMMA ApplyAudit ==
    ASSUME NEW q, StreamInv(q), q.workload = "running",
           NEW ev, ev.type = "execution", ev.stage \in AuditStages, ev.stage = "routing" => ev.turn \in Turns,
           NEW s, s = Apply(q, ev)
    PROVE Audited(q, ev, s)
<1>1. DOMAIN q = PFields /\ q.valid = TRUE /\ q.step = "running" /\ q.finished = FALSE
    BY Zenon DEF StreamInv
<1>2. ev.stage # "loop" /\ ev.stage # "compaction" /\ ev.stage # "reserved" /\ ev.stage # "finished"
    BY Zenon DEF AuditStages
<1>3. Accepts(q, ev)
    BY <1>1, <1>2, EngineAssumption DEF Accepts, AcceptsExecution
<1>4. Scan(q.resume, ev) = q.resume
    BY Zenon, <1>2 DEF Scan
<1>5. s = [ApplyExecution(q, ev) EXCEPT !.version = @ + 1]
    <2>1. Effect(q, ev) = ApplyExecution(q, ev)
        BY Zenon DEF Effect
    <2>2. Apply(q, ev) = [Effect(q, ev) EXCEPT !.version = @ + 1]
        BY Zenon, <1>1, <1>3, AcceptedCounts
    <2> QED
        BY Zenon, <2>1, <2>2
<1> DEFINE t == [q EXCEPT !.resume = q.resume]
<1>6. DOMAIN t = PFields /\ \A f \in PFields : t[f] = q[f]
    BY Zenon, <1>1
<1>7. ApplyExecution(q, ev) =
        CASE ev.stage = "routing" -> [t EXCEPT !.routing[ev.turn] = ev.selected]
          [] ev.stage = "policy" -> [t EXCEPT !.allowed = AllowedAfter(@, ev)]
          [] ev.stage = "approval" -> [t EXCEPT !.approved = @ \/ (ev.asked = "step" /\ ev.granted)]
          [] OTHER -> t
    BY Zenon, <1>2, <1>4 DEF ApplyExecution
<1> HIDE DEF t
<1>8. CASE ev.stage = "routing"
    <2>1. s = [[t EXCEPT !.routing[ev.turn] = ev.selected] EXCEPT !.version = @ + 1]
        BY Zenon, <1>5, <1>7, <1>8
    <2> QED
        BY <1>1, <1>6, <1>8, <2>1 DEF PFields, Audited
<1>9. CASE ev.stage = "policy"
    <2>1. s = [[t EXCEPT !.allowed = AllowedAfter(@, ev)] EXCEPT !.version = @ + 1]
        BY Zenon, <1>5, <1>7, <1>9
    <2> QED
        BY <1>1, <1>6, <1>9, <2>1 DEF PFields, Audited
<1>10. CASE ev.stage = "approval"
    <2>1. s = [[t EXCEPT !.approved = @ \/ (ev.asked = "step" /\ ev.granted)] EXCEPT !.version = @ + 1]
        BY Zenon, <1>5, <1>7, <1>10
    <2> QED
        BY <1>1, <1>6, <1>10, <2>1 DEF PFields, Audited
<1>11. CASE ev.stage \notin {"routing", "policy", "approval"}
    <2>1. s = [t EXCEPT !.version = @ + 1]
        BY Zenon, <1>5, <1>7, <1>11
    <2> QED
        BY <1>1, <1>6, <1>11, <2>1 DEF PFields, Audited
<1> QED
    BY Zenon, <1>8, <1>9, <1>10, <1>11

(* Such a record keeps a stream a stream.                                  *)
LEMMA AuditKeepsStream ==
    ASSUME NEW q, StreamInv(q), q.workload = "running",
           NEW ev, ev.type = "execution", ev.stage \in AuditStages, ev.stage = "routing" => ev.turn \in Turns,
           NEW s, s = Apply(q, ev)
    PROVE StreamInv(s)
<1>1. Audited(q, ev, s)
    BY Zenon, ApplyAudit
<1>2. DOMAIN s.routing = Turns
    BY Zenon, <1>1 DEF StreamInv, Audited
<1> QED
    BY SMTT(40), <1>1, <1>2 DEF StreamInv, Audited

-----------------------------------------------------------------------------
(* One engine moves: what becomes of the invariant and of the abstraction. *)

LEMMA InitialStream == StreamInv(EmptyProjection)
<1>1. Zero \in Amounts
    BY Zenon DEF Zero, Amounts
<1>2. Within(Zero, MaxSpend)
    BY EngineAssumption DEF Within, Zero, Amounts
<1> QED
    BY Zenon, <1>1, <1>2 DEF StreamInv, EmptyProjection, PFields, NoCheckpoint

LEMMA IdleFields == DOMAIN Idle = Fields
BY Zenon DEF Idle, Fields

LEMMA IdleInv ==
    ASSUME NEW q
    PROVE EngineInv(Idle, NoPlan, q)
<1>1. Zero \in Amounts
    BY Zenon DEF Zero, Amounts
<1>2. Within(Zero, MaxSpend)
    BY EngineAssumption DEF Within, Zero, Amounts
<1>3. Typed(Idle)
    BY Zenon, <1>1, IdleFields DEF Typed, Idle
<1>4. Idle.pc = "idle" /\ Idle.turn = 1 /\ Idle.mc = 0 /\ Idle.reserved = Zero
    BY Zenon DEF Idle
<1>5. Counts(Idle)
    BY <1>2, <1>4 DEF Counts, InTurn, Placing, Streaming, Routed, Before, Batch, CallDue
<1>6. Shape(Idle, NoPlan)
    BY Zenon, <1>4 DEF Shape, Placing, Streaming, Before, Batch, CallDue
<1> QED
    BY Zenon, <1>3, <1>4, <1>5, <1>6 DEF EngineInv, LocalInv

LEMMA FrameInv ==
    ASSUME EngineRunInv, NEW e \in Engines, NEW r, NEW p \in [Effects -> PlanStates],
           run' = [run EXCEPT ![e] = r], plan' = [plan EXCEPT ![e] = p],
           StreamInv(proj'), proj' = proj \/ proj'.version > proj.version,
           EngineInv(r, p, proj')
    PROVE EngineRunInv'
<1>1. DOMAIN run' = Engines /\ plan' \in [Engines -> [Effects -> PlanStates]]
    BY Zenon DEF EngineRunInv
<1>2. ASSUME NEW f \in Engines PROVE EngineInv(run'[f], plan'[f], proj')
    <2>1. CASE f = e
        <3>1. run'[f] = r /\ plan'[f] = p
            BY Zenon, <2>1 DEF EngineRunInv
        <3> QED
            BY Zenon, <3>1
    <2>2. CASE f # e
        <3>1. run'[f] = run[f] /\ plan'[f] = plan[f] /\ EngineInv(run[f], plan[f], proj)
            BY Zenon, <2>2 DEF EngineRunInv
        <3>2. CASE proj' = proj
            BY Zenon, <3>1, <3>2
        <3>3. CASE proj'.version > proj.version
            <4>1. proj.version \in Nat /\ proj'.version \in Nat
                BY Zenon DEF EngineRunInv, StreamInv
            <4>2. run[f].seq \in Nat
                BY Zenon, <3>1 DEF EngineInv, LocalInv, Typed
            <4> QED
                BY <3>1, <3>3, <4>1, <4>2 DEF EngineInv, Knows
        <3> QED
            BY Zenon, <3>2, <3>3
    <2> QED
        BY Zenon, <2>1, <2>2
<1> QED
    BY Zenon, <1>1, <1>2 DEF EngineRunInv

PhaseOf(r, p) ==
    CASE r.pc \in {"idle", "loaded"} -> r.pc
      [] r.pc \in {"close", "cleanup"} -> "closing"
      [] OTHER -> IF p = NoPlan THEN "ready" ELSE "busy"

LEMMA Updated ==
    ASSUME NEW S, NEW f, f = [x \in S |-> f[x]], NEW g, g = [x \in S |-> g[x]],
           NEW e \in S, NEW v, g[e] = v, \A x \in S \ {e} : g[x] = f[x]
    PROVE g = [f EXCEPT ![e] = v]
BY Zenon

(* Engine e moves to record r and plan p.                                  *)
AbsMoves(e, r, p) ==
    /\ AbsPc' = [AbsPc EXCEPT ![e] = PhaseOf(r, p)]
    /\ AbsTurn' = [AbsTurn EXCEPT ![e] = r.turn]
    /\ AbsMine' = [AbsMine EXCEPT ![e] = r.reserved]
    /\ AbsExtra' = [AbsExtra EXCEPT ![e] = r.extra]
    /\ AbsRoom' = [AbsRoom EXCEPT ![e] = Minus(r.bound, r.used)]
    /\ AbsPc[e] = PhaseOf(run[e], plan[e])
    /\ AbsTurn[e] = run[e].turn /\ AbsMine[e] = run[e].reserved /\ AbsExtra[e] = run[e].extra
    /\ AbsRoom[e] = Minus(run[e].bound, run[e].used)

LEMMA FrameAbs ==
    ASSUME EngineRunInv, NEW e \in Engines, NEW r, NEW p,
           run' = [run EXCEPT ![e] = r], plan' = [plan EXCEPT ![e] = p]
    PROVE AbsMoves(e, r, p)
<1>1. DOMAIN run = Engines /\ DOMAIN plan = Engines
    BY Zenon DEF EngineRunInv
<1>2. run'[e] = r /\ plan'[e] = p /\ \A f \in Engines \ {e} : run'[f] = run[f] /\ plan'[f] = plan[f]
    BY Zenon, <1>1
<1>3. /\ AbsPc[e] = PhaseOf(run[e], plan[e])
      /\ AbsPc'[e] = PhaseOf(r, p)
      /\ \A f \in Engines \ {e} : AbsPc'[f] = AbsPc[f]
    BY Zenon, <1>2 DEF AbsPc, Phase, PhaseOf
<1>4. AbsPc' = [AbsPc EXCEPT ![e] = PhaseOf(r, p)]
    BY Zenon, <1>3 DEF AbsPc
<1>5. AbsTurn' = [AbsTurn EXCEPT ![e] = r.turn] /\ AbsTurn[e] = run[e].turn
    <2>1. AbsTurn = [f \in Engines |-> AbsTurn[f]] /\ AbsTurn' = [f \in Engines |-> AbsTurn'[f]]
        BY DEF AbsTurn
    <2>2. AbsTurn'[e] = r.turn /\ AbsTurn[e] = run[e].turn /\ \A f \in Engines \ {e} : AbsTurn'[f] = AbsTurn[f]
        BY <1>2 DEF AbsTurn
    <2> QED
        BY Zenon, <2>1, <2>2, Updated
<1>6. AbsMine' = [AbsMine EXCEPT ![e] = r.reserved] /\ AbsMine[e] = run[e].reserved
    <2>1. AbsMine = [f \in Engines |-> AbsMine[f]] /\ AbsMine' = [f \in Engines |-> AbsMine'[f]]
        BY DEF AbsMine
    <2>2. AbsMine'[e] = r.reserved /\ AbsMine[e] = run[e].reserved /\ \A f \in Engines \ {e} : AbsMine'[f] = AbsMine[f]
        BY <1>2 DEF AbsMine
    <2> QED
        BY Zenon, <2>1, <2>2, Updated
<1>7. AbsExtra' = [AbsExtra EXCEPT ![e] = r.extra] /\ AbsExtra[e] = run[e].extra
    <2>1. AbsExtra = [f \in Engines |-> AbsExtra[f]] /\ AbsExtra' = [f \in Engines |-> AbsExtra'[f]]
        BY DEF AbsExtra
    <2>2. AbsExtra'[e] = r.extra /\ AbsExtra[e] = run[e].extra /\ \A f \in Engines \ {e} : AbsExtra'[f] = AbsExtra[f]
        BY <1>2 DEF AbsExtra
    <2> QED
        BY Zenon, <2>1, <2>2, Updated
<1>8. AbsRoom' = [AbsRoom EXCEPT ![e] = Minus(r.bound, r.used)] /\ AbsRoom[e] = Minus(run[e].bound, run[e].used)
    <2>1. AbsRoom = [f \in Engines |-> AbsRoom[f]] /\ AbsRoom' = [f \in Engines |-> AbsRoom'[f]]
        BY DEF AbsRoom
    <2>2. AbsRoom'[e] = Minus(r.bound, r.used) /\ AbsRoom[e] = Minus(run[e].bound, run[e].used) /\ \A f \in Engines \ {e} : AbsRoom'[f] = AbsRoom[f]
        BY <1>2 DEF AbsRoom
    <2> QED
        BY <2>1, <2>2, Updated
<1> QED
    BY Zenon, <1>3, <1>4, <1>5, <1>6, <1>7, <1>8 DEF AbsMoves

(* Arithmetic that the steps below need of versions and counters.          *)
LEMMA Successor ==
    ASSUME NEW n \in Nat, NEW m, m = n + 1
    PROVE m \in Nat /\ m # 0 /\ m > n /\ n <= m /\ n # m
OBVIOUS

LEMMA AtMostItself ==
    ASSUME NEW n \in Nat
    PROVE n <= n /\ ~(n < n)
OBVIOUS

LEMMA NoCheckpointTurn == NoCheckpoint.turn = 0
BY DEF NoCheckpoint

LEMMA FrameHolds ==
    ASSUME EngineRunInv, NEW e \in Engines, NEW r, run' = [run EXCEPT ![e] = r]
    PROVE /\ proj' = proj => AbsHolds' = IF r.pc # "idle" /\ r.seq = proj.version
                                         THEN AbsHolds \cup {e} ELSE AbsHolds \ {e}
          /\ proj'.version \in Nat /\ proj'.version > proj.version =>
                AbsHolds' = IF r.pc # "idle" /\ r.seq = proj'.version THEN {e} ELSE {}
          /\ e \in AbsHolds <=> run[e].pc # "idle" /\ run[e].seq = proj.version
<1>1. run'[e] = r /\ \A f \in Engines \ {e} : run'[f] = run[f]
    BY Zenon DEF EngineRunInv
<1>2. ASSUME NEW f \in Engines, run[f].pc # "idle"
      PROVE run[f].seq \in Nat /\ run[f].seq <= proj.version /\ proj.version \in Nat
    BY Zenon, <1>2 DEF EngineRunInv, EngineInv, LocalInv, Typed, StreamInv
<1>3. proj' = proj => AbsHolds' = IF r.pc # "idle" /\ r.seq = proj.version
                                  THEN AbsHolds \cup {e} ELSE AbsHolds \ {e}
    BY <1>1 DEF AbsHolds
<1>4. ASSUME proj'.version \in Nat, proj'.version > proj.version
      PROVE AbsHolds' = IF r.pc # "idle" /\ r.seq = proj'.version THEN {e} ELSE {}
    <2>1. ASSUME NEW f \in Engines \ {e} PROVE f \notin AbsHolds'
        BY <1>1, <1>2, <1>4, <2>1 DEF AbsHolds
    <2>2. e \in AbsHolds' <=> r.pc # "idle" /\ r.seq = proj'.version
        BY Zenon, <1>1 DEF AbsHolds
    <2>3. AbsHolds' \subseteq Engines
        BY Zenon DEF AbsHolds
    <2> QED
        BY Zenon, <2>1, <2>2, <2>3
<1> QED
    BY Zenon, <1>3, <1>4 DEF AbsHolds

(* An engine that keeps its sequence while the stream stays as it is holds *)
(* the stream exactly when it held it before.                              *)
LEMMA SameHolds ==
    ASSUME EngineRunInv, NEW e \in Engines, NEW r, run' = [run EXCEPT ![e] = r], proj' = proj,
           r.seq = run[e].seq, r.pc # "idle", run[e].pc # "idle"
    PROVE AbsHolds' = AbsHolds
<1>1. AbsHolds' = IF e \in AbsHolds THEN AbsHolds \cup {e} ELSE AbsHolds \ {e}
    BY Zenon, FrameHolds
<1> HIDE DEF AbsHolds
<1> QED
    BY Zenon, <1>1

(* The abstract step an engine takes.                                      *)
AbsNext == [D!Next]_(D!vars)

-----------------------------------------------------------------------------
(* The outcomes of a write: it is committed and acknowledged, refused, or  *)
(* committed and reported as failed.                                       *)

Alike(r, s) == DOMAIN s = Fields /\ \A f \in Fields \ {"storeErr", "cause", "caller"} : s[f] = r[f]

Acked(ok, n) == [ok EXCEPT !.seq = @ + n]

Written(e, evs, ok, failed, s) ==
    /\ run' = [run EXCEPT ![e] = Left(s)]
    /\ \/ run[e].seq = proj.version /\ proj' = Replay(proj, evs) /\ s = Acked(ok, Len(evs))
       \/ /\ proj' = proj \/ (run[e].seq = proj.version /\ proj' = Replay(proj, evs))
          /\ Alike(failed, s)
          /\ Interrupts = {} => s.cause = failed.cause /\ s.caller = failed.caller

LEMMA WriteCases ==
    ASSUME NEW e, NEW evs, NEW detached, NEW ok, NEW failed, DOMAIN failed = Fields,
           Write(e, evs, detached, ok, failed)
    PROVE \E s : Written(e, evs, ok, failed, s)
<1> DEFINE Becomes(s) == run' = [run EXCEPT ![e] = Left(s)]
           a == Acked(ok, Len(evs))
           b == [failed EXCEPT !.storeErr = @ \/ Sticky(e, detached)]
           c(sticky) == [failed EXCEPT !.storeErr = sticky]
           d(why) == [failed EXCEPT !.cause = why, !.caller = why = "user"]
<1>1. Alike(failed, b) /\ b.cause = failed.cause /\ b.caller = failed.caller
    BY Zenon DEF Alike, Fields
<1>2. \A sticky : Alike(failed, c(sticky)) /\ c(sticky).cause = failed.cause /\ c(sticky).caller = failed.caller
    BY Zenon DEF Alike, Fields
<1>3. \A why : Alike(failed, d(why))
    BY Zenon DEF Alike, Fields
<1>4. \/ run[e].seq = proj.version /\ proj' = Replay(proj, evs) /\ Becomes(a)
      \/ proj' = proj /\ Becomes(b)
      \/ /\ proj' = proj \/ (run[e].seq = proj.version /\ proj' = Replay(proj, evs))
         /\ \E sticky : Becomes(c(sticky))
      \/ run[e].seq = proj.version /\ proj' = Replay(proj, evs) /\ \E why \in Interrupts : Becomes(d(why))
    BY Zenon DEF Write, Acked
<1> HIDE DEF b, c, d
<1>5. CASE run[e].seq = proj.version /\ proj' = Replay(proj, evs) /\ Becomes(a)
    BY Zenon, <1>5 DEF Written
<1>6. CASE proj' = proj /\ Becomes(b)
    BY Zenon, <1>1, <1>6 DEF Written
<1>7. CASE /\ proj' = proj \/ (run[e].seq = proj.version /\ proj' = Replay(proj, evs))
           /\ \E sticky : Becomes(c(sticky))
    BY Zenon, <1>2, <1>7 DEF Written
<1>8. CASE run[e].seq = proj.version /\ proj' = Replay(proj, evs) /\ \E why \in Interrupts : Becomes(d(why))
    BY Zenon, <1>3, <1>8 DEF Written
<1> QED
    BY Zenon, <1>4, <1>5, <1>6, <1>7, <1>8

(* x is r but for the fields S.                                            *)
Changed(r, x, S) == DOMAIN x = Fields /\ \A f \in Fields \ S : x[f] = r[f]

LEMMA EngineFacts ==
    ASSUME EngineRunInv, NEW e \in Engines
    PROVE /\ EngineInv(run[e], plan[e], proj) /\ LocalInv(run[e], plan[e])
          /\ DOMAIN run[e] = Fields /\ StreamInv(proj) /\ plan[e] \in [Effects -> PlanStates]
          /\ run[e].pc # "idle" => run[e].seq # 0
BY Zenon DEF EngineRunInv, EngineInv, LocalInv, Typed

-----------------------------------------------------------------------------
(* An engine comes and goes: the actions of EngineRun that start, resume   *)
(* and end an execution.                                                   *)

LEMMA InitHolds == Init => EngineRunInv /\ D!Init
<1> SUFFICES ASSUME Init PROVE EngineRunInv /\ D!Init
    BY Zenon
<1>1. /\ proj = EmptyProjection /\ DOMAIN run = Engines /\ \A e \in Engines : run[e] = Idle
      /\ plan = [e \in Engines |-> NoPlan]
    BY Zenon DEF Init
<1>2. NoPlan \in [Effects -> PlanStates]
    BY Zenon DEF NoPlan, PlanStates
<1>3. EngineRunInv
    BY Zenon, <1>1, <1>2, InitialStream, IdleInv DEF EngineRunInv
<1>4. /\ Idle.pc = "idle" /\ Idle.turn = 1 /\ Idle.reserved = Zero /\ Idle.extra = 0 /\ Idle.bound = Zero
      /\ Idle.used = Zero /\ Minus(Zero, Zero) = Zero
    BY DEF Idle, Minus, Zero
<1>5. \A e \in Engines : Phase(e) = "idle"
    BY Zenon, <1>1, <1>4 DEF Phase
<1>6. AbsHolds = {}
    BY Zenon, <1>1, <1>4 DEF AbsHolds
<1>7. /\ AbsPc = [e \in Engines |-> "idle"] /\ AbsTurn = [e \in Engines |-> 1]
      /\ AbsMine = [e \in Engines |-> Zero] /\ AbsExtra = [e \in Engines |-> 0] /\ AbsRoom = [e \in Engines |-> Zero]
    BY Zenon, <1>1, <1>4, <1>5 DEF AbsPc, AbsTurn, AbsMine, AbsExtra, AbsRoom
<1>8. /\ WorkloadPhase = "absent" /\ AbsCkpt = 0 /\ proj.resume.reserved = Zero /\ proj.resume.extra = 0
    BY Zenon, <1>1 DEF WorkloadPhase, AbsCkpt, EmptyProjection
<1>9. D!Zero = Zero /\ D!NoPlan = NoPlan
    BY Zenon DEF D!Zero, Zero, D!NoPlan, NoPlan, D!Effects, Effects, D!Calls, D!Summary, Summary, D!Model, Model, D!Tool, Tool
<1>10. performed = {} /\ repeated = {} /\ calls = 0 /\ spent = Zero
    BY Zenon DEF Init
<1>11. D!Init
    BY Zenon, <1>1, <1>6, <1>7, <1>8, <1>9, <1>10 DEF D!Init
<1> QED
    BY Zenon, <1>3, <1>11

(* An engine that leaves forgets everything.                               *)
LEMMA AbsReset ==
    ASSUME EngineRunInv, NEW e \in Engines, run' = [run EXCEPT ![e] = Idle], plan' = [plan EXCEPT ![e] = NoPlan]
    PROVE AbsPc' = [AbsPc EXCEPT ![e] = "idle"] /\ D!Reset(e)
<1>1. AbsMoves(e, Idle, NoPlan)
    BY Zenon, FrameAbs
<1>2. /\ Idle.pc = "idle" /\ Idle.turn = 1 /\ Idle.reserved = Zero /\ Idle.extra = 0 /\ Idle.bound = Zero
      /\ Idle.used = Zero /\ PhaseOf(Idle, NoPlan) = "idle" /\ Minus(Zero, Zero) = Zero
    BY DEF Idle, PhaseOf, Minus, Zero
<1>3. D!Zero = Zero /\ D!NoPlan = NoPlan
    BY Zenon DEF D!Zero, Zero, D!NoPlan, NoPlan, D!Effects, Effects, D!Calls, D!Summary, Summary, D!Model, Model, D!Tool, Tool
<1> QED
    BY Zenon, <1>1, <1>2, <1>3 DEF AbsMoves, D!Reset

LEMMA IdleStays ==
    ASSUME EngineRunInv, NEW e \in Engines, run' = [run EXCEPT ![e] = Idle], plan' = [plan EXCEPT ![e] = NoPlan],
           StreamInv(proj'), proj' = proj \/ proj'.version > proj.version
    PROVE EngineRunInv'
<1>1. NoPlan \in [Effects -> PlanStates] /\ EngineInv(Idle, NoPlan, proj')
    BY Zenon, IdleInv DEF NoPlan, PlanStates
<1> QED
    BY Zenon, <1>1, FrameInv

LEMMA LeaveStep ==
    ASSUME EngineRunInv, NEW e \in Engines, run[e].pc # "idle",
           run' = [run EXCEPT ![e] = Idle], plan' = [plan EXCEPT ![e] = NoPlan], UNCHANGED <<proj, world>>
    PROVE EngineRunInv' /\ AbsNext
<1>1. EngineRunInv'
    BY Zenon, IdleStays, EngineFacts
<1>2. AbsPc' = [AbsPc EXCEPT ![e] = "idle"] /\ D!Reset(e)
    BY Zenon, AbsReset
<1>3. AbsHolds' = AbsHolds \ {e}
    <2>1. Idle.pc = "idle"
        BY Zenon DEF Idle
    <2> QED
        BY Zenon, <2>1, FrameHolds
<1>4. AbsPc[e] # "idle"
    BY Zenon, FrameAbs DEF AbsMoves, PhaseOf
<1>5. UNCHANGED D!durable
    BY Zenon DEF D!durable, AbsCkpt, WorkloadPhase
<1>6. D!Leave(e)
    BY Zenon, <1>2, <1>3, <1>4, <1>5 DEF D!Leave, D!world, world
<1> QED
    BY Zenon, <1>1, <1>6 DEF AbsNext, D!Next

LEMMA CrashStep ==
    ASSUME EngineRunInv, NEW e \in Engines, Crash(e)
    PROVE EngineRunInv' /\ AbsNext
<1>1. /\ run[e].pc # "idle" /\ run' = [run EXCEPT ![e] = Idle] /\ plan' = [plan EXCEPT ![e] = NoPlan]
      /\ UNCHANGED <<proj, world>>
    BY Zenon DEF Crash, Local
<1> QED
    BY Zenon, <1>1, LeaveStep

(* The seven opening events.                                               *)
LEMMA ReplaySeven ==
    ASSUME NEW p, NEW e1, NEW e2, NEW e3, NEW e4, NEW e5, NEW e6, NEW e7,
           NEW p1, p1 = Apply(p, e1), NEW p2, p2 = Apply(p1, e2), NEW p3, p3 = Apply(p2, e3),
           NEW p4, p4 = Apply(p3, e4), NEW p5, p5 = Apply(p4, e5), NEW p6, p6 = Apply(p5, e6),
           NEW p7, p7 = Apply(p6, e7)
    PROVE Replay(p, <<e1, e2, e3, e4, e5, e6, e7>>) = p7
<1> DEFINE es == <<e1, e2, e3, e4, e5, e6, e7>>
           after == CHOOSE after : after = [n \in 0..7 |-> IF n = 0 THEN p ELSE Apply(after[n - 1], es[n])]
           g == [n \in 0..7 |-> IF n = 0 THEN p ELSE <<p1, p2, p3, p4, p5, p6, p7>>[n]]
<1>1. g = [n \in 0..7 |-> IF n = 0 THEN p ELSE Apply(g[n - 1], es[n])]
  <2> SUFFICES ASSUME NEW n \in 0..7 PROVE g[n] = IF n = 0 THEN p ELSE Apply(g[n - 1], es[n])
     BY Zenon
  <2>1. n = 0 \/ n = 1 \/ n = 2 \/ n = 3 \/ n = 4 \/ n = 5 \/ n = 6 \/ n = 7
     OBVIOUS
  <2> QED BY <2>1
<1>2. after = [n \in 0..7 |-> IF n = 0 THEN p ELSE Apply(after[n - 1], es[n])]
  BY Zenon, <1>1
<1>3. Replay(p, es) = after[7]
  BY Zenon DEF Replay
<1> HIDE DEF after
<1>4. after[0] = p /\ after[1] = Apply(after[0], e1) /\ after[2] = Apply(after[1], e2) /\ after[3] = Apply(after[2], e3)
  BY <1>2
<1>5. after[4] = Apply(after[3], e4) /\ after[5] = Apply(after[4], e5) /\ after[6] = Apply(after[5], e6) /\ after[7] = Apply(after[6], e7)
  BY <1>2
<1> QED BY Zenon, <1>3, <1>4, <1>5

(* The opening events start the workload and its step.                     *)
Opened(p, version, workload, step) ==
    /\ DOMAIN p = PFields /\ p.version = version /\ p.workload = workload /\ p.step = step
    /\ \A f \in PFields \ {"version", "workload", "step"} : p[f] = EmptyProjection[f]

LEMMA ApplyOpening == Opened(Replay(EmptyProjection, Opening), 7, "running", "running")
<1> DEFINE e1 == [type |-> "workload_created"]
           e2 == WorkloadMoves("created", "running")
           e3 == [type |-> "step_created"]
           e4 == StepMoves("pending", "ready")
           e5 == StepMoves("ready", "leased")
           e6 == StepMoves("leased", "running")
           e7 == Record("request", Idle)
           p0 == EmptyProjection
           p1 == Apply(p0, e1)
           p2 == Apply(p1, e2)
           p3 == Apply(p2, e3)
           p4 == Apply(p3, e4)
           p5 == Apply(p4, e5)
           p6 == Apply(p5, e6)
           p7 == Apply(p6, e7)
<1>1. Opening = <<e1, e2, e3, e4, e5, e6, e7>>
    BY Zenon DEF Opening
<1>2. /\ e1.type = "workload_created"
      /\ e2.type = "workload_transitioned" /\ e2.from = "created" /\ e2.to = "running"
      /\ e3.type = "step_created"
      /\ e4.type = "step_transitioned" /\ e4.from = "pending" /\ e4.to = "ready"
      /\ e5.type = "step_transitioned" /\ e5.from = "ready" /\ e5.to = "leased"
      /\ e6.type = "step_transitioned" /\ e6.from = "leased" /\ e6.to = "running"
      /\ e7.type = "execution" /\ e7.stage = "request"
    BY Zenon DEF WorkloadMoves, StepMoves, Record
<1> HIDE DEF e1, e2, e3, e4, e5, e6, e7, p0, p1, p2, p3, p4, p5, p6, p7
<1>3. Opened(p0, 0, "none", "none")
    BY Zenon DEF Opened, EmptyProjection, PFields, p0
<1>4. ASSUME NEW p, NEW v, NEW w, NEW x, Opened(p, v, w, x), NEW ev, Accepts(p, ev),
             NEW w2, NEW x2, Opened(Effect(p, ev), v, w2, x2)
      PROVE Opened(Apply(p, ev), v + 1, w2, x2)
    <2>1. p.valid = TRUE
        BY Zenon, <1>4 DEF Opened, EmptyProjection, PFields
    <2>2. Apply(p, ev) = [Effect(p, ev) EXCEPT !.version = @ + 1]
        BY Zenon, <1>4, <2>1, AcceptedCounts
    <2> QED
        BY Zenon, <1>4, <2>2 DEF Opened, PFields
<1>5. ASSUME NEW p, NEW v, NEW w, NEW x, Opened(p, v, w, x), NEW y, NEW t
      PROVE /\ t = [p EXCEPT !.workload = y] => Opened(t, v, y, x)
            /\ t = [p EXCEPT !.step = y] => Opened(t, v, w, y)
    BY Zenon, <1>5 DEF Opened, PFields
<1>6. Opened(p1, 1, "created", "none")
    <2>1. Accepts(p0, e1) /\ Effect(p0, e1) = [p0 EXCEPT !.workload = "created"]
        BY Zenon, <1>2, <1>3 DEF Accepts, Effect, Opened
    <2>2. Opened(Effect(p0, e1), 0, "created", "none")
        BY Zenon, <1>3, <1>5, <2>1
    <2> QED
        BY <1>3, <1>4, <2>1, <2>2 DEF p1
<1>7. Opened(p2, 2, "running", "none")
    <2>1. Accepts(p1, e2) /\ Effect(p1, e2) = [p1 EXCEPT !.workload = "running"]
        BY <1>2, <1>6 DEF Accepts, Effect, Opened, CanTransitionWorkload, WorkloadTransitions
    <2>2. Opened(Effect(p1, e2), 1, "running", "none")
        BY Zenon, <1>6, <1>5, <2>1
    <2> QED
        BY <1>6, <1>4, <2>1, <2>2 DEF p2
<1>8. Opened(p3, 3, "running", "pending")
    <2>1. Accepts(p2, e3) /\ Effect(p2, e3) = [p2 EXCEPT !.step = "pending"]
        BY Zenon, <1>2, <1>7 DEF Accepts, Effect, Opened
    <2>2. Opened(Effect(p2, e3), 2, "running", "pending")
        BY Zenon, <1>7, <1>5, <2>1
    <2> QED
        BY <1>7, <1>4, <2>1, <2>2 DEF p3
<1>9. Opened(p4, 4, "running", "ready")
    <2>1. Accepts(p3, e4) /\ Effect(p3, e4) = [p3 EXCEPT !.step = "ready"]
        BY <1>2, <1>8 DEF Accepts, Effect, Opened, CanTransitionStep, StepTransitions
    <2>2. Opened(Effect(p3, e4), 3, "running", "ready")
        BY Zenon, <1>8, <1>5, <2>1
    <2> QED
        BY <1>8, <1>4, <2>1, <2>2 DEF p4
<1>10. Opened(p5, 5, "running", "leased")
    <2>1. Accepts(p4, e5) /\ Effect(p4, e5) = [p4 EXCEPT !.step = "leased"]
        BY <1>2, <1>9 DEF Accepts, Effect, Opened, CanTransitionStep, StepTransitions
    <2>2. Opened(Effect(p4, e5), 4, "running", "leased")
        BY Zenon, <1>9, <1>5, <2>1
    <2> QED
        BY <1>9, <1>4, <2>1, <2>2 DEF p5
<1>11. Opened(p6, 6, "running", "running")
    <2>1. Accepts(p5, e6) /\ Effect(p5, e6) = [p5 EXCEPT !.step = "running"]
        BY <1>2, <1>10 DEF Accepts, Effect, Opened, CanTransitionStep, StepTransitions
    <2>2. Opened(Effect(p5, e6), 5, "running", "running")
        BY Zenon, <1>10, <1>5, <2>1
    <2> QED
        BY <1>10, <1>4, <2>1, <2>2 DEF p6
<1>12. Opened(p7, 7, "running", "running")
    <2>1. Effect(p6, e7) = ApplyExecution(p6, e7)
        BY Zenon, <1>2 DEF Effect
    <2>2. ApplyExecution(p6, e7) = [p6 EXCEPT !.resume = @]
        BY Zenon, <1>2 DEF ApplyExecution, Scan
    <2>3. Opened([p6 EXCEPT !.resume = @], 6, "running", "running")
        BY Zenon, <1>11 DEF Opened, PFields
    <2>4. p6.workload = "running" /\ p6.step = "running" /\ p6.finished = FALSE
        BY Zenon, <1>11 DEF Opened, PFields, EmptyProjection
    <2>5. Accepts(p6, e7)
        BY Zenon, <1>2, <2>4 DEF Accepts, AcceptsExecution
    <2> QED
        BY <1>4, <1>11, <2>1, <2>2, <2>3, <2>5 DEF p7
<1>13. Replay(EmptyProjection, Opening) = p7
    BY SMTT(40), <1>1, ReplaySeven DEF p0, p1, p2, p3, p4, p5, p6, p7
<1> QED
    BY Zenon, <1>12, <1>13

(* Engine.Run: a stream that has no events gets the opening events.        *)
LEMMA RunStep ==
    ASSUME EngineRunInv, NEW e \in Engines, Run(e)
    PROVE EngineRunInv' /\ AbsNext
<1> DEFINE s == Replay(EmptyProjection, Opening)
<1>1. /\ run[e].pc = "idle" /\ proj.version = 0 /\ UNCHANGED unplaced
      /\ \E pc \in {"admit", "enter"} : Write(e, Opening, FALSE, [Idle EXCEPT !.pc = pc], Idle)
    BY Zenon DEF Run
<1>2. PICK pc \in {"admit", "enter"} : Write(e, Opening, FALSE, [Idle EXCEPT !.pc = pc], Idle)
    BY Zenon, <1>1
<1>3. PICK t : Written(e, Opening, [Idle EXCEPT !.pc = pc], Idle, t)
    BY Zenon, <1>2, IdleFields, WriteCases
<1>4. run[e] = Idle /\ plan[e] = NoPlan /\ proj = EmptyProjection
    BY Zenon, <1>1, EngineFacts DEF EngineInv, LocalInv, Shape, Before, StreamInv
<1>5. UNCHANGED <<plan, world>> /\ plan' = [plan EXCEPT ![e] = NoPlan] /\ NoPlan \in [Effects -> PlanStates]
    BY Zenon, <1>1, <1>4, EngineFacts DEF unplaced, EngineRunInv
<1>6. Opened(s, 7, "running", "running") /\ Len(Opening) = 7
    BY Zenon, ApplyOpening DEF Opening
<1> HIDE DEF s
<1>7. /\ s.version = 7 /\ s.workload = "running" /\ s.loopSeq = 0 /\ s.loopType = "none"
      /\ s.resume.reserved = Zero /\ s.resume.extra = 0 /\ s.resume.ckpt.turn = 0
    BY <1>6 DEF Opened, PFields, EmptyProjection, NoCheckpoint
<1>8. StreamInv(s)
    <2>1. StreamInv(EmptyProjection) /\ EmptyProjection.finished = FALSE
        BY Zenon, <1>4, EngineFacts DEF EmptyProjection
    <2>2. /\ DOMAIN s = PFields /\ s.step = "running" /\ s.finished = EmptyProjection.finished
          /\ s.valid = EmptyProjection.valid /\ s.loopSeq = EmptyProjection.loopSeq
          /\ s.routing = EmptyProjection.routing /\ s.resume = EmptyProjection.resume
        BY Zenon, <1>6 DEF Opened, PFields
    <2> QED
        BY <1>7, <2>1, <2>2 DEF StreamInv
<1>9. /\ EmptyProjection.version = 0 /\ EmptyProjection.workload = "none" /\ EmptyProjection.resume.reserved = Zero
      /\ EmptyProjection.resume.extra = 0
    BY Zenon DEF EmptyProjection
<1>10. Idle.pc = "idle" /\ Idle.seq = 0 /\ PhaseOf(Idle, NoPlan) = "idle"
    BY Zenon DEF Idle, PhaseOf
<1>14. proj' = s => proj'.version \in Nat /\ proj'.version > proj.version /\ StreamInv(proj')
    BY <1>1, <1>7, <1>8
<1>11. ASSUME proj' = s, NEW r, NEW ack \in BOOLEAN, run' = [run EXCEPT ![e] = r],
              r.turn = Idle.turn /\ r.reserved = Idle.reserved /\ r.extra = Idle.extra,
              r.bound = Idle.bound /\ r.used = Idle.used,
              AbsHolds' = IF ack THEN {e} ELSE {}, PhaseOf(r, NoPlan) = IF ack THEN "ready" ELSE "idle"
       PROVE AbsNext
    <2>1. AbsMoves(e, r, NoPlan)
        BY Zenon, <1>5, <1>11, FrameAbs
    <2>2. AbsTurn = [f \in Engines |-> AbsTurn[f]]
          /\ AbsMine = [f \in Engines |-> AbsMine[f]] /\ AbsExtra = [f \in Engines |-> AbsExtra[f]]
          /\ AbsRoom = [f \in Engines |-> AbsRoom[f]]
        BY Zenon DEF AbsTurn, AbsMine, AbsExtra, AbsRoom
    <2>3. AbsTurn' = AbsTurn /\ AbsMine' = AbsMine /\ AbsExtra' = AbsExtra /\ AbsRoom' = AbsRoom
        BY Zenon, <1>4, <1>11, <2>1, <2>2 DEF AbsMoves
    <2>4. AbsPc[e] = "idle" /\ AbsPc' = [AbsPc EXCEPT ![e] = IF ack THEN "ready" ELSE "idle"]
        BY Zenon, <1>4, <1>10, <1>11, <2>1 DEF AbsMoves
    <2>5. WorkloadPhase = "absent" /\ WorkloadPhase' = "running" /\ AbsCkpt' = AbsCkpt
        BY Zenon, <1>4, <1>7, <1>9, <1>11 DEF WorkloadPhase, AbsCkpt
    <2>6. proj'.resume.reserved = proj.resume.reserved /\ proj'.resume.extra = proj.resume.extra
        BY Zenon, <1>4, <1>7, <1>9, <1>11
    <2>7. D!Create(e, ack)
        BY Zenon, <1>5, <1>11, <2>3, <2>4, <2>5, <2>6
           DEF D!Create, D!After, D!world, D!local, world
    <2> QED
        BY Zenon, <2>7 DEF AbsNext, D!Next
<1>12. CASE proj' = s /\ t = Acked([Idle EXCEPT !.pc = pc], 7)
    <2>0. Changed(Idle, t, {"pc", "seq"}) /\ t.pc = pc /\ t.seq = 7
        <3> DEFINE x == [Idle EXCEPT !.pc = pc]
        <3>1. Changed(Idle, x, {"pc"}) /\ x.pc = pc
            BY Zenon, IdleFields DEF Changed, Fields
        <3>2. t = [x EXCEPT !.seq = @ + 7]
            BY Zenon, <1>12 DEF Acked
        <3> HIDE DEF x
        <3>3. x.seq = 0
            BY Zenon, <1>10, <3>1 DEF Changed, Fields
        <3> QED
            BY <3>1, <3>2, <3>3 DEF Changed, Fields
    <2>1. Left(t) = t /\ t.pc \in {"admit", "enter"} /\ t.seq = 7
        BY Zenon, <2>0 DEF Left
    <2>2. /\ DOMAIN t = Fields /\ t.turn = 1 /\ t.mc = 0 /\ t.tc = 0 /\ t.extra = 0 /\ t.loopSeq = 0 /\ t.last = 0
          /\ t.ncalls = 0 /\ t.idx = 0 /\ t.elig = {} /\ t.usage = Zero /\ t.compaction = Zero /\ t.summary = Zero
          /\ t.reserved = Zero /\ t.bound = Zero /\ t.used = Zero /\ t.tool = Idle.tool
        <3>1. /\ DOMAIN t = Fields /\ t.turn = Idle.turn /\ t.mc = Idle.mc /\ t.tc = Idle.tc /\ t.extra = Idle.extra
              /\ t.loopSeq = Idle.loopSeq /\ t.last = Idle.last /\ t.ncalls = Idle.ncalls /\ t.idx = Idle.idx
              /\ t.elig = Idle.elig /\ t.usage = Idle.usage /\ t.compaction = Idle.compaction
              /\ t.summary = Idle.summary /\ t.reserved = Idle.reserved /\ t.bound = Idle.bound
              /\ t.used = Idle.used /\ t.tool = Idle.tool
            BY Zenon, <2>0 DEF Changed, Fields
        <3> QED
            BY Zenon, <3>1 DEF Idle
    <2>3. Typed(t)
        <3>1. Zero \in Amounts /\ DOMAIN Idle.tool = 1..MaxBatch
            BY Zenon DEF Zero, Amounts, Idle
        <3> QED
            BY <2>1, <2>2, <3>1 DEF Typed
    <2>4. Counts(t)
        <3>1. Within(Zero, MaxSpend)
            BY EngineAssumption DEF Within, Zero, Amounts
        <3> QED
            BY SMTT(40), <2>1, <2>2, <3>1 DEF Counts, InTurn, Placing, Streaming, Routed, Before, Batch, CallDue
    <2>5. Shape(t, NoPlan)
        BY Zenon, <2>1 DEF Shape, Placing, Streaming, Before, Batch, CallDue
    <2>6. Knows(t, s)
        BY Zenon, <1>7, <2>1, <2>2 DEF Knows, Routed, Streaming, Batch, CallDue
    <2>7. EngineInv(t, NoPlan, s)
        BY <1>7, <2>1, <2>3, <2>4, <2>5, <2>6 DEF EngineInv, LocalInv
    <2>8. run' = [run EXCEPT ![e] = t]
        BY Zenon, <1>3, <2>1 DEF Written
    <2>9. EngineRunInv'
        BY Zenon, <1>5, <1>12, <1>14, <2>7, <2>8, FrameInv
    <2>10. AbsHolds' = {e}
        BY Zenon, <1>7, <1>12, <1>14, <2>1, <2>8, FrameHolds
    <2>11. PhaseOf(t, NoPlan) = "ready"
        BY Zenon, <2>1 DEF PhaseOf
    <2>12. AbsNext
        <3>1. /\ t.turn = Idle.turn /\ t.reserved = Idle.reserved /\ t.extra = Idle.extra
              /\ t.bound = Idle.bound /\ t.used = Idle.used
            BY Zenon, <2>0 DEF Changed, Fields
        <3> QED
            BY Zenon, <1>11, <1>12, <2>8, <2>10, <2>11, <3>1
    <2> QED
        BY Zenon, <2>9, <2>12
<1>13. CASE Alike(Idle, t)
    <2>1. t.pc = "idle" /\ Left(t) = Idle
        BY Zenon, <1>10, <1>13 DEF Alike, Fields, Left
    <2>2. run' = [run EXCEPT ![e] = Idle]
        BY Zenon, <1>3, <2>1 DEF Written
    <2>3. CASE proj' = s
        <3>1. EngineRunInv'
            BY Zenon, <1>5, <1>14, <2>2, <2>3, IdleStays
        <3>2. AbsHolds' = {}
            BY Zenon, <1>10, <1>14, <2>2, <2>3, FrameHolds
        <3>3. AbsNext
            BY Zenon, <1>10, <1>11, <2>2, <2>3, <3>2
        <3> QED
            BY Zenon, <3>1, <3>3
    <2>4. CASE proj' = proj
        <3>1. EngineRunInv'
            BY Zenon, <1>5, <2>2, <2>4, IdleStays, EngineFacts
        <3>2. AbsMoves(e, Idle, NoPlan)
            BY Zenon, <1>5, <2>2, FrameAbs
        <3>3. AbsHolds' = AbsHolds /\ e \notin AbsHolds
            BY Zenon, <1>1, <1>10, <2>2, <2>4, FrameHolds
        <3>4. AbsPc = [f \in Engines |-> AbsPc[f]] /\ AbsTurn = [f \in Engines |-> AbsTurn[f]]
              /\ AbsMine = [f \in Engines |-> AbsMine[f]] /\ AbsExtra = [f \in Engines |-> AbsExtra[f]]
              /\ AbsRoom = [f \in Engines |-> AbsRoom[f]]
            BY Zenon DEF AbsPc, AbsTurn, AbsMine, AbsExtra, AbsRoom
        <3>5. AbsPc' = AbsPc /\ AbsTurn' = AbsTurn /\ AbsMine' = AbsMine /\ AbsExtra' = AbsExtra /\ AbsRoom' = AbsRoom
            BY Zenon, <1>4, <3>2, <3>4 DEF AbsMoves
        <3>6. AbsCkpt' = AbsCkpt /\ WorkloadPhase' = WorkloadPhase
            BY Zenon, <2>4 DEF AbsCkpt, WorkloadPhase
        <3>7. UNCHANGED D!vars
            BY Zenon, <1>5, <2>4, <3>3, <3>5, <3>6
               DEF D!vars, D!durable, D!world, D!local, world
        <3> QED
            BY Zenon, <3>1, <3>7 DEF AbsNext
    <2> QED
        BY Zenon, <1>3, <1>4, <2>3, <2>4 DEF Written, s
<1> QED
    BY Zenon, <1>3, <1>4, <1>6, <1>12, <1>13 DEF Written, s

(* Engine.Resume reads a stream with a usable checkpoint.                  *)
LEMMA LoadStep ==
    ASSUME EngineRunInv, NEW e \in Engines, Load(e)
    PROVE EngineRunInv' /\ AbsNext
<1> DEFINE c == proj.resume.ckpt
           x == Restored(proj)
<1>1. /\ run[e].pc = "idle" /\ proj.workload = "running" /\ c.turn # 0
      /\ run' = [run EXCEPT ![e] = x] /\ UNCHANGED <<proj, plan, world>>
    BY Zenon DEF Load, Local, Resumable
<1>2. run[e] = Idle /\ plan[e] = NoPlan
    BY Zenon, <1>1, EngineFacts DEF EngineInv, LocalInv, Shape, Before
<1>3. StreamInv(proj) /\ plan' = [plan EXCEPT ![e] = NoPlan] /\ NoPlan \in [Effects -> PlanStates]
    BY Zenon, <1>1, <1>2, EngineFacts DEF EngineRunInv
<1>4. /\ proj.version \in Nat /\ proj.version # 0 /\ proj.loopSeq \in Nat /\ proj.loopType = "checkpoint"
      /\ c.seq = proj.loopSeq /\ c.turn \in Nat /\ c.result.calls = c.turn /\ c.result.tools \in Nat
      /\ c.result.usage \in Amounts /\ proj.resume.reserved \in Amounts /\ Within(proj.resume.reserved, MaxSpend)
      /\ proj.resume.extra \in Nat /\ proj.resume.usage \in Amounts
    BY SMTT(40), <1>1, <1>3 DEF StreamInv, EmptyProjection
<1>5. /\ DOMAIN x = Fields /\ x.pc = "loaded" /\ x.seq = proj.version /\ x.turn = c.turn + 1 /\ x.mc = c.turn
      /\ x.tc = c.result.tools /\ x.extra = proj.resume.extra /\ x.loopSeq = c.seq
      /\ x.usage = c.result.usage /\ x.compaction = proj.resume.usage /\ x.reserved = proj.resume.reserved
      /\ x.last = Idle.last /\ x.ncalls = Idle.ncalls /\ x.idx = Idle.idx /\ x.elig = Idle.elig
      /\ x.summary = Idle.summary /\ x.bound = Idle.bound /\ x.used = Idle.used /\ x.tool = Idle.tool
    BY ZenonT(40), <1>4, IdleFields DEF Restored, Continued, Fields
<1> HIDE DEF x
<1>6. /\ Idle.last = 0 /\ Idle.ncalls = 0 /\ Idle.idx = 0 /\ Idle.elig = {} /\ Idle.summary \in Amounts
      /\ Idle.bound \in Amounts /\ Idle.used \in Amounts /\ DOMAIN Idle.tool = 1..MaxBatch
    BY Zenon DEF Idle, Zero, Amounts
<1>7. Typed(x)
    BY SMTT(40), <1>4, <1>5, <1>6 DEF Typed
<1>8. Counts(x)
    BY SMTT(40), <1>4, <1>5 DEF Counts, InTurn, Placing, Streaming, Routed, Before, Batch, CallDue
<1>9. Shape(x, NoPlan)
    BY Zenon, <1>5 DEF Shape, Placing, Streaming, Before, Batch, CallDue
<1>10. Knows(x, proj)
    BY Zenon, <1>1, <1>4, <1>5 DEF Knows, Routed, Streaming, Batch, CallDue
<1>11. EngineInv(x, NoPlan, proj)
    BY SMTT(40), <1>4, <1>5, <1>7, <1>8, <1>9, <1>10 DEF EngineInv, LocalInv
<1>12. EngineRunInv'
    BY Zenon, <1>1, <1>3, <1>11, FrameInv
<1>13. AbsMoves(e, x, NoPlan)
    BY Zenon, <1>1, <1>3, FrameAbs
<1>14. AbsHolds' = AbsHolds \cup {e}
    BY Zenon, <1>1, <1>5, FrameHolds
<1>15. AbsPc[e] = "idle" /\ AbsPc' = [AbsPc EXCEPT ![e] = "loaded"]
    BY Zenon, <1>1, <1>5, <1>13 DEF AbsMoves, PhaseOf
<1>16. AbsRoom' = AbsRoom
    BY Zenon, <1>2, <1>5, <1>13 DEF AbsMoves, AbsRoom
<1>17. WorkloadPhase = "running" /\ AbsCkpt = c.turn
    BY Zenon, <1>1 DEF WorkloadPhase, AbsCkpt
<1>18. UNCHANGED D!durable
    BY Zenon, <1>1 DEF D!durable, AbsCkpt, WorkloadPhase
<1>19. D!Load(e)
    BY Zenon, <1>1, <1>5, <1>13, <1>14, <1>15, <1>16, <1>17, <1>18
       DEF AbsMoves, D!Load, D!world, world
<1> QED
    BY Zenon, <1>12, <1>19 DEF AbsNext, D!Next

(* The resumed record claims the version the engine read.                  *)
LEMMA ClaimStep ==
    ASSUME EngineRunInv, NEW e \in Engines, Claim(e)
    PROVE EngineRunInv' /\ AbsNext
<1> DEFINE r == run[e]
           ev == Record("resumed", r)
           x == [r EXCEPT !.pc = "enter"]
           s == Apply(proj, ev)
<1>1. r.pc = "loaded" /\ Write(e, <<ev>>, FALSE, x, Idle) /\ UNCHANGED <<plan, world>>
    BY Zenon DEF Claim, unplaced
<1>2. PICK t : Written(e, <<ev>>, x, Idle, t)
    BY Zenon, <1>1, IdleFields, WriteCases
<1>3. plan[e] = NoPlan /\ Typed(r) /\ Counts(r) /\ EngineInv(r, plan[e], proj) /\ StreamInv(proj) /\ DOMAIN r = Fields
    BY Zenon, <1>1, EngineFacts DEF LocalInv, Shape, Before
<1>4. plan' = [plan EXCEPT ![e] = NoPlan] /\ NoPlan \in [Effects -> PlanStates]
    BY Zenon, <1>1, <1>3, EngineFacts DEF EngineRunInv
<1>5. CASE r.seq = proj.version /\ proj' = s
    <2>1. Knows(r, proj) /\ proj.workload = "running" /\ r.seq # 0
        BY Zenon, <1>1, <1>3, <1>5 DEF EngineInv, Knows
    <2>2. ev.type = "execution" /\ ev.stage = "resumed" /\ ev.stage \in AuditStages
        BY Zenon DEF Record, AuditStages
    <2>3. s = Apply(proj, ev)
        BY Zenon
    <2> HIDE DEF s, ev
    <2>4. Audited(proj, ev, s) /\ StreamInv(s)
        BY Zenon, <1>3, <2>1, <2>2, <2>3, ApplyAudit, AuditKeepsStream
    <2>5. /\ s.version = proj.version + 1 /\ s.workload = "running" /\ s.loopSeq = proj.loopSeq
          /\ s.loopType = proj.loopType /\ s.resume = proj.resume /\ s.routing = proj.routing
        BY Zenon, <2>2, <2>4 DEF Audited
    <2>6. /\ proj'.version \in Nat /\ proj'.version > proj.version /\ StreamInv(proj') /\ proj.version \in Nat
          /\ r.seq = proj.version
        <3>1. proj.version \in Nat
            BY Zenon, <1>3 DEF StreamInv
        <3> QED
            BY Zenon, <1>5, <2>4, <2>5, <3>1, Successor
    <2>7. WorkloadPhase' = WorkloadPhase /\ AbsCkpt' = AbsCkpt
        BY Zenon, <1>5, <2>1, <2>5 DEF WorkloadPhase, AbsCkpt
    <2>8. CASE t = Acked(x, 1)
        <3>1. /\ Changed(r, t, {"pc", "seq"}) /\ t.pc = "enter" /\ t.seq = r.seq + 1
            BY Zenon, <1>3, <2>8 DEF Acked, Changed, Fields
        <3> HIDE DEF x
        <3>2. run' = [run EXCEPT ![e] = t]
            BY Zenon, <1>2, <3>1 DEF Written, Left
        <3>3. /\ DOMAIN t = Fields /\ t.turn = r.turn /\ t.mc = r.mc /\ t.tc = r.tc /\ t.extra = r.extra
              /\ t.loopSeq = r.loopSeq /\ t.last = r.last /\ t.ncalls = r.ncalls /\ t.idx = r.idx /\ t.elig = r.elig
              /\ t.usage = r.usage /\ t.compaction = r.compaction /\ t.summary = r.summary
              /\ t.reserved = r.reserved /\ t.bound = r.bound /\ t.used = r.used /\ t.tool = r.tool
            BY Zenon, <3>1 DEF Changed, Fields
        <3>4. Typed(t)
            <4>1. t.seq \in Nat
                BY Zenon, <1>3, <3>1, Successor DEF Typed
            <4> QED
                BY Zenon, <1>3, <3>3, <4>1 DEF Typed
        <3>5. Counts(t)
            <4>1. r.turn # 0 /\ r.mc + 1 = r.turn /\ Within(r.reserved, MaxSpend)
                BY Zenon, <1>1, <1>3 DEF Counts, Before
            <4> QED
                BY Zenon, <3>1, <3>3, <4>1 DEF Counts, InTurn, Placing, Streaming, Routed, Before, Batch, CallDue
        <3>6. Shape(t, NoPlan)
            BY Zenon, <3>1 DEF Shape, Placing, Streaming, Before, Batch, CallDue
        <3>7. Knows(t, s)
            <4>1. proj.loopSeq = r.loopSeq /\ proj.resume.reserved = r.reserved /\ proj.loopType # "stopped"
                BY Zenon, <1>1, <2>1, <2>6 DEF Knows, Over
            <4> QED
                BY Zenon, <2>5, <3>1, <3>3, <4>1 DEF Knows, Routed, Streaming, Batch, CallDue
        <3>8. EngineInv(t, NoPlan, s)
            BY SMTT(40), <2>5, <2>6, <3>1, <3>4, <3>5, <3>6, <3>7 DEF EngineInv, LocalInv
        <3>9. EngineRunInv'
            BY Zenon, <1>4, <1>5, <2>6, <3>2, <3>8, FrameInv
        <3>10. AbsMoves(e, t, NoPlan)
            BY Zenon, <1>4, <3>2, FrameAbs
        <3>11. AbsHolds' = {e} /\ e \in AbsHolds
            BY Zenon, <1>1, <1>5, <2>5, <2>6, <3>1, <3>2, FrameHolds
        <3>12. AbsPc[e] = "loaded" /\ AbsPc' = [AbsPc EXCEPT ![e] = "ready"]
            BY Zenon, <1>1, <3>1, <3>10 DEF AbsMoves, PhaseOf
        <3>13. AbsTurn' = AbsTurn /\ AbsMine' = AbsMine /\ AbsExtra' = AbsExtra /\ AbsRoom' = AbsRoom
            <4>1. AbsTurn = [f \in Engines |-> AbsTurn[f]]
                  /\ AbsMine = [f \in Engines |-> AbsMine[f]] /\ AbsExtra = [f \in Engines |-> AbsExtra[f]]
                  /\ AbsRoom = [f \in Engines |-> AbsRoom[f]]
                BY Zenon DEF AbsTurn, AbsMine, AbsExtra, AbsRoom
            <4> QED
                BY Zenon, <3>3, <3>10, <4>1 DEF AbsMoves
        <3>14. D!Claim(e, TRUE)
            BY Zenon, <1>1, <1>5, <2>5, <2>7, <3>11, <3>12, <3>13
               DEF D!Claim, D!Append, D!After, D!durable, D!world, D!local, world
        <3> QED
            BY Zenon, <3>9, <3>14 DEF AbsNext, D!Next
    <2>9. CASE Alike(Idle, t)
        <3>1. Idle.pc = "idle" /\ Left(t) = Idle
            <4>1. Idle.pc = "idle" /\ "pc" \in Fields \ {"storeErr", "cause", "caller"}
                BY Zenon DEF Idle, Fields
            <4> QED
                BY Zenon, <2>9, <4>1 DEF Alike, Left
        <3>2. run' = [run EXCEPT ![e] = Idle]
            BY Zenon, <1>2, <3>1 DEF Written
        <3>3. EngineRunInv'
            BY Zenon, <1>4, <2>6, <3>2, IdleStays
        <3>4. AbsPc' = [AbsPc EXCEPT ![e] = "idle"] /\ D!Reset(e)
            BY Zenon, <1>4, <3>2, AbsReset
        <3>5. AbsHolds' = {} /\ e \in AbsHolds
            BY Zenon, <1>1, <2>6, <3>1, <3>2, FrameHolds
        <3>6. AbsPc[e] = "loaded"
            <4>1. AbsMoves(e, Idle, NoPlan)
                BY Zenon, <1>4, <3>2, FrameAbs
            <4> QED
                BY Zenon, <1>1, <4>1 DEF AbsMoves, PhaseOf
        <3>7. D!Claim(e, FALSE)
            BY Zenon, <1>1, <1>5, <2>5, <2>7, <3>4, <3>5, <3>6
               DEF D!Claim, D!Append, D!After, D!durable, D!world, world
        <3> QED
            BY Zenon, <3>3, <3>7 DEF AbsNext, D!Next
    <2> QED
        BY Zenon, <1>2, <2>8, <2>9 DEF Written
<1>6. CASE proj' = proj /\ Alike(Idle, t)
    <2>1. Left(t) = Idle
        BY SMTT(40), <1>6 DEF Alike, Fields, Left, Idle
    <2>2. run' = [run EXCEPT ![e] = Idle]
        BY Zenon, <1>2, <2>1 DEF Written
    <2> QED
        BY Zenon, <1>1, <1>4, <1>6, <2>2, LeaveStep
<1>7. Replay(proj, <<ev>>) = s
    BY Zenon, ReplayOne
<1> HIDE DEF x, s
<1> QED
    BY Zenon, <1>2, <1>5, <1>6, <1>7 DEF Written

(* The three terminal records.                                             *)
LEMMA ReplayThree ==
    ASSUME NEW p, NEW e1, NEW e2, NEW e3,
           NEW p1, p1 = Apply(p, e1), NEW p2, p2 = Apply(p1, e2), NEW p3, p3 = Apply(p2, e3)
    PROVE Replay(p, <<e1, e2, e3>>) = p3
<1> DEFINE es == <<e1, e2, e3>>
           after == CHOOSE after : after = [n \in 0..3 |-> IF n = 0 THEN p ELSE Apply(after[n - 1], es[n])]
           g == [n \in 0..3 |-> IF n = 0 THEN p ELSE <<p1, p2, p3>>[n]]
<1>1. g = [n \in 0..3 |-> IF n = 0 THEN p ELSE Apply(g[n - 1], es[n])]
  OBVIOUS
<1>2. after = [n \in 0..3 |-> IF n = 0 THEN p ELSE Apply(after[n - 1], es[n])]
  BY Zenon, <1>1
<1>3. Replay(p, es) = after[3]
  BY Zenon DEF Replay
<1> HIDE DEF after
<1>4. after[0] = p /\ after[1] = Apply(after[0], e1) /\ after[2] = Apply(after[1], e2) /\ after[3] = Apply(after[2], e3)
  BY <1>2
<1> QED BY Zenon, <1>3, <1>4

(* The terminal records end the workload.                                  *)
Closed(q, r, s) ==
    /\ StreamInv(s) /\ s.version = q.version + 3 /\ s.workload = Outcome(r) /\ s.finished = TRUE
    /\ s.result = [calls |-> r.mc + r.extra, usage |-> Plus(r.usage, r.compaction)]
    /\ s.resume = q.resume /\ s.completed = q.completed /\ s.allowed = q.allowed /\ s.approved = q.approved

LEMMA ApplyClosing ==
    ASSUME NEW q, StreamInv(q), q.workload = "running", NEW r, NEW s, s = Replay(q, Closing(r))
    PROVE Closed(q, r, s)
<1> DEFINE e1 == FinishedRecord(r)
           e2 == StepMoves("running", Outcome(r))
           e3 == WorkloadMoves("running", Outcome(r))
           p1 == Apply(q, e1)
           p2 == Apply(p1, e2)
           p3 == Apply(p2, e3)
<1>1. DOMAIN q = PFields /\ q.valid = TRUE /\ q.step = "running" /\ q.finished = FALSE /\ q.version \in Nat
    BY Zenon DEF StreamInv
<1>2. Outcome(r) \in {"succeeded", "failed", "cancelled"}
    BY Zenon DEF Outcome
<1>3. s = p3
    <2>1. Closing(r) = <<e1, e2, e3>>
        BY Zenon DEF Closing
    <2> HIDE DEF e1, e2, e3
    <2> QED
        BY Zenon, <2>1, ReplayThree
<1>4. /\ e1.type = "execution" /\ e1.stage = "finished"
      /\ e1.result = [calls |-> r.mc + r.extra, usage |-> Plus(r.usage, r.compaction)]
    BY Zenon DEF FinishedRecord
<1>5. e2.type = "step_transitioned" /\ e2.from = "running" /\ e2.to = Outcome(r)
    BY Zenon DEF StepMoves
<1>6. e3.type = "workload_transitioned" /\ e3.from = "running" /\ e3.to = Outcome(r)
    BY Zenon DEF WorkloadMoves
<1> HIDE DEF e1, e2, e3
<1>7. /\ DOMAIN p1 = PFields /\ p1.finished = TRUE /\ p1.result = e1.result /\ p1.version = q.version + 1
      /\ \A f \in PFields \ {"finished", "result", "version"} : p1[f] = q[f]
    <2>1. Accepts(q, e1)
        BY Zenon, <1>1, <1>4 DEF Accepts, AcceptsExecution
    <2>2. Apply(q, e1) = [Effect(q, e1) EXCEPT !.version = @ + 1]
        BY Zenon, <1>1, <2>1, AcceptedCounts
    <2>3. Effect(q, e1) = ApplyExecution(q, e1)
        BY Zenon, <1>4 DEF Effect
    <2> DEFINE t == [q EXCEPT !.resume = q.resume]
    <2>4. DOMAIN t = PFields /\ \A f \in PFields : t[f] = q[f]
        BY Zenon, <1>1
    <2>5. ApplyExecution(q, e1) = [t EXCEPT !.finished = TRUE, !.result = e1.result]
        BY Zenon, <1>4 DEF ApplyExecution, Scan
    <2> HIDE DEF t
    <2>6. p1 = [[t EXCEPT !.finished = TRUE, !.result = e1.result] EXCEPT !.version = @ + 1]
        BY Zenon, <2>2, <2>3, <2>5
    <2> HIDE DEF p1
    <2> QED
        BY Zenon, <2>4, <2>6 DEF PFields
<1> HIDE DEF p1
<1>8. /\ DOMAIN p2 = PFields /\ p2.step = Outcome(r) /\ p2.version = p1.version + 1
      /\ \A f \in PFields \ {"step", "version"} : p2[f] = p1[f]
    <2>1. p1.valid = TRUE /\ p1.step = "running"
        BY Zenon, <1>1, <1>7 DEF PFields
    <2>2. Accepts(p1, e2)
        BY <1>2, <1>5, <2>1 DEF Accepts, CanTransitionStep, StepTransitions
    <2>3. Apply(p1, e2) = [Effect(p1, e2) EXCEPT !.version = @ + 1]
        BY Zenon, <2>1, <2>2, AcceptedCounts
    <2>4. Effect(p1, e2) = [p1 EXCEPT !.step = Outcome(r)]
        BY Zenon, <1>5 DEF Effect
    <2>5. p2 = [[p1 EXCEPT !.step = Outcome(r)] EXCEPT !.version = @ + 1]
        BY Zenon, <2>3, <2>4
    <2> QED
        BY Zenon, <1>7, <2>5 DEF PFields
<1> HIDE DEF p2
<1>9. /\ DOMAIN p3 = PFields /\ p3.workload = Outcome(r) /\ p3.version = p2.version + 1
      /\ \A f \in PFields \ {"workload", "version"} : p3[f] = p2[f]
    <2>1. p2.valid = TRUE /\ p2.workload = "running"
        BY Zenon, <1>1, <1>7, <1>8 DEF PFields
    <2>2. Accepts(p2, e3)
        BY <1>2, <1>6, <2>1 DEF Accepts, CanTransitionWorkload, WorkloadTransitions
    <2>3. Apply(p2, e3) = [Effect(p2, e3) EXCEPT !.version = @ + 1]
        BY Zenon, <2>1, <2>2, AcceptedCounts
    <2>4. Effect(p2, e3) = [p2 EXCEPT !.workload = Outcome(r)]
        BY Zenon, <1>6 DEF Effect
    <2>5. p3 = [[p2 EXCEPT !.workload = Outcome(r)] EXCEPT !.version = @ + 1]
        BY Zenon, <2>3, <2>4
    <2> QED
        BY Zenon, <1>8, <2>5 DEF PFields
<1> HIDE DEF p3
<1>10. /\ DOMAIN s = PFields /\ s.workload = Outcome(r) /\ s.finished = TRUE /\ s.result = e1.result
       /\ s.version = q.version + 3 /\ s.valid = q.valid /\ s.loopSeq = q.loopSeq /\ s.loopType = q.loopType
       /\ s.routing = q.routing /\ s.resume = q.resume
       /\ s.completed = q.completed /\ s.allowed = q.allowed /\ s.approved = q.approved
    BY SMTT(40), <1>1, <1>3, <1>7, <1>8, <1>9 DEF PFields
<1>11. StreamInv(s)
    BY SMTT(40), <1>1, <1>2, <1>10 DEF StreamInv
<1> QED
    BY Zenon, <1>4, <1>10, <1>11 DEF Closed

LEMMA FinishStep ==
    ASSUME EngineRunInv, NEW e \in Engines, Finish(e)
    PROVE EngineRunInv' /\ AbsNext
<1> DEFINE r == run[e]
           s == Replay(proj, Closing(r))
<1>1. r.pc = "close" /\ Write(e, Closing(r), TRUE, Idle, Idle) /\ plan' = [plan EXCEPT ![e] = NoPlan] /\ UNCHANGED world
    BY Zenon DEF Finish
<1>2. PICK t : Written(e, Closing(r), Idle, Idle, t)
    BY Zenon, <1>1, IdleFields, WriteCases
<1>3. run' = [run EXCEPT ![e] = Idle]
    <2>1. Left(t) = Idle
        <3>1. CASE t = Acked(Idle, Len(Closing(r)))
            <4>1. t.pc = "idle"
                BY Zenon, <3>1 DEF Acked, Idle
            <4> QED
                BY Zenon, <4>1 DEF Left
        <3>2. CASE Alike(Idle, t)
            <4>1. t.pc = "idle"
                BY Zenon, <3>2 DEF Alike, Fields, Idle
            <4> QED
                BY Zenon, <4>1 DEF Left
        <3> QED
            BY Zenon, <1>2, <3>1, <3>2 DEF Written
    <2> QED
        BY Zenon, <1>2, <2>1 DEF Written
<1>4. proj' = proj \/ (r.seq = proj.version /\ proj' = s)
    BY Zenon, <1>2 DEF Written
<1>5. CASE proj' = proj
    BY Zenon, <1>1, <1>3, <1>5, LeaveStep
<1>6. CASE r.seq = proj.version /\ proj' = s
    <2>1. EngineInv(r, plan[e], proj) /\ StreamInv(proj) /\ proj.workload = "running" /\ proj.version \in Nat
        BY Zenon, <1>1, <1>6, EngineFacts DEF EngineInv, Knows, StreamInv
    <2>0. s = Replay(proj, Closing(r)) /\ Idle.pc = "idle"
        BY Zenon DEF Idle
    <2> HIDE DEF s
    <2>2. StreamInv(s) /\ s.version = proj.version + 3 /\ s.workload = Outcome(r) /\ s.resume = proj.resume
        <3>1. Closed(proj, r, s)
            BY Zenon, <2>0, <2>1, ApplyClosing
        <3> QED
            BY Zenon, <3>1 DEF Closed
    <2>3. Outcome(r) \notin {"none", "running"}
        BY Zenon DEF Outcome
    <2>4. s.version > proj.version /\ s.version \in Nat
        BY <2>1, <2>2
    <2>5. EngineRunInv'
        BY Zenon, <1>1, <1>3, <1>6, <2>2, <2>4, IdleStays
    <2>6. AbsPc' = [AbsPc EXCEPT ![e] = "idle"] /\ D!Reset(e)
        BY Zenon, <1>1, <1>3, AbsReset
    <2>7. AbsHolds' = {} /\ e \in AbsHolds
        BY Zenon, <1>1, <1>3, <1>6, <2>0, <2>4, FrameHolds
    <2>8. AbsPc[e] = "closing"
        BY Zenon, <1>1, <1>3, FrameAbs DEF AbsMoves, PhaseOf
    <2>9. WorkloadPhase' = "done" /\ AbsCkpt' = 0
        BY Zenon, <1>6, <2>2, <2>3 DEF WorkloadPhase, AbsCkpt
    <2>10. D!Finish(e)
        BY Zenon, <1>1, <1>6, <2>2, <2>6, <2>7, <2>8, <2>9 DEF D!Finish, D!world, world
    <2> QED
        BY Zenon, <2>5, <2>10 DEF AbsNext, D!Next
<1> QED
    BY Zenon, <1>4, <1>5, <1>6

-----------------------------------------------------------------------------
(* The engine moves within an execution.                                   *)

(* The part of an engine's record the abstraction shows is as it was.      *)
SameAbs(r, s) ==
    /\ s.turn = r.turn /\ s.reserved = r.reserved /\ s.extra = r.extra
    /\ s.bound = r.bound /\ s.used = r.used

(* A step that writes nothing is a stutter or the end of the loop.         *)
LEMMA AbsLocal ==
    ASSUME EngineRunInv, NEW e \in Engines, NEW r,
           run' = [run EXCEPT ![e] = r], UNCHANGED <<proj, plan, world>>,
           SameAbs(run[e], r), r.seq = run[e].seq, run[e].pc # "idle", r.pc # "idle",
           \/ PhaseOf(r, plan[e]) = PhaseOf(run[e], plan[e])
           \/ PhaseOf(r, plan[e]) = "closing" /\ run[e].pc # "loaded"
    PROVE AbsNext
<1>1. plan' = [plan EXCEPT ![e] = plan[e]]
    BY Zenon DEF EngineRunInv
<1>2. AbsMoves(e, r, plan[e])
    BY Zenon, <1>1, FrameAbs
<1>3. AbsHolds' = AbsHolds
    BY Zenon, SameHolds
<1>4. AbsPc = [f \in Engines |-> AbsPc[f]] /\ AbsTurn = [f \in Engines |-> AbsTurn[f]]
      /\ AbsMine = [f \in Engines |-> AbsMine[f]] /\ AbsExtra = [f \in Engines |-> AbsExtra[f]]
      /\ AbsRoom = [f \in Engines |-> AbsRoom[f]]
    BY Zenon DEF AbsPc, AbsTurn, AbsMine, AbsExtra, AbsRoom
<1>5. AbsTurn' = AbsTurn /\ AbsMine' = AbsMine /\ AbsExtra' = AbsExtra /\ AbsRoom' = AbsRoom
    BY Zenon, <1>2, <1>4 DEF AbsMoves, SameAbs
<1>6. WorkloadPhase' = WorkloadPhase /\ AbsCkpt' = AbsCkpt
    BY Zenon DEF WorkloadPhase, AbsCkpt
<1>7. CASE PhaseOf(r, plan[e]) = PhaseOf(run[e], plan[e])
    <2>1. AbsPc' = AbsPc
        BY Zenon, <1>2, <1>4, <1>7 DEF AbsMoves
    <2>2. UNCHANGED D!vars
        BY Zenon, <1>3, <1>5, <1>6, <2>1
           DEF D!vars, D!durable, D!world, D!local, world
    <2> QED
        BY Zenon, <2>2 DEF AbsNext
<1>8. CASE PhaseOf(r, plan[e]) = "closing" /\ PhaseOf(run[e], plan[e]) # "closing"
    <2>1. AbsPc[e] \in {"ready", "busy"} /\ AbsPc' = [AbsPc EXCEPT ![e] = "closing"]
        BY Zenon, <1>2, <1>8 DEF AbsMoves, PhaseOf
    <2>2. D!Stop(e)
        BY Zenon, <1>3, <1>5, <1>6, <2>1
           DEF D!Stop, D!durable, D!world, D!local, world
    <2> QED
        BY Zenon, <2>2 DEF AbsNext, D!Next
<1> QED
    BY Zenon, <1>7, <1>8

(* An accepted event that is no intent leaves these as they are.           *)
Noted(q, s) ==
    /\ StreamInv(s) /\ s.version = q.version + 1 /\ s.workload = "running"
    /\ s.resume.reserved = q.resume.reserved /\ s.resume.extra = q.resume.extra
    /\ s.resume.ckpt.turn \in {0, q.resume.ckpt.turn}

(* A noted event leaves the stream sound and its version a later one.      *)
LEMMA NotedLater ==
    ASSUME NEW q, NEW s, q.version \in Nat, Noted(q, s)
    PROVE /\ StreamInv(s) /\ s.version \in Nat
          /\ s.version > q.version /\ q.version <= s.version /\ q.version # s.version
BY Zenon, Successor DEF Noted

LEMMA AbsNote ==
    ASSUME EngineRunInv, NEW e \in Engines, NEW r,
           run' = [run EXCEPT ![e] = r], UNCHANGED <<plan, world>>,
           run[e].seq = proj.version, proj.workload = "running", Noted(proj, proj'),
           SameAbs(run[e], r),
           run[e].pc \notin {"idle", "loaded"}, r.pc \notin {"idle", "loaded"},
           PhaseOf(r, plan[e]) \in {PhaseOf(run[e], plan[e]), "closing"}
    PROVE AbsNext
<1>1. plan' = [plan EXCEPT ![e] = plan[e]]
    BY Zenon DEF EngineRunInv
<1>2. AbsMoves(e, r, plan[e])
    BY Zenon, <1>1, FrameAbs
<1> DEFINE ack == r.seq = proj'.version
           keep == AbsCkpt' = AbsCkpt
<1>3. AbsHolds' = (IF ack THEN {e} ELSE {}) /\ e \in AbsHolds
    <2>1. proj'.version \in Nat /\ proj'.version > proj.version
        <3>1. proj.version \in Nat
            BY Zenon DEF StreamInv, EngineRunInv
        <3> QED
            BY Zenon, <3>1, NotedLater
    <2> QED
        BY Zenon, <2>1, FrameHolds
<1>4. AbsTurn = [f \in Engines |-> AbsTurn[f]]
      /\ AbsMine = [f \in Engines |-> AbsMine[f]] /\ AbsExtra = [f \in Engines |-> AbsExtra[f]]
      /\ AbsRoom = [f \in Engines |-> AbsRoom[f]]
    BY Zenon DEF AbsTurn, AbsMine, AbsExtra, AbsRoom
<1>5. AbsTurn' = AbsTurn /\ AbsMine' = AbsMine /\ AbsExtra' = AbsExtra /\ AbsRoom' = AbsRoom
    BY Zenon, <1>2, <1>4 DEF AbsMoves, SameAbs
<1>6. /\ WorkloadPhase' = WorkloadPhase /\ AbsCkpt' = (IF keep THEN AbsCkpt ELSE 0)
      /\ proj'.resume.reserved = proj.resume.reserved /\ proj'.resume.extra = proj.resume.extra
    BY Zenon DEF WorkloadPhase, AbsCkpt, Noted
<1>7. AbsPc[e] \in {"ready", "busy", "closing"} /\ \E next \in {AbsPc[e], "closing"} : AbsPc' = [AbsPc EXCEPT ![e] = next]
    BY Zenon, <1>2 DEF AbsMoves, PhaseOf
<1>8. ack \in BOOLEAN /\ keep \in BOOLEAN
    BY Zenon
<1> HIDE DEF ack, keep
<1>9. D!Note(e, ack, keep)
    BY Zenon, <1>3, <1>5, <1>6, <1>7
       DEF D!Note, D!Append, D!world, D!local, world
<1> QED
    BY Zenon, <1>8, <1>9 DEF AbsNext, D!Next

LEMMA AlikeInv ==
    ASSUME NEW r, NEW s, NEW p, NEW q, Alike(r, s), r.pc # "idle", EngineInv(r, p, q)
    PROVE EngineInv(s, p, q)
<1>1. DOMAIN s = Fields
    BY Zenon DEF Alike
<1>2. /\ s.pc = r.pc /\ s.seq = r.seq /\ s.turn = r.turn /\ s.mc = r.mc /\ s.tc = r.tc /\ s.usage = r.usage
      /\ s.stop = r.stop /\ s.extra = r.extra /\ s.compaction = r.compaction /\ s.reserved = r.reserved
      /\ s.loopSeq = r.loopSeq /\ s.emitting = r.emitting /\ s.purpose = r.purpose /\ s.elig = r.elig
      /\ s.sel = r.sel /\ s.asked = r.asked /\ s.last = r.last /\ s.bound = r.bound /\ s.used = r.used
      /\ s.pend = r.pend /\ s.summary = r.summary /\ s.ncalls = r.ncalls /\ s.idx = r.idx /\ s.tool = r.tool
    BY DEF Alike, Fields
<1>3. /\ Placing(s) <=> Placing(r)
      /\ Streaming(s) <=> Streaming(r)
    BY Zenon, <1>2 DEF Placing, Streaming
<1>4. (InTurn(s) <=> InTurn(r)) /\ (Routed(s) <=> Routed(r))
    BY Zenon, <1>2, <1>3 DEF InTurn, Routed
<1>5. Typed(s)
    BY Zenon, <1>1, <1>2 DEF EngineInv, LocalInv, Typed
<1>6. Counts(s)
    <2>1. Counts(r)
        BY Zenon DEF EngineInv, LocalInv
    <2> QED
        BY ZenonT(90), <1>2, <1>3, <1>4, <2>1 DEF Counts
<1>7. Shape(s, p)
    <2>1. Shape(r, p)
        BY Zenon DEF EngineInv, LocalInv
    <2> QED
        BY Zenon, <1>2, <1>3, <2>1 DEF Shape, CallPlan
<1>8. Knows(r, q) => Knows(s, q)
    BY Zenon, <1>2, <1>4 DEF Knows, Over
<1> QED
    BY Zenon, <1>2, <1>5, <1>6, <1>7, <1>8 DEF EngineInv, LocalInv

(* A record s that follows r without a change the abstraction shows, but   *)
(* for the end of the loop.                                                *)
Quiet(r, p, s) ==
    /\ s.pc \notin {"idle", "loaded"} /\ SameAbs(r, s)
    /\ PhaseOf(s, p) \in {PhaseOf(r, p), "closing"}

LEMMA LocalStep ==
    ASSUME EngineRunInv, NEW e \in Engines, NEW r, Local(e, r), UNCHANGED unplaced,
           run[e].pc \notin {"idle", "loaded"}, Quiet(run[e], plan[e], r), r.seq = run[e].seq,
           EngineInv(r, plan[e], proj)
    PROVE EngineRunInv' /\ AbsNext
<1>1. run' = [run EXCEPT ![e] = r] /\ UNCHANGED <<proj, plan, world>>
    BY Zenon DEF Local, unplaced
<1>2. plan' = [plan EXCEPT ![e] = plan[e]] /\ plan[e] \in [Effects -> PlanStates]
    BY Zenon, <1>1 DEF EngineRunInv
<1>3. StreamInv(proj') /\ EngineInv(r, plan[e], proj')
    BY Zenon, <1>1 DEF EngineRunInv
<1>4. EngineRunInv'
    BY Zenon, <1>1, <1>2, <1>3, FrameInv
<1>5. AbsNext
    BY Zenon, <1>1, AbsLocal DEF Quiet
<1> QED
    BY Zenon, <1>4, <1>5

LEMMA QuietWrite ==
    ASSUME EngineRunInv, NEW e \in Engines, NEW ev, NEW detached, NEW ok, NEW failed,
           Write(e, <<ev>>, detached, ok, failed), UNCHANGED unplaced,
           run[e].pc \notin {"idle", "loaded"},
           DOMAIN failed = Fields, failed.seq = run[e].seq,
           Quiet(run[e], plan[e], failed), EngineInv(failed, plan[e], proj),
           run[e].seq = proj.version =>
                /\ Noted(proj, Apply(proj, ev))
                /\ Quiet(run[e], plan[e], Acked(ok, 1))
                /\ EngineInv(Acked(ok, 1), plan[e], Apply(proj, ev))
    PROVE EngineRunInv' /\ AbsNext
<1>1. PICK s : Written(e, <<ev>>, ok, failed, s)
    BY Zenon, WriteCases
<1>2. Len(<<ev>>) = 1 /\ Replay(proj, <<ev>>) = Apply(proj, ev)
    BY Zenon, ReplayOne
<1>3. UNCHANGED <<plan, world>>
    BY Zenon DEF unplaced
<1>4. plan' = [plan EXCEPT ![e] = plan[e]] /\ plan[e] \in [Effects -> PlanStates]
    BY Zenon, <1>3 DEF EngineRunInv
<1>5. StreamInv(proj) /\ EngineInv(run[e], plan[e], proj)
    BY Zenon DEF EngineRunInv
<1>6. run[e].seq = proj.version => proj.workload = "running" /\ proj.version \in Nat
    BY Zenon, <1>5 DEF EngineInv, Knows, StreamInv
<1>7. CASE run[e].seq = proj.version /\ proj' = Replay(proj, <<ev>>) /\ s = Acked(ok, Len(<<ev>>))
    <2>1. Noted(proj, proj') /\ Quiet(run[e], plan[e], s) /\ EngineInv(s, plan[e], proj')
        BY Zenon, <1>2, <1>7
    <2>2. run' = [run EXCEPT ![e] = s]
        BY Zenon, <1>1, <2>1 DEF Written, Left, Quiet
    <2>3. StreamInv(proj') /\ proj'.version > proj.version
        BY Zenon, <1>6, <1>7, <2>1, NotedLater
    <2>4. EngineRunInv'
        BY Zenon, <1>4, <2>1, <2>2, <2>3, FrameInv
    <2>5. AbsNext
        BY Zenon, <1>3, <1>6, <1>7, <2>1, <2>2, AbsNote DEF Quiet
    <2> QED
        BY Zenon, <2>4, <2>5
<1>8. ASSUME Alike(failed, s) PROVE /\ run' = [run EXCEPT ![e] = s] /\ Quiet(run[e], plan[e], s)
                                    /\ EngineInv(s, plan[e], proj) /\ s.seq = run[e].seq
    <2>1. /\ s.pc = failed.pc /\ s.turn = failed.turn /\ s.reserved = failed.reserved /\ s.extra = failed.extra
          /\ s.bound = failed.bound /\ s.used = failed.used /\ s.seq = failed.seq
        BY Zenon, <1>8 DEF Alike, Fields
    <2>2. Quiet(run[e], plan[e], s)
        BY Zenon, <2>1 DEF Quiet, SameAbs, PhaseOf
    <2>3. EngineInv(s, plan[e], proj)
        BY Zenon, <1>8, AlikeInv DEF Quiet
    <2>4. run' = [run EXCEPT ![e] = s]
        BY Zenon, <1>1, <2>2 DEF Written, Left, Quiet
    <2> QED
        BY Zenon, <2>1, <2>2, <2>3, <2>4
<1>9. CASE proj' = proj /\ Alike(failed, s)
    <2>1. EngineRunInv'
        BY Zenon, <1>4, <1>5, <1>8, <1>9, FrameInv
    <2>2. AbsNext
        BY Zenon, <1>3, <1>8, <1>9, AbsLocal DEF Quiet
    <2> QED
        BY Zenon, <2>1, <2>2
<1>10. CASE run[e].seq = proj.version /\ proj' = Replay(proj, <<ev>>) /\ Alike(failed, s)
    <2>1. Noted(proj, proj')
        BY Zenon, <1>2, <1>10
    <2>2. StreamInv(proj') /\ proj'.version > proj.version /\ s.seq <= proj'.version /\ s.seq # proj'.version
        BY Zenon, <1>6, <1>8, <1>10, <2>1, NotedLater
    <2>3. EngineInv(s, plan[e], proj')
        <3>1. EngineInv(s, plan[e], proj)
            BY Zenon, <1>8, <1>10
        <3> QED
            BY Zenon, <2>2, <3>1 DEF EngineInv, Knows
    <2>4. EngineRunInv'
        BY Zenon, <1>4, <1>8, <1>10, <2>2, <2>3, FrameInv
    <2>5. AbsNext
        BY Zenon, <1>3, <1>6, <1>8, <1>10, <2>1, AbsNote DEF Quiet
    <2> QED
        BY Zenon, <2>4, <2>5
<1> QED
    BY Zenon, <1>1, <1>7, <1>9, <1>10 DEF Written

(* A record x that may follow r: what the stream says of r it says of x.   *)
Follows(r, x) ==
    /\ x.loopSeq = r.loopSeq /\ x.seq = r.seq
    /\ Routed(x) => Routed(r) /\ x.turn = r.turn /\ x.sel = r.sel

GoodNext(r, p, x) == LocalInv(x, p) /\ Quiet(r, p, x) /\ Follows(r, x)

LEMMA AckedFields ==
    ASSUME NEW r, DOMAIN r = Fields, r.seq \in Nat, NEW x, x = Acked(r, 1)
    PROVE /\ DOMAIN x = Fields /\ x.seq = r.seq + 1
          /\ \A f \in Fields \ {"seq"} : x[f] = r[f]
BY Zenon DEF Acked, Fields

LEMMA AckedLocal ==
    ASSUME NEW r, NEW p, LocalInv(r, p), NEW x, x = Acked(r, 1)
    PROVE LocalInv(x, p)
<1>1. DOMAIN r = Fields /\ r.seq \in Nat /\ r.last \in Nat
    BY Zenon DEF LocalInv, Typed
<1>2. DOMAIN x = Fields /\ x.seq = r.seq + 1 /\ \A f \in Fields \ {"seq"} : x[f] = r[f]
    BY Zenon, <1>1, AckedFields
<1>3. /\ x.pc = r.pc /\ x.turn = r.turn /\ x.mc = r.mc /\ x.tc = r.tc /\ x.usage = r.usage
      /\ x.stop = r.stop /\ x.extra = r.extra /\ x.compaction = r.compaction /\ x.reserved = r.reserved
      /\ x.loopSeq = r.loopSeq /\ x.emitting = r.emitting /\ x.purpose = r.purpose /\ x.elig = r.elig
      /\ x.sel = r.sel /\ x.asked = r.asked /\ x.last = r.last /\ x.bound = r.bound /\ x.used = r.used
      /\ x.pend = r.pend /\ x.summary = r.summary /\ x.ncalls = r.ncalls /\ x.idx = r.idx /\ x.tool = r.tool
    BY <1>2 DEF Fields
<1>4. (Placing(x) <=> Placing(r)) /\ (Streaming(x) <=> Streaming(r))
    BY Zenon, <1>3 DEF Placing, Streaming
<1>5. (InTurn(x) <=> InTurn(r)) /\ (Routed(x) <=> Routed(r))
    BY Zenon, <1>3, <1>4 DEF InTurn, Routed
<1>6. Typed(x)
    <2>1. DOMAIN x = Fields /\ x.seq \in Nat
        BY <1>1, <1>2
    <2> QED
        BY Zenon, <1>3, <2>1 DEF LocalInv, Typed
<1>7. Counts(x)
    <2>1. Counts(r)
        BY Zenon DEF LocalInv
    <2>2. r.last <= r.seq => x.last <= x.seq
        BY <1>1, <1>2, <1>3
    <2> QED
        BY ZenonT(90), <1>3, <1>4, <1>5, <2>1, <2>2 DEF Counts
<1>8. Shape(x, p)
    <2>1. Shape(r, p)
        BY Zenon DEF LocalInv
    <2> QED
        BY Zenon, <1>3, <1>4, <2>1 DEF Shape, CallPlan
<1> QED
    BY Zenon, <1>6, <1>7, <1>8 DEF LocalInv

(* A local step to such a record.                                          *)
LEMMA GoodLocal ==
    ASSUME EngineRunInv, NEW e \in Engines, NEW x, Local(e, x), UNCHANGED unplaced,
           run[e].pc \notin {"idle", "loaded"}, ~Over(run[e]),
           GoodNext(run[e], plan[e], x), x.pc = "checkpoint" => run[e].pc = "checkpoint"
    PROVE EngineRunInv' /\ AbsNext
<1>1. EngineInv(run[e], plan[e], proj)
    BY Zenon DEF EngineRunInv
<1>2. EngineInv(x, plan[e], proj)
    BY Zenon, <1>1 DEF EngineInv, GoodNext, Knows, Quiet, SameAbs, Follows
<1> QED
    BY Zenon, <1>2, LocalStep DEF GoodNext, Follows

LEMMA NextSequence == ASSUME NEW n \in Nat PROVE n + 1 # 0 /\ n + 1 <= n + 1
OBVIOUS

(* A write of an audit record, after which or after whose failure the      *)
(* engine is in such a record.                                             *)
LEMMA GoodAudit ==
    ASSUME EngineRunInv, NEW e \in Engines, NEW ev, NEW detached, NEW ok, NEW failed,
           Write(e, <<ev>>, detached, ok, failed), UNCHANGED unplaced,
           ev.type = "execution", ev.stage \in AuditStages \ {"routing"},
           run[e].pc \notin {"idle", "loaded"}, ~Over(run[e]),
           GoodNext(run[e], plan[e], ok), ok.pc = "checkpoint" => run[e].pc = "checkpoint",
           GoodNext(run[e], plan[e], failed), failed.pc = "checkpoint" => run[e].pc = "checkpoint"
    PROVE EngineRunInv' /\ AbsNext
<1>1. EngineInv(run[e], plan[e], proj) /\ StreamInv(proj)
    BY Zenon DEF EngineRunInv
<1>2. EngineInv(failed, plan[e], proj)
    BY Zenon, <1>1 DEF EngineInv, GoodNext, Knows, Quiet, SameAbs, Follows
<1>3. ASSUME run[e].seq = proj.version
      PROVE /\ Noted(proj, Apply(proj, ev))
            /\ Quiet(run[e], plan[e], Acked(ok, 1))
            /\ EngineInv(Acked(ok, 1), plan[e], Apply(proj, ev))
    <2> DEFINE s == Apply(proj, ev)
               x == Acked(ok, 1)
    <2>1. proj.workload = "running"
        BY Zenon, <1>1, <1>3 DEF EngineInv, Knows
    <2>2. Audited(proj, ev, s) /\ StreamInv(s)
        BY Zenon, <1>1, <2>1, ApplyAudit, AuditKeepsStream
    <2>3. DOMAIN ok = Fields /\ ok.seq \in Nat
        BY Zenon DEF GoodNext, LocalInv, Typed
    <2>4. LocalInv(x, plan[e])
        BY Zenon, AckedLocal DEF GoodNext
    <2>5. DOMAIN x = Fields /\ x.seq = ok.seq + 1 /\ \A f \in Fields \ {"seq"} : x[f] = ok[f]
        BY Zenon, <2>3, AckedFields
    <2> HIDE DEF s, x
    <2>6. /\ x.pc = ok.pc /\ x.asked = ok.asked /\ x.turn = ok.turn /\ x.sel = ok.sel /\ x.loopSeq = ok.loopSeq
          /\ x.reserved = ok.reserved /\ x.extra = ok.extra /\ x.bound = ok.bound /\ x.used = ok.used
        BY <2>5 DEF Fields
    <2>7. Routed(x) <=> Routed(ok)
        BY Zenon, <2>6 DEF Routed, Streaming
    <2>8. Noted(proj, s)
        BY Zenon, <2>2 DEF Noted, Audited
    <2>9. Quiet(run[e], plan[e], x)
        BY Zenon, <2>6 DEF GoodNext, Quiet, SameAbs, PhaseOf
    <2>10. /\ s.workload = "running" /\ s.loopSeq = proj.loopSeq /\ s.loopType = proj.loopType
           /\ s.resume = proj.resume /\ s.routing = proj.routing /\ s.version = proj.version + 1
        BY Zenon, <2>2 DEF Audited
    <2>11. Knows(x, s)
        BY ZenonT(60), <1>1, <1>3, <2>6, <2>7, <2>10 DEF Knows, EngineInv, GoodNext, Follows, Quiet, SameAbs
    <2>12. EngineInv(x, plan[e], s)
        <3>1. proj.version \in Nat
            BY Zenon, <1>1 DEF StreamInv
        <3>2. x.seq = proj.version + 1
            BY Zenon, <1>3, <2>5 DEF GoodNext, Follows
        <3>3. x.seq # 0 /\ x.seq <= s.version
            BY Zenon, <2>10, <3>1, <3>2, NextSequence
        <3>4. x.pc # "idle"
            BY Zenon, <2>9 DEF Quiet
        <3> QED
            BY Zenon, <2>4, <2>11, <3>3, <3>4 DEF EngineInv
    <2> QED
        BY Zenon, <2>8, <2>9, <2>12 DEF s, x
<1>4. DOMAIN failed = Fields /\ failed.seq = run[e].seq /\ Quiet(run[e], plan[e], failed)
    BY Zenon DEF GoodNext, LocalInv, Typed, Follows
<1> QED
    BY Zenon, <1>2, <1>3, <1>4, QuietWrite

-----------------------------------------------------------------------------
(* The records an engine moves to.                                         *)

LEMMA ZeroAmount == Zero \in Amounts /\ Within(Zero, MaxSpend)
BY EngineAssumption DEF Zero, Amounts, Within

LEMMA PlusAmount == ASSUME NEW a \in Amounts, NEW b \in Amounts PROVE Plus(a, b) \in Amounts
BY DEF Plus, Amounts

LEMMA FreshTyped == ASSUME NEW r, Typed(r) PROVE Typed(Fresh(r)) /\ Typed(Return(r)) /\ Typed(Fail(r))
<1>1. Typed(Fresh(r))
    BY ZenonT(60), ZeroAmount, EngineAssumption DEF Typed, Fresh, Fields
<1>2. ASSUME NEW x, Typed(x) PROVE Typed([x EXCEPT !.pc = "close", !.idx = NTools])
    BY <1>2, EngineAssumption DEF Typed, Fields
<1>3. Typed(Return(r))
    BY Zenon, <1>1, <1>2 DEF Return
<1>4. ASSUME NEW x, Typed(x) PROVE Typed([x EXCEPT !.err = TRUE])
    BY <1>4 DEF Typed, Fields
<1> QED
    BY Zenon, <1>1, <1>3, <1>4 DEF Fail

LEMMA FreshFields ==
    ASSUME NEW r, DOMAIN r = Fields, NEW x, x = Fresh(r)
    PROVE /\ DOMAIN x = Fields /\ x.seq = r.seq /\ x.turn = r.turn /\ x.mc = r.mc /\ x.tc = r.tc
          /\ x.usage = r.usage /\ x.stop = r.stop /\ x.extra = r.extra /\ x.compaction = r.compaction
          /\ x.reserved = r.reserved /\ x.approved = r.approved /\ x.loopSeq = r.loopSeq
          /\ x.emitting = r.emitting /\ x.bound = r.bound /\ x.used = r.used
          /\ x.cause = r.cause /\ x.caller = r.caller /\ x.storeErr = r.storeErr /\ x.err = r.err
BY ZenonT(60) DEF Fresh, Fields

(* The loop has returned from r.                                           *)
Returned(r, x) ==
    /\ DOMAIN x = Fields /\ x.pc = "close" /\ x.seq = r.seq /\ x.turn = r.turn /\ x.mc = r.mc /\ x.tc = r.tc
    /\ x.usage = r.usage /\ x.stop = r.stop /\ x.extra = r.extra /\ x.compaction = r.compaction
    /\ x.reserved = r.reserved /\ x.approved = r.approved /\ x.loopSeq = r.loopSeq
    /\ x.emitting = r.emitting /\ x.bound = r.bound /\ x.used = r.used
    /\ x.cause = r.cause /\ x.caller = r.caller

LEMMA ReturnFields ==
    ASSUME NEW r, DOMAIN r = Fields
    PROVE Returned(r, Return(r)) /\ Return(r).err = r.err /\ Returned(r, Fail(r)) /\ Fail(r).err = TRUE
<1> DEFINE y == Fresh(r)
<1>1. /\ DOMAIN y = Fields /\ y.seq = r.seq /\ y.turn = r.turn /\ y.mc = r.mc /\ y.tc = r.tc
      /\ y.usage = r.usage /\ y.stop = r.stop /\ y.extra = r.extra /\ y.compaction = r.compaction
      /\ y.reserved = r.reserved /\ y.approved = r.approved /\ y.loopSeq = r.loopSeq
      /\ y.emitting = r.emitting /\ y.bound = r.bound /\ y.used = r.used
      /\ y.cause = r.cause /\ y.caller = r.caller /\ y.err = r.err
    BY FreshFields
<1> HIDE DEF y
<1>2. Return(r) = [y EXCEPT !.pc = "close", !.idx = NTools]
    BY Zenon DEF Return, y
<1>3. Returned(r, Return(r)) /\ Return(r).err = r.err
    BY <1>1, <1>2 DEF Fields, Returned
<1> DEFINE z == Return(r)
<1>4. Fail(r) = [z EXCEPT !.err = TRUE]
    BY Zenon DEF Fail
<1> HIDE DEF z
<1>5. Returned(r, z)
    BY Zenon, <1>3 DEF z
<1>6. Returned(r, Fail(r)) /\ Fail(r).err = TRUE
    BY <1>4, <1>5 DEF Fields, Returned
<1> QED
    BY Zenon, <1>3, <1>6

(* The loop ends from anywhere.                                            *)
LEMMA CloseGood ==
    ASSUME NEW r, NEW p, LocalInv(r, p), NEW x, Typed(x), x.pc = "close",
           SameAbs(r, x), x.loopSeq = r.loopSeq, x.seq = r.seq
    PROVE GoodNext(r, p, x)
<1>1. ~Placing(x) /\ ~Streaming(x) /\ ~InTurn(x) /\ ~Routed(x) /\ x.pc \notin Before
    BY Zenon DEF Placing, Streaming, InTurn, Routed, Before, CallDue, Batch
<1>2. Counts(x)
    BY Zenon, <1>1 DEF LocalInv, Counts, SameAbs, CallDue, Batch
<1>3. Shape(x, p)
    BY Zenon, <1>1 DEF Shape, CallDue, Batch
<1>4. Quiet(r, p, x)
    BY Zenon DEF Quiet, PhaseOf
<1> QED
    BY Zenon, <1>1, <1>2, <1>3, <1>4 DEF GoodNext, LocalInv, Follows

LEMMA FailGood ==
    ASSUME NEW r, NEW p, LocalInv(r, p)
    PROVE /\ GoodNext(r, p, Fail(r)) /\ Fail(r).pc = "close"
          /\ GoodNext(r, p, Return(r)) /\ Return(r).pc = "close"
          /\ GoodNext(r, p, [Fail(r) EXCEPT !.emitting = FALSE]) /\ [Fail(r) EXCEPT !.emitting = FALSE].pc = "close"
<1>1. Typed(r) /\ DOMAIN r = Fields
    BY Zenon DEF LocalInv, Typed
<1>2. Typed(Fail(r)) /\ Typed(Return(r))
    BY Zenon, <1>1, FreshTyped
<1>3. ASSUME NEW x, x = Fail(r) \/ x = Return(r)
      PROVE x.pc = "close" /\ SameAbs(r, x) /\ x.loopSeq = r.loopSeq /\ x.seq = r.seq
    <2>1. Returned(r, x)
        BY Zenon, <1>1, <1>3, ReturnFields
    <2> QED
        BY Zenon, <2>1 DEF Returned, SameAbs
<1> DEFINE f == Fail(r)
           y == [f EXCEPT !.emitting = FALSE]
<1>4. Typed(f) /\ f.pc = "close" /\ SameAbs(r, f) /\ f.loopSeq = r.loopSeq /\ f.seq = r.seq
    BY Zenon, <1>2, <1>3
<1> HIDE DEF f
<1>5. Typed(y)
    BY <1>4 DEF Typed, Fields
<1>6. y.pc = f.pc /\ SameAbs(f, y) /\ y.loopSeq = f.loopSeq /\ y.seq = f.seq
    BY Zenon, <1>4 DEF Typed, Fields, SameAbs
<1> HIDE DEF y
<1>7. GoodNext(r, p, y) /\ y.pc = "close"
    BY Zenon, <1>4, <1>5, <1>6, CloseGood DEF SameAbs
<1> QED
    BY Zenon, <1>2, <1>3, <1>7, CloseGood DEF y, f

(* The fields a pass over the candidates changes.                          *)
PassFields == {"pc", "cand", "elig", "sel", "asked", "approved"}

(* The pass over the candidates goes on.                                   *)
LEMMA PlaceLocal ==
    ASSUME NEW r, NEW p, LocalInv(r, p), Placing(r), NEW x, Changed(r, x, PassFields), x.elig \subseteq 1..NC,
           Placing(x), Routed(x) => x.sel # 0
    PROVE LocalInv(x, p) /\ Quiet(r, p, x) /\ x.loopSeq = r.loopSeq /\ x.seq = r.seq /\ x.turn = r.turn
<1>1. /\ InTurn(r) /\ ~Streaming(r) /\ r.pc \notin CallDue \cup Batch \cup Before \cup {"tool_start", "cleanup"}
      /\ InTurn(x) /\ ~Streaming(x)
      /\ x.pc \notin CallDue \cup Batch \cup Before \cup {"tool_start", "cleanup", "message", "compact", "call", "tools"}
      /\ r.pc # "call"
    BY Zenon DEF Placing, Streaming, InTurn, Before, CallDue, Batch
<1>2. Counts(r) /\ Shape(r, p) /\ Typed(r)
    BY Zenon DEF LocalInv
<1>3. /\ DOMAIN x = Fields /\ x.seq = r.seq /\ x.turn = r.turn /\ x.mc = r.mc /\ x.tc = r.tc /\ x.usage = r.usage
      /\ x.extra = r.extra /\ x.compaction = r.compaction /\ x.reserved = r.reserved /\ x.loopSeq = r.loopSeq
      /\ x.purpose = r.purpose /\ x.last = r.last /\ x.bound = r.bound /\ x.used = r.used
      /\ x.summary = r.summary /\ x.ncalls = r.ncalls /\ x.idx = r.idx /\ x.tool = r.tool
    BY Zenon DEF Changed, PassFields, Fields
<1>4. Typed(x)
    BY Zenon, <1>2, <1>3 DEF Typed
<1>5. Counts(x)
    BY Zenon, <1>1, <1>2, <1>3 DEF Counts, CallDue
<1>6. Shape(x, p)
    BY Zenon, <1>1, <1>2, <1>3 DEF Shape, CallPlan
<1>7. r.pc \notin {"idle", "loaded", "close", "cleanup"} /\ x.pc \notin {"idle", "loaded", "close", "cleanup"}
    BY Zenon DEF Placing
<1>8. Quiet(r, p, x)
    BY Zenon, <1>3, <1>7 DEF Quiet, PhaseOf, SameAbs
<1> QED
    BY Zenon, <1>3, <1>4, <1>5, <1>6, <1>8 DEF LocalInv

LEMMA PlaceGood ==
    ASSUME NEW r, NEW p, LocalInv(r, p), Placing(r), NEW x, Changed(r, x, PassFields), x.elig \subseteq 1..NC,
           Placing(x), Routed(x) => Routed(r) /\ x.sel = r.sel
    PROVE GoodNext(r, p, x)
<1>1. Routed(x) => x.sel # 0
    BY Zenon DEF LocalInv, Counts
<1> QED
    BY Zenon, <1>1, PlaceLocal DEF GoodNext, Follows

LEMMA AfterVerdictFields ==
    ASSUME NEW y, DOMAIN y = Fields, NEW kind, NEW x, x = AfterVerdict(y, kind)
    PROVE Changed(y, x, {"pc", "cand"}) /\ x.pc \in {"egress", "policy", "route"}
<1>1. CASE x = [y EXCEPT !.pc = "egress"]
    BY <1>1 DEF Changed, Fields
<1>2. CASE x = [y EXCEPT !.pc = "policy", !.cand = @ + 1]
    BY <1>2 DEF Changed, Fields
<1>3. CASE x = [y EXCEPT !.pc = "route"]
    BY Zenon, <1>3 DEF Changed, Fields
<1> QED
    BY Zenon, <1>1, <1>2, <1>3 DEF AfterVerdict

LEMMA AfterVerdictGood ==
    ASSUME NEW r, NEW p, LocalInv(r, p), Placing(r), NEW y, Changed(r, y, {"elig", "asked"}), y.elig \subseteq 1..NC,
           NEW kind, NEW x, x = AfterVerdict(y, kind)
    PROVE GoodNext(r, p, x) /\ x.pc # "checkpoint"
<1>1. Changed(y, x, {"pc", "cand"}) /\ x.pc \in {"egress", "policy", "route"}
    BY AfterVerdictFields DEF Changed
<1>2. Changed(r, x, PassFields) /\ x.elig = y.elig
    BY Zenon, <1>1 DEF Changed, PassFields, Fields
<1>3. Placing(x) /\ ~Routed(x)
    BY Zenon, <1>1 DEF Placing, Routed, Streaming, CallDue, Batch
<1> QED
    BY Zenon, <1>1, <1>2, <1>3, PlaceGood

(* Local errors.                                                           *)
LEMMA AbortStep ==
    ASSUME EngineRunInv, NEW e \in Engines, Abort(e), run[e].pc \notin {"idle", "loaded"}, ~Over(run[e])
    PROVE EngineRunInv' /\ AbsNext
<1>1. LocalInv(run[e], plan[e])
    BY Zenon DEF EngineRunInv, EngineInv
<1>2. Local(e, Fail(run[e])) /\ UNCHANGED unplaced
    BY Zenon DEF Abort, unplaced
<1> QED
    BY Zenon, <1>1, <1>2, FailGood, GoodLocal

LEMMA BudgetStep ==
    ASSUME EngineRunInv, NEW e \in Engines, BudgetFailure(e), UNCHANGED unplaced,
           run[e].pc \notin {"idle", "loaded"}, ~Over(run[e])
    PROVE EngineRunInv' /\ AbsNext
<1>1. LocalInv(run[e], plan[e])
    BY Zenon DEF EngineRunInv, EngineInv
<1> DEFINE ev == Record("budget", run[e])
<1>2. ev.type = "execution" /\ ev.stage \in AuditStages \ {"routing"}
    BY Zenon DEF Record, AuditStages
<1> HIDE DEF ev
<1>3. Write(e, <<ev>>, FALSE, Fail(run[e]), Fail(run[e]))
    BY Zenon DEF BudgetFailure, ev
<1> QED
    BY Zenon, <1>1, <1>2, <1>3, FailGood, GoodAudit

LEMMA EffectKinds ==
    /\ Summary \in Effects /\ Model \in Effects /\ \A i \in 1..MaxBatch : Tool(i) \in Effects
    /\ Summary # Model /\ \A i : Tool(i) # Model /\ Tool(i) # Summary
    /\ \A i, j : Tool(i) = Tool(j) => i = j
BY Zenon DEF Effects, Summary, Model, Tool

LEMMA NoPlanValues == NoPlan[Summary] = "none" /\ NoPlan[Model] = "none" /\ Untouched(NoPlan) /\ Settled(NoPlan)
BY Zenon, EffectKinds DEF NoPlan, Untouched, Settled

(* A pass over the candidates begins at the top of the loop.               *)
LEMMA PassGood ==
    ASSUME NEW r, NEW p, LocalInv(r, p), r.pc = "turn", r.seq # 0, r.turn + r.extra <= MaxModelCalls,
           NEW x, Changed(r, x, PassFields \cup {"purpose", "last"}), x.elig \subseteq 1..NC, x.pc = "policy",
           x.last \in Nat, x.purpose = "summary" => r.turn + r.extra < MaxModelCalls /\ x.last = r.seq
    PROVE GoodNext(r, p, x)
<1>1. /\ Placing(x) /\ InTurn(x) /\ ~Streaming(x) /\ ~Routed(x)
      /\ r.pc \in Before /\ ~Placing(r) /\ ~Streaming(r)
      /\ x.pc \notin CallDue \cup Batch \cup Before
    BY Zenon DEF Placing, Streaming, InTurn, Routed, Before, CallDue, Batch
<1>2. Counts(r) /\ Shape(r, p) /\ Typed(r)
    BY Zenon DEF LocalInv
<1>3. /\ DOMAIN x = Fields /\ x.seq = r.seq /\ x.turn = r.turn /\ x.mc = r.mc /\ x.tc = r.tc /\ x.usage = r.usage
      /\ x.extra = r.extra /\ x.compaction = r.compaction /\ x.reserved = r.reserved /\ x.loopSeq = r.loopSeq
      /\ x.bound = r.bound /\ x.used = r.used
      /\ x.summary = r.summary /\ x.ncalls = r.ncalls /\ x.idx = r.idx /\ x.tool = r.tool
    BY DEF Changed, PassFields, Fields
<1>4. Typed(x)
    BY Zenon, <1>2, <1>3 DEF Typed
<1>5. Counts(x)
    <2>1. r.seq <= r.seq
        BY Zenon, <1>2, AtMostItself DEF Typed
    <2> QED
        BY ZenonT(60), <1>1, <1>2, <1>3, <2>1 DEF Counts
<1>6. p = NoPlan
    BY Zenon, <1>1, <1>2 DEF Shape
<1>7. Shape(x, p)
    BY Zenon, <1>1, <1>6, NoPlanValues DEF Shape, CallPlan
<1>8. Quiet(r, p, x)
    BY Zenon, <1>3 DEF Quiet, PhaseOf, SameAbs
<1> QED
    BY Zenon, <1>1, <1>3, <1>4, <1>5, <1>7, <1>8 DEF GoodNext, LocalInv, Follows

(* The fields the consumption of a stream changes.                         *)
StreamFields ==
    {"pc", "asked", "pend", "events", "terminal", "text", "said", "modelErr", "summary", "ncalls", "usage"}

PendOK(x) ==
    /\ x.pend.kind \in {"content", "tool_call", "usage", "stop", "error"}
    /\ x.pend.kind = "usage" => x.pend.usage \in Amounts
    /\ x.pend.kind = "tool_call" => x.ncalls < MaxBatch

LEMMA StreamLocal ==
    ASSUME NEW r, NEW p, LocalInv(r, p), Streaming(r), NEW x, Changed(r, x, StreamFields \cup {"used"}),
           x.used \in Amounts, x.summary \in Amounts, x.usage \in Amounts, x.ncalls \in Nat, x.ncalls <= MaxBatch,
           Streaming(x), x.pc = "compact" => r.purpose = "summary", x.pc = "message" => r.purpose # "summary",
           x.pc \notin {"recv", "compact", "message"} => PendOK(x)
    PROVE LocalInv(x, p) /\ Follows(r, x)
<1>1. /\ InTurn(r) /\ ~Placing(r) /\ r.pc \notin CallDue \cup Batch \cup Before \cup {"tool_start", "cleanup"}
      /\ InTurn(x) /\ ~Placing(x) /\ Routed(r) /\ Routed(x)
      /\ x.pc \notin CallDue \cup Batch \cup Before \cup {"tool_start", "cleanup", "tools", "call", "start"}
      /\ r.pc # "call"
    BY Zenon DEF Placing, Streaming, InTurn, Routed, Before, CallDue, Batch
<1>2. Counts(r) /\ Shape(r, p) /\ Typed(r)
    BY Zenon DEF LocalInv
<1>3. /\ DOMAIN x = Fields /\ x.seq = r.seq /\ x.turn = r.turn /\ x.mc = r.mc /\ x.tc = r.tc
      /\ x.extra = r.extra /\ x.compaction = r.compaction /\ x.reserved = r.reserved /\ x.loopSeq = r.loopSeq
      /\ x.purpose = r.purpose /\ x.last = r.last /\ x.bound = r.bound
      /\ x.elig = r.elig /\ x.sel = r.sel /\ x.idx = r.idx /\ x.tool = r.tool
    BY DEF Changed, StreamFields, Fields
<1>4. Typed(x)
    BY Zenon, <1>2, <1>3 DEF Typed
<1>5. Counts(x)
    BY Zenon, <1>1, <1>2, <1>3 DEF Counts, PendOK, CallDue
<1>6. Shape(x, p)
    BY Zenon, <1>1, <1>2, <1>3 DEF Shape, CallPlan
<1> QED
    BY Zenon, <1>1, <1>3, <1>4, <1>5, <1>6 DEF LocalInv, Follows

LEMMA StreamGood ==
    ASSUME NEW r, NEW p, LocalInv(r, p), Streaming(r), NEW x, Changed(r, x, StreamFields),
           x.summary \in Amounts, x.usage \in Amounts, x.ncalls \in Nat, x.ncalls <= MaxBatch,
           Streaming(x), x.pc = "compact" => r.purpose = "summary", x.pc = "message" => r.purpose # "summary",
           x.pc \notin {"recv", "compact", "message"} => PendOK(x)
    PROVE GoodNext(r, p, x)
<1>1. Changed(r, x, StreamFields \cup {"used"})
    BY Zenon DEF Changed
<1>2. x.turn = r.turn /\ x.reserved = r.reserved /\ x.extra = r.extra /\ x.bound = r.bound /\ x.used = r.used
    BY Zenon DEF Changed, StreamFields, Fields
<1>3. r.used \in Amounts
    BY Zenon DEF LocalInv, Typed
<1>4. LocalInv(x, p) /\ Follows(r, x)
    BY Zenon, <1>1, <1>2, <1>3, StreamLocal
<1>5. r.pc \notin {"idle", "loaded", "close", "cleanup"} /\ x.pc \notin {"idle", "loaded", "close", "cleanup"}
    BY Zenon DEF Streaming
<1>6. Quiet(r, p, x)
    BY Zenon, <1>2, <1>5 DEF Quiet, PhaseOf, SameAbs
<1> QED
    BY Zenon, <1>4, <1>6 DEF GoodNext

-----------------------------------------------------------------------------
(* The actions of Placement, one by one.                                   *)

LEMMA TurnStep ==
    ASSUME EngineRunInv, NEW e \in Engines, TurnEnded(e) \/ TurnFits(e) \/ TurnOverflows(e) \/ TurnCompacts(e)
    PROVE EngineRunInv' /\ AbsNext
<1> DEFINE r == run[e]
<1>1. r.pc = "turn" /\ r.pc \notin {"idle", "loaded"} /\ ~Over(r)
    BY Zenon DEF TurnEnded, TurnFits, TurnOverflows, TurnCompacts, MayTurn, Over
<1>2. LocalInv(r, plan[e]) /\ DOMAIN r = Fields /\ r.seq # 0 /\ Typed(r)
    BY Zenon, <1>1, EngineFacts DEF LocalInv
<1>3. CASE TurnEnded(e)
    BY Zenon, <1>1, <1>3, AbortStep, BudgetStep DEF TurnEnded
<1>4. CASE TurnOverflows(e)
    BY Zenon, <1>1, <1>4, AbortStep DEF TurnOverflows
<1>5. CASE TurnFits(e)
    <2> DEFINE x == Place(r, "turn")
    <2>1. /\ Changed(r, x, PassFields \cup {"purpose", "last"}) /\ x.pc = "policy" /\ x.purpose = "turn"
          /\ x.elig = 1..NC /\ x.last = r.last
        BY Zenon, <1>2 DEF Place, Changed, PassFields, Fields
    <2>2. Local(e, x) /\ UNCHANGED unplaced /\ r.turn + r.extra <= MaxModelCalls
        BY SMTT(40), <1>2, <1>5, EngineAssumption DEF TurnFits, MayTurn, OverLimit, Typed
    <2>3. r.last \in Nat
        BY Zenon, <1>2 DEF Typed
    <2> HIDE DEF x
    <2>4. GoodNext(r, plan[e], x)
        BY Zenon, <1>1, <1>2, <2>1, <2>2, <2>3, PassGood
    <2> QED
        BY Zenon, <1>1, <2>1, <2>2, <2>4, GoodLocal
<1>6. CASE TurnCompacts(e)
    <2>1. CASE BudgetFailure(e) /\ UNCHANGED unplaced
        BY Zenon, <1>1, <2>1, BudgetStep
    <2>2. CASE ~NoRoomForSummary(r) /\ Local(e, [Place(r, "summary") EXCEPT !.last = r.seq]) /\ UNCHANGED unplaced
        <3> DEFINE x == [Place(r, "summary") EXCEPT !.last = r.seq]
        <3>1. /\ Changed(r, x, PassFields \cup {"purpose", "last"}) /\ x.pc = "policy" /\ x.last = r.seq
              /\ x.elig = 1..NC
            BY Zenon, <1>2 DEF Place, Changed, PassFields, Fields
        <3>2. r.turn + r.extra < MaxModelCalls /\ r.turn + r.extra <= MaxModelCalls /\ r.seq \in Nat
            <4>1. ~(r.turn + r.extra >= MaxModelCalls)
                BY Zenon, <2>2 DEF NoRoomForSummary
            <4>2. r.turn \in Nat /\ r.extra \in Nat /\ r.seq \in Nat /\ MaxModelCalls \in Nat
                BY Zenon, <1>2, EngineAssumption DEF Typed
            <4> QED
                BY <4>1, <4>2
        <3> HIDE DEF x
        <3>3. GoodNext(r, plan[e], x)
            BY Zenon, <1>1, <1>2, <3>1, <3>2, PassGood
        <3>4. Local(e, x)
            BY Zenon, <2>2 DEF x
        <3> QED
            BY Zenon, <1>1, <2>2, <3>1, <3>3, <3>4, GoodLocal
    <2> QED
        BY Zenon, <1>6, <2>1, <2>2 DEF TurnCompacts
<1> QED
    BY Zenon, <1>3, <1>4, <1>5, <1>6

LEMMA PolicyRecordFields ==
    ASSUME NEW r, NEW scope, NEW v, NEW ev, ev = PolicyRecord(r, scope, v)
    PROVE /\ ev.type = "execution" /\ ev.stage = "policy" /\ ev.stage \in AuditStages \ {"routing"}
          /\ ev.turn = r.turn /\ ev.scope = <<r.turn, r.purpose, scope[1], scope[2]>> /\ ev.verdict = v
BY Zenon DEF PolicyRecord, AuditStages

LEMMA ApprovalRecordFields ==
    ASSUME NEW r, NEW asked, NEW granted, NEW ev, ev = ApprovalRecord(r, asked, granted)
    PROVE /\ ev.type = "execution" /\ ev.stage = "approval" /\ ev.stage \in AuditStages \ {"routing"}
          /\ ev.turn = r.turn /\ ev.asked = asked /\ ev.granted = granted
BY Zenon DEF ApprovalRecord, AuditStages

LEMMA EvaluateStep ==
    ASSUME EngineRunInv, NEW e \in Engines, EvaluateExecution(e) \/ EvaluateEgress(e)
    PROVE EngineRunInv' /\ AbsNext
<1> DEFINE r == run[e]
<1>1. PICK pc, kind : Evaluate(e, pc, kind) /\ pc \in {"policy", "egress"} /\ kind \in {"exec", "egress"}
    BY Zenon DEF EvaluateExecution, EvaluateEgress
<1>2. r.pc \in {"policy", "egress"} /\ r.pc \notin {"idle", "loaded"} /\ ~Over(r) /\ Placing(r)
    BY Zenon, <1>1 DEF Evaluate, Over, Placing
<1>3. LocalInv(r, plan[e]) /\ DOMAIN r = Fields /\ r.elig \subseteq 1..NC
    BY Zenon, EngineFacts DEF LocalInv, Typed
<1>4. CASE Abort(e)
    BY Zenon, <1>2, <1>4, AbortStep
<1>5. ASSUME NEW v, UNCHANGED unplaced,
             Write(e, <<PolicyRecord(r, <<kind, r.cand>>, v)>>, FALSE,
                   IF v = "approve" THEN [r EXCEPT !.pc = "approve", !.asked = kind]
                   ELSE AfterVerdict([r EXCEPT !.elig = Eligible(r, v)], kind),
                   Fail(r))
      PROVE EngineRunInv' /\ AbsNext
    <2> DEFINE x == [r EXCEPT !.pc = "approve", !.asked = kind]
               y == [r EXCEPT !.elig = Eligible(r, v)]
               ok == IF v = "approve" THEN x ELSE AfterVerdict(y, kind)
               ev == PolicyRecord(r, <<kind, r.cand>>, v)
    <2>1. Changed(r, x, PassFields) /\ x.pc = "approve" /\ x.asked = kind /\ x.elig = r.elig
        BY Zenon, <1>3 DEF Changed, PassFields, Fields
    <2>2. Changed(r, y, {"elig", "asked"}) /\ y.elig = Eligible(r, v)
        BY Zenon, <1>3 DEF Changed, Fields
    <2>3. Eligible(r, v) \subseteq 1..NC
        BY Zenon, <1>3 DEF Eligible
    <2>4. Write(e, <<ev>>, FALSE, ok, Fail(r))
        BY Zenon, <1>5
    <2>5. ev.type = "execution" /\ ev.stage \in AuditStages \ {"routing"}
        BY PolicyRecordFields
    <2> HIDE DEF x, y, ev
    <2>6. Placing(x) /\ ~Routed(x)
        BY Zenon, <1>1, <2>1 DEF Placing, Routed, Streaming, CallDue, Batch
    <2>7. GoodNext(r, plan[e], x) /\ x.pc # "checkpoint"
        BY Zenon, <1>2, <1>3, <2>1, <2>6, PlaceGood
    <2>8. GoodNext(r, plan[e], AfterVerdict(y, kind)) /\ AfterVerdict(y, kind).pc # "checkpoint"
        BY Zenon, <1>2, <1>3, <2>2, <2>3, AfterVerdictGood
    <2>9. GoodNext(r, plan[e], ok) /\ ok.pc # "checkpoint"
        BY Zenon, <2>7, <2>8
    <2>10. GoodNext(r, plan[e], Fail(r)) /\ Fail(r).pc # "checkpoint"
        BY Zenon, <1>3, FailGood
    <2> HIDE DEF ok
    <2> QED
        BY Zenon, <1>2, <1>5, <2>4, <2>5, <2>9, <2>10, GoodAudit
<1> QED
    BY Zenon, <1>1, <1>4, <1>5 DEF Evaluate

LEMMA ApproveStep ==
    ASSUME EngineRunInv, NEW e \in Engines, Approve(e)
    PROVE EngineRunInv' /\ AbsNext
<1> DEFINE r == run[e]
<1>1. r.pc = "approve" /\ r.pc \notin {"idle", "loaded"} /\ ~Over(r)
    BY Zenon DEF Approve, Over
<1>2. LocalInv(r, plan[e]) /\ DOMAIN r = Fields /\ Typed(r)
    BY Zenon, EngineFacts DEF LocalInv
<1>3. CASE Abort(e)
    BY Zenon, <1>1, <1>3, AbortStep
<1>4. ASSUME NEW granted, UNCHANGED unplaced,
             Write(e, <<ApprovalRecord(r, r.asked, granted)>>, TRUE,
                   IF ~granted THEN Fail(r)
                   ELSE IF r.asked = "step" THEN [r EXCEPT !.pc = "reserve", !.approved = TRUE]
                   ELSE [r EXCEPT !.pc = "grant"],
                   Fail(r))
      PROVE EngineRunInv' /\ AbsNext
    <2> DEFINE x == [r EXCEPT !.pc = "reserve", !.approved = TRUE]
               y == [r EXCEPT !.pc = "grant"]
               ok == IF ~granted THEN Fail(r) ELSE IF r.asked = "step" THEN x ELSE y
               ev == ApprovalRecord(r, r.asked, granted)
    <2>1. Changed(r, x, PassFields) /\ x.pc = "reserve" /\ x.elig = r.elig /\ x.sel = r.sel
        BY Zenon, <1>2 DEF Changed, PassFields, Fields
    <2>2. Changed(r, y, {"pc"}) /\ y.pc = "grant"
        BY Zenon, <1>2 DEF Changed, Fields
    <2>3. Write(e, <<ev>>, TRUE, ok, Fail(r))
        BY Zenon, <1>4
    <2>4. ev.type = "execution" /\ ev.stage \in AuditStages \ {"routing"}
        BY ApprovalRecordFields
    <2> HIDE DEF x, y, ev
    <2>5. r.asked = "step" => GoodNext(r, plan[e], x) /\ x.pc # "checkpoint"
        <3>1. r.asked = "step" => Placing(r) /\ Placing(x) /\ Routed(r)
            BY Zenon, <1>1, <2>1 DEF Placing, Routed
        <3> QED
            BY Zenon, <1>2, <2>1, <3>1, PlaceGood DEF Typed
    <2>6. r.asked # "step" => GoodNext(r, plan[e], y) /\ y.pc # "checkpoint"
        <3>1. CASE r.asked = "return"
            <4>1. Changed(r, y, StreamFields) /\ y.summary = r.summary /\ y.usage = r.usage /\ y.ncalls = r.ncalls
                  /\ y.pend = r.pend /\ y.asked = r.asked
                BY Zenon, <2>2 DEF Changed, StreamFields, Fields
            <4>2. Streaming(r) /\ Streaming(y)
                BY Zenon, <1>1, <2>2, <3>1, <4>1 DEF Streaming
            <4>3. PendOK(y) /\ r.ncalls <= MaxBatch
                BY Zenon, <1>1, <1>2, <4>1, <4>2 DEF LocalInv, Counts, PendOK
            <4> QED
                BY Zenon, <1>2, <2>2, <4>1, <4>2, <4>3, StreamGood DEF Typed
        <3>2. CASE r.asked \notin {"return", "step"}
            <4>1. Changed(r, y, PassFields) /\ y.elig = r.elig /\ y.asked = r.asked
                BY Zenon, <2>2 DEF Changed, PassFields, Fields
            <4>2. Placing(r) /\ Placing(y) /\ ~Routed(y)
                BY Zenon, <1>1, <2>2, <3>2, <4>1 DEF Placing, Routed, Streaming, CallDue, Batch
            <4> QED
                BY Zenon, <1>2, <2>2, <4>1, <4>2, PlaceGood DEF Typed
        <3> QED
            BY Zenon, <3>1, <3>2
    <2>7. GoodNext(r, plan[e], Fail(r)) /\ Fail(r).pc # "checkpoint"
        BY Zenon, <1>2, FailGood
    <2>8. GoodNext(r, plan[e], ok) /\ ok.pc # "checkpoint"
        BY Zenon, <2>5, <2>6, <2>7
    <2> HIDE DEF ok
    <2> QED
        BY Zenon, <1>1, <1>4, <2>3, <2>4, <2>7, <2>8, GoodAudit
<1> QED
    BY Zenon, <1>3, <1>4 DEF Approve

LEMMA GrantStep ==
    ASSUME EngineRunInv, NEW e \in Engines, Grant(e)
    PROVE EngineRunInv' /\ AbsNext
<1> DEFINE r == run[e]
           x == [r EXCEPT !.pc = "emit", !.asked = "none"]
           y == [r EXCEPT !.asked = "none"]
           ok == IF r.asked = "return" THEN x ELSE AfterVerdict(y, r.asked)
           ev == PolicyRecord(r, <<r.asked, r.cand>>, "allow")
<1>1. r.pc = "grant" /\ r.pc \notin {"idle", "loaded"} /\ ~Over(r) /\ UNCHANGED unplaced
    BY Zenon DEF Grant, Over
<1>2. LocalInv(r, plan[e]) /\ DOMAIN r = Fields /\ Typed(r)
    BY Zenon, EngineFacts DEF LocalInv
<1>3. Changed(r, x, StreamFields) /\ x.summary = r.summary /\ x.usage = r.usage /\ x.ncalls = r.ncalls
      /\ x.pend = r.pend /\ x.pc = "emit"
    BY Zenon, <1>2 DEF Changed, StreamFields, Fields
<1>4. Changed(r, y, {"elig", "asked"}) /\ y.elig = r.elig
    BY Zenon, <1>2 DEF Changed, Fields
<1>5. Write(e, <<ev>>, FALSE, ok, Fail(r))
    BY Zenon DEF Grant
<1>6. ev.type = "execution" /\ ev.stage \in AuditStages \ {"routing"}
    BY PolicyRecordFields
<1> HIDE DEF x, y, ev
<1>7. r.asked = "return" => GoodNext(r, plan[e], x) /\ x.pc # "checkpoint"
    <2>1. r.asked = "return" => Streaming(r)
        BY Zenon, <1>1 DEF Streaming
    <2>2. Streaming(x)
        BY Zenon, <1>3 DEF Streaming
    <2>3. r.asked = "return" => PendOK(x) /\ r.ncalls <= MaxBatch
        BY Zenon, <1>1, <1>2, <1>3, <2>1 DEF LocalInv, Counts, PendOK
    <2> QED
        BY Zenon, <1>2, <1>3, <2>1, <2>2, <2>3, StreamGood DEF Typed
<1>8. r.asked # "return" => GoodNext(r, plan[e], AfterVerdict(y, r.asked)) /\ AfterVerdict(y, r.asked).pc # "checkpoint"
    <2>1. r.asked # "return" => Placing(r)
        BY Zenon, <1>1 DEF Placing
    <2> QED
        BY Zenon, <1>2, <1>4, <2>1, AfterVerdictGood DEF Typed
<1>9. GoodNext(r, plan[e], Fail(r)) /\ Fail(r).pc # "checkpoint"
    BY Zenon, <1>2, FailGood
<1>10. GoodNext(r, plan[e], ok) /\ ok.pc # "checkpoint"
    BY Zenon, <1>7, <1>8
<1> HIDE DEF ok
<1> QED
    BY Zenon, <1>1, <1>5, <1>6, <1>9, <1>10, GoodAudit

(* The routing record, after which the placement is what the stream says.  *)
LEMMA GoodRouting ==
    ASSUME EngineRunInv, NEW e \in Engines, NEW selected, NEW detached, NEW ok, NEW failed,
           Write(e, <<RoutingRecord(run[e], selected)>>, detached, ok, failed), UNCHANGED unplaced,
           Placing(run[e]),
           LocalInv(ok, plan[e]), Quiet(run[e], plan[e], ok), ok.loopSeq = run[e].loopSeq, ok.seq = run[e].seq,
           Routed(ok) => ok.turn = run[e].turn /\ ok.sel = selected, ok.pc # "checkpoint",
           GoodNext(run[e], plan[e], failed), failed.pc # "checkpoint"
    PROVE EngineRunInv' /\ AbsNext
<1> DEFINE ev == RoutingRecord(run[e], selected)
<1>1. EngineInv(run[e], plan[e], proj) /\ StreamInv(proj) /\ LocalInv(run[e], plan[e])
    BY Zenon DEF EngineRunInv, EngineInv
<1>2. run[e].pc \notin {"idle", "loaded"} /\ ~Over(run[e])
    BY Zenon DEF Placing, Over
<1>3. EngineInv(failed, plan[e], proj)
    BY Zenon, <1>1, <1>2 DEF EngineInv, GoodNext, Knows, Quiet, SameAbs, Follows
<1>4. ev.type = "execution" /\ ev.stage = "routing" /\ ev.turn = run[e].turn /\ ev.selected = selected
    BY Zenon DEF RoutingRecord
<1>5. run[e].turn \in Turns
    <2>1. run[e].turn \in Nat /\ run[e].turn # 0 /\ run[e].extra \in Nat /\ run[e].turn + run[e].extra <= MaxModelCalls
        BY Zenon, <1>1 DEF LocalInv, Typed, Counts, InTurn
    <2> QED
        BY SMTT(40), <2>1, EngineAssumption
<1> HIDE DEF ev
<1>6. ASSUME run[e].seq = proj.version
      PROVE /\ Noted(proj, Apply(proj, ev))
            /\ Quiet(run[e], plan[e], Acked(ok, 1))
            /\ EngineInv(Acked(ok, 1), plan[e], Apply(proj, ev))
    <2> DEFINE s == Apply(proj, ev)
               x == Acked(ok, 1)
    <2>1. proj.workload = "running"
        BY Zenon, <1>1, <1>2, <1>6 DEF EngineInv, Knows
    <2>2. Audited(proj, ev, s) /\ StreamInv(s)
        BY Zenon, <1>1, <1>4, <1>5, <2>1, ApplyAudit, AuditKeepsStream DEF AuditStages
    <2>3. DOMAIN ok = Fields /\ ok.seq \in Nat
        BY Zenon DEF LocalInv, Typed
    <2>4. LocalInv(x, plan[e])
        BY Zenon, AckedLocal
    <2>5. DOMAIN x = Fields /\ x.seq = ok.seq + 1 /\ \A f \in Fields \ {"seq"} : x[f] = ok[f]
        BY SMTT(40), <2>3, AckedFields
    <2> HIDE DEF s, x
    <2>6. /\ x.pc = ok.pc /\ x.asked = ok.asked /\ x.turn = ok.turn /\ x.sel = ok.sel /\ x.loopSeq = ok.loopSeq
          /\ x.reserved = ok.reserved /\ x.extra = ok.extra /\ x.bound = ok.bound /\ x.used = ok.used
        BY Zenon, <2>5 DEF Fields
    <2>7. Routed(x) <=> Routed(ok)
        BY Zenon, <2>6 DEF Routed, Streaming
    <2>8. Noted(proj, s)
        BY Zenon, <2>2 DEF Noted, Audited
    <2>9. Quiet(run[e], plan[e], x)
        BY Zenon, <2>6 DEF Quiet, SameAbs, PhaseOf
    <2>10. /\ s.workload = "running" /\ s.loopSeq = proj.loopSeq /\ s.loopType = proj.loopType
           /\ s.resume = proj.resume /\ s.version = proj.version + 1
        BY Zenon, <2>2 DEF Audited
    <2>11. s.routing[run[e].turn] = selected
        BY ZenonT(60), <1>1, <1>4, <1>5, <2>2 DEF Audited, StreamInv
    <2>12. Knows(x, s)
        BY <1>1, <1>2, <1>6, <2>6, <2>7, <2>10, <2>11 DEF Knows, EngineInv, Quiet, SameAbs
    <2>13. EngineInv(x, plan[e], s)
        <3>1. proj.version \in Nat
            BY Zenon, <1>1 DEF StreamInv
        <3>2. x.seq = proj.version + 1
            BY Zenon, <1>6, <2>5
        <3>3. x.seq # 0 /\ x.seq <= s.version
            BY Zenon, <2>10, <3>1, <3>2, NextSequence
        <3>4. x.pc # "idle"
            BY Zenon, <2>9 DEF Quiet
        <3> QED
            BY Zenon, <2>4, <2>12, <3>3, <3>4 DEF EngineInv
    <2> QED
        BY Zenon, <2>8, <2>9, <2>13 DEF s, x
<1>7. DOMAIN failed = Fields /\ failed.seq = run[e].seq /\ Quiet(run[e], plan[e], failed)
    BY Zenon DEF GoodNext, LocalInv, Typed, Follows
<1>8. Write(e, <<ev>>, detached, ok, failed)
    BY Zenon DEF ev
<1> QED
    BY Zenon, <1>2, <1>3, <1>6, <1>7, <1>8, QuietWrite

LEMMA RouteStep ==
    ASSUME EngineRunInv, NEW e \in Engines, Route(e)
    PROVE EngineRunInv' /\ AbsNext
<1> DEFINE r == run[e]
<1>1. r.pc = "route" /\ r.pc \notin {"idle", "loaded"} /\ ~Over(r) /\ Placing(r)
    BY Zenon DEF Route, Over, Placing
<1>2. LocalInv(r, plan[e]) /\ DOMAIN r = Fields /\ Typed(r)
    BY Zenon, EngineFacts DEF LocalInv
<1>3. CASE Abort(e)
    BY Zenon, <1>1, <1>3, AbortStep
<1>4. ASSUME NEW selected \in r.elig \cup {0}, NEW available, UNCHANGED unplaced,
             Write(e, <<RoutingRecord(r, selected)>>, FALSE, AfterRouting(r, selected, available), Fail(r))
      PROVE EngineRunInv' /\ AbsNext
    <2> DEFINE x == [r EXCEPT !.sel = selected, !.pc = "approve", !.asked = "step"]
               y == [r EXCEPT !.sel = selected, !.pc = "reserve"]
               ok == AfterRouting(r, selected, available)
               Good(z) == /\ LocalInv(z, plan[e]) /\ Quiet(r, plan[e], z) /\ z.loopSeq = r.loopSeq /\ z.seq = r.seq
                          /\ Routed(z) => z.turn = r.turn /\ z.sel = selected
                          /\ z.pc # "checkpoint"
    <2>1. Changed(r, x, PassFields) /\ x.pc = "approve" /\ x.asked = "step" /\ x.elig = r.elig /\ x.sel = selected
        BY Zenon, <1>2 DEF Changed, PassFields, Fields
    <2>2. Changed(r, y, PassFields) /\ y.pc = "reserve" /\ y.elig = r.elig /\ y.sel = selected
        BY Zenon, <1>2 DEF Changed, PassFields, Fields
    <2>3. GoodNext(r, plan[e], Fail(r)) /\ Fail(r).pc = "close"
        BY Zenon, <1>2, FailGood
    <2>4. ok \in {Fail(r), x, y} /\ (selected = 0 => ok = Fail(r))
        BY Zenon DEF AfterRouting
    <2> HIDE DEF x, y, ok
    <2>5. Placing(x) /\ Placing(y)
        BY Zenon, <2>1, <2>2 DEF Placing
    <2>6. selected # 0 => Good(x)
        BY ZenonT(60), <1>1, <1>2, <2>1, <2>5, PlaceLocal DEF Typed
    <2>7. selected # 0 => Good(y)
        BY ZenonT(60), <1>1, <1>2, <2>2, <2>5, PlaceLocal DEF Typed
    <2>8. Good(Fail(r))
        BY Zenon, <2>3 DEF GoodNext, Follows, Routed, Streaming, CallDue, Batch
    <2>9. Good(ok)
        BY Zenon, <2>4, <2>6, <2>7, <2>8
    <2>10. Write(e, <<RoutingRecord(r, selected)>>, FALSE, ok, Fail(r))
        BY Zenon, <1>4 DEF ok
    <2> QED
        BY Zenon, <1>1, <1>4, <2>3, <2>9, <2>10, GoodRouting
<1> QED
    BY Zenon, <1>3, <1>4 DEF Route

-----------------------------------------------------------------------------
(* The write of an intent, of the end of a summary or of a checkpoint: the *)
(* engine is told of the commit, is not told of it, or stops.              *)

Told(e, ev, ok, next) ==
    /\ run[e].seq = proj.version /\ proj' = Apply(proj, ev)
    /\ run' = [run EXCEPT ![e] = Acked(ok, 1)] /\ plan' = [plan EXCEPT ![e] = next]
    /\ AbsHolds' = {e}

Untold(e, ev, failed) ==
    /\ run[e].seq = proj.version /\ proj' = Apply(proj, ev)
    /\ \E s : Alike(failed, s) /\ run' = [run EXCEPT ![e] = s]
    /\ plan' = [plan EXCEPT ![e] = plan[e]]
    /\ AbsHolds' = {}

LEMMA PlannedWrite ==
    ASSUME EngineRunInv, NEW e \in Engines, NEW ev, NEW ok, NEW failed, NEW next \in [Effects -> PlanStates],
           Write(e, <<ev>>, FALSE, ok, failed), Planned(e, next), UNCHANGED <<world, resumes>>,
           run[e].pc \notin {"idle", "loaded"}, ~Over(run[e]),
           GoodNext(run[e], plan[e], failed), failed.pc = "close",
           run[e].seq = proj.version =>
                /\ StreamInv(Apply(proj, ev)) /\ Apply(proj, ev).version = proj.version + 1
                /\ ok.seq = run[e].seq /\ Acked(ok, 1).pc # "idle"
                /\ EngineInv(Acked(ok, 1), next, Apply(proj, ev))
    PROVE /\ EngineRunInv' /\ (AbsNext \/ Told(e, ev, ok, next) \/ Untold(e, ev, failed))
          /\ run[e].seq = proj.version => e \in AbsHolds /\ proj.workload = "running"
<1>1. DOMAIN failed = Fields /\ failed.seq = run[e].seq /\ Quiet(run[e], plan[e], failed)
    BY Zenon DEF GoodNext, LocalInv, Typed, Follows
<1>2. StreamInv(proj) /\ EngineInv(run[e], plan[e], proj) /\ run[e].seq \in Nat /\ proj.version \in Nat
    BY Zenon DEF EngineRunInv, EngineInv, LocalInv, Typed, StreamInv
<1>3. EngineInv(failed, plan[e], proj)
    BY Zenon, <1>2 DEF EngineInv, GoodNext, Knows, Quiet, SameAbs, Follows
<1>4. PICK s : Written(e, <<ev>>, ok, failed, s)
    BY Zenon, <1>1, WriteCases
<1>5. Len(<<ev>>) = 1 /\ Replay(proj, <<ev>>) = Apply(proj, ev)
    BY Zenon, ReplayOne
<1>6. run[e].seq = proj.version => e \in AbsHolds /\ proj.workload = "running"
    BY Zenon, <1>2 DEF AbsHolds, EngineInv, Knows
<1>7. plan = [plan EXCEPT ![e] = plan[e]] /\ plan[e] \in [Effects -> PlanStates] /\ DOMAIN run = Engines
    BY Zenon DEF EngineRunInv
<1>8. CASE run[e].seq = proj.version /\ proj' = Replay(proj, <<ev>>) /\ s = Acked(ok, Len(<<ev>>))
    <2>1. StreamInv(proj') /\ proj'.version = proj.version + 1 /\ s.pc # "idle" /\ EngineInv(s, next, proj')
          /\ s = Acked(ok, 1) /\ proj' = Apply(proj, ev) /\ ok.seq = run[e].seq
        BY Zenon, <1>5, <1>8
    <2>2. run' = [run EXCEPT ![e] = s]
        BY Zenon, <1>4, <2>1 DEF Written, Left
    <2>3. s.seq = run[e].seq + 1
        <3>1. s.seq <= proj'.version /\ DOMAIN s = Fields
            BY Zenon, <2>1 DEF EngineInv, LocalInv, Typed
        <3>2. DOMAIN s = DOMAIN ok
            BY Zenon, <2>1 DEF Acked
        <3> QED
            BY Zenon, <2>1, <3>1, <3>2 DEF Acked, Fields
    <2>4. plan' = [plan EXCEPT ![e] = next]
        <3>1. run'[e].seq # run[e].seq
            BY <1>2, <1>7, <2>2, <2>3
        <3> QED
            BY Zenon, <3>1 DEF Planned
    <2>5. proj'.version > proj.version
        BY Zenon, <1>2, <2>1, Successor
    <2>6. EngineRunInv'
        BY Zenon, <2>1, <2>2, <2>4, <2>5, FrameInv
    <2>7. AbsHolds' = {e}
        <3>1. s.pc # "idle" /\ s.seq = proj'.version /\ proj'.version \in Nat
            BY Zenon, <1>2, <1>8, <2>1, <2>3, Successor
        <3> QED
            BY Zenon, <2>2, <2>5, <3>1, FrameHolds
    <2> QED
        BY Zenon, <1>6, <1>8, <2>1, <2>2, <2>4, <2>6, <2>7 DEF Told
<1>9. ASSUME Alike(failed, s) PROVE /\ run' = [run EXCEPT ![e] = s] /\ Quiet(run[e], plan[e], s)
                                    /\ EngineInv(s, plan[e], proj) /\ s.seq = run[e].seq
                                    /\ plan' = [plan EXCEPT ![e] = plan[e]] /\ plan' = plan
    <2>1. /\ s.pc = failed.pc /\ s.turn = failed.turn /\ s.reserved = failed.reserved /\ s.extra = failed.extra
          /\ s.bound = failed.bound /\ s.used = failed.used /\ s.seq = failed.seq
        BY Zenon, <1>9 DEF Alike, Fields
    <2>2. Quiet(run[e], plan[e], s)
        BY Zenon, <1>1, <2>1 DEF Quiet, SameAbs, PhaseOf
    <2>3. EngineInv(s, plan[e], proj)
        BY Zenon, <1>1, <1>3, <1>9, AlikeInv DEF Quiet
    <2>4. run' = [run EXCEPT ![e] = s]
        BY Zenon, <1>4, <2>2 DEF Written, Left, Quiet
    <2>5. run'[e].seq = run[e].seq
        BY Zenon, <1>1, <1>7, <2>1, <2>4
    <2>6. plan' = plan
        BY Zenon, <2>5 DEF Planned
    <2> QED
        BY Zenon, <1>1, <1>7, <2>1, <2>2, <2>3, <2>4, <2>6
<1>10. CASE proj' = proj /\ Alike(failed, s)
    <2>1. EngineRunInv'
        BY Zenon, <1>2, <1>7, <1>9, <1>10, FrameInv
    <2>2. AbsNext
        BY Zenon, <1>9, <1>10, AbsLocal DEF Quiet
    <2> QED
        BY Zenon, <1>6, <2>1, <2>2
<1>11. CASE run[e].seq = proj.version /\ proj' = Replay(proj, <<ev>>) /\ Alike(failed, s)
    <2>1. StreamInv(proj') /\ proj'.version = proj.version + 1 /\ proj' = Apply(proj, ev)
        BY Zenon, <1>5, <1>11
    <2>2. proj'.version > proj.version /\ s.seq <= proj'.version /\ s.seq # proj'.version /\ proj'.version \in Nat
        BY <1>2, <1>9, <1>11, <2>1
    <2>3. EngineInv(s, plan[e], proj')
        <3>1. EngineInv(s, plan[e], proj)
            BY Zenon, <1>9, <1>11
        <3> QED
            BY Zenon, <2>2, <3>1 DEF EngineInv, Knows
    <2>4. EngineRunInv'
        BY Zenon, <1>7, <1>9, <1>11, <2>1, <2>2, <2>3, FrameInv
    <2>5. AbsHolds' = {}
        BY Zenon, <1>9, <1>11, <2>2, FrameHolds
    <2> QED
        BY Zenon, <1>6, <1>9, <1>11, <2>1, <2>4, <2>5 DEF Untold
<1> QED
    BY Zenon, <1>4, <1>8, <1>10, <1>11 DEF Written

(* An engine that is told of its write knows what the stream then says.    *)
Heard(x, s) ==
    /\ s.workload = "running" /\ s.loopSeq = x.loopSeq /\ s.resume.reserved = x.reserved
    /\ s.loopType = "stopped" => Over(x)
    /\ x.pc = "checkpoint" => s.loopType = "tool_message"
    /\ Routed(x) => s.routing[x.turn] = x.sel

LEMMA AckedInv ==
    ASSUME NEW x, NEW p, LocalInv(x, p), x.pc # "idle", NEW q, StreamInv(q), x.seq = q.version,
           NEW s, s.version = q.version + 1, Heard(x, s), NEW y, y = Acked(x, 1)
    PROVE EngineInv(y, p, s) /\ y.pc = x.pc /\ SameAbs(x, y) /\ y.seq = x.seq + 1
<1>1. DOMAIN x = Fields /\ x.seq \in Nat /\ q.version \in Nat
    BY Zenon DEF LocalInv, Typed, StreamInv
<1>2. LocalInv(y, p)
    BY Zenon, AckedLocal
<1>3. DOMAIN y = Fields /\ y.seq = x.seq + 1 /\ \A f \in Fields \ {"seq"} : y[f] = x[f]
    BY SMTT(40), <1>1, AckedFields
<1>4. /\ y.pc = x.pc /\ y.asked = x.asked /\ y.turn = x.turn /\ y.sel = x.sel /\ y.loopSeq = x.loopSeq
      /\ y.reserved = x.reserved /\ y.extra = x.extra /\ y.bound = x.bound /\ y.used = x.used
      /\ y.emitting = x.emitting /\ y.idx = x.idx
    BY <1>3 DEF Fields
<1>5. (Routed(y) <=> Routed(x)) /\ (Over(y) <=> Over(x))
    BY Zenon, <1>4 DEF Routed, Streaming, Over
<1>6. Knows(y, s)
    BY Zenon, <1>4, <1>5 DEF Knows, Heard
<1>7. y.seq # 0 /\ y.seq <= s.version
    BY <1>1, <1>3
<1> QED
    BY Zenon, <1>2, <1>3, <1>4, <1>6, <1>7 DEF EngineInv, SameAbs

(* The same, of a record that awaits its acknowledgement.                  *)
Awaited(x, p, q, s) ==
    /\ LocalInv(x, p) /\ x.pc # "idle" /\ StreamInv(q) /\ x.seq = q.version
    /\ s.version = q.version + 1 /\ Heard(x, s)

Answered(x, p, s) == EngineInv(Acked(x, 1), p, s) /\ Acked(x, 1).pc = x.pc /\ SameAbs(x, Acked(x, 1))

LEMMA AwaitedAnswered ==
    ASSUME NEW x, NEW p, NEW q, NEW s, Awaited(x, p, q, s)
    PROVE Answered(x, p, s)
<1>1. PICK y : y = Acked(x, 1)
    BY Zenon
<1>2. /\ LocalInv(x, p) /\ x.pc # "idle" /\ StreamInv(q) /\ x.seq = q.version
      /\ s.version = q.version + 1 /\ Heard(x, s)
    BY Zenon DEF Awaited
<1>3. EngineInv(y, p, s) /\ y.pc = x.pc /\ SameAbs(x, y)
    BY Zenon, <1>1, <1>2, AckedInv
<1> QED
    BY Zenon, <1>1, <1>3 DEF Answered

(* An intent of the engine is one of DurableExecution.                     *)
Intends(e, k, b, ack, r, p) ==
    /\ run' = [run EXCEPT ![e] = r] /\ plan' = [plan EXCEPT ![e] = p] /\ UNCHANGED world
    /\ e \in AbsHolds /\ AbsHolds' = IF ack THEN {e} ELSE {}
    /\ PhaseOf(run[e], plan[e]) \in {"ready", "busy"}
    /\ PhaseOf(r, p) = IF ack THEN "busy" ELSE "closing"
    /\ p = IF ack THEN [plan[e] EXCEPT ![k] = "intended"] ELSE plan[e]
    /\ plan[e][k] = "none"
    /\ k = Summary => plan[e][Model] = "none" /\ run[e].turn + run[e].extra < MaxModelCalls
    /\ k = Model => plan[e][Summary] \in {"none", "recorded"} /\ run[e].turn + run[e].extra <= MaxModelCalls
    /\ k \notin {Summary, Model} => plan[e][Model] = "performed" /\ b = Zero
    /\ Within(Plus(run[e].reserved, b), MaxSpend)
    /\ proj.workload = "running" /\ proj'.workload = "running" /\ proj'.resume.ckpt.turn = 0
    /\ proj'.resume.reserved = Plus(proj.resume.reserved, b) /\ proj'.resume.extra = proj.resume.extra
    /\ r.turn = run[e].turn /\ r.extra = run[e].extra
    /\ r.reserved = IF ack THEN Plus(run[e].reserved, b) ELSE run[e].reserved
    /\ Minus(r.bound, r.used) = IF ack /\ k \in {Summary, Model} THEN b ELSE Minus(run[e].bound, run[e].used)

LEMMA AbsIntend ==
    ASSUME EngineRunInv, NEW e \in Engines, NEW k \in Effects, NEW b \in Spends \cup {Zero}, NEW ack \in BOOLEAN,
           NEW r, NEW p, Intends(e, k, b, ack, r, p)
    PROVE AbsNext
<1>1. AbsMoves(e, r, p)
    BY Zenon, FrameAbs DEF Intends
<1>2. AbsTurn = [f \in Engines |-> AbsTurn[f]] /\ AbsExtra = [f \in Engines |-> AbsExtra[f]]
    BY Zenon DEF AbsTurn, AbsExtra
<1>3. AbsTurn' = AbsTurn /\ AbsExtra' = AbsExtra
    BY Zenon, <1>1, <1>2 DEF AbsMoves, Intends
<1>4. /\ AbsMine' = [AbsMine EXCEPT ![e] = IF ack THEN Plus(@, b) ELSE @]
      /\ AbsRoom' = [AbsRoom EXCEPT ![e] = IF ack /\ k \in {Summary, Model} THEN b ELSE @]
      /\ AbsPc' = [AbsPc EXCEPT ![e] = IF ack THEN "busy" ELSE "closing"]
      /\ AbsPc[e] \in {"ready", "busy"}
    BY Zenon, <1>1 DEF AbsMoves, Intends
<1>5. /\ WorkloadPhase' = WorkloadPhase /\ AbsCkpt' = 0
      /\ proj'.resume.reserved = Plus(proj.resume.reserved, b) /\ proj'.resume.extra = proj.resume.extra
    BY Zenon DEF WorkloadPhase, AbsCkpt, Intends
<1>6. plan' = [plan EXCEPT ![e][k] = IF ack THEN "intended" ELSE @]
    BY Zenon DEF Intends, EngineRunInv
<1>7. /\ D!Plus(AbsMine[e], b) = Plus(run[e].reserved, b) /\ D!Zero = Zero
      /\ D!Within(D!Plus(AbsMine[e], b), MaxSpend)
      /\ AbsTurn[e] = run[e].turn /\ AbsExtra[e] = run[e].extra
    BY Zenon, <1>1 DEF AbsMoves, Intends, D!Plus, D!Zero, D!Within, Plus, Zero, Within
<1>8. /\ D!Summary = Summary /\ D!Model = Model /\ D!Calls = {Summary, Model} /\ D!Effects = Effects
    BY Zenon DEF D!Summary, D!Model, D!Calls, D!Effects, D!Tool, Summary, Model, Effects, Tool
<1>9. D!MayIntend(e, k)
    BY Zenon, <1>7, <1>8 DEF D!MayIntend, Intends
<1>10. D!Append(e, ack)
    BY Zenon DEF D!Append, Intends
<1>11. D!After(e, ack, "busy", "closing")
    BY Zenon, <1>4 DEF D!After
<1>12. D!Intend(e, k, b, ack)
    <2>1. AbsMine' = [AbsMine EXCEPT ![e] = IF ack THEN D!Plus(@, b) ELSE @]
        BY Zenon, <1>4 DEF D!Plus, Plus
    <2>2. proj'.resume.reserved = D!Plus(proj.resume.reserved, b)
        BY Zenon, <1>5 DEF D!Plus, Plus
    <2>3. UNCHANGED D!world
        BY Zenon DEF D!world, world, Intends
    <2> QED
        BY Zenon, <1>3, <1>4, <1>5, <1>6, <1>7, <1>8, <1>9, <1>10, <1>11, <2>1, <2>2, <2>3
           DEF D!Intend, Intends
<1> QED
    BY Zenon, <1>7, <1>8, <1>12 DEF AbsNext, D!Next

(* A reservation and a compaction record are summed up, and take the       *)
(* checkpoint away.                                                        *)
Summed(q, s) ==
    /\ DOMAIN s = PFields /\ s.version = q.version + 1 /\ s.valid = TRUE
    /\ s.workload = "running" /\ s.step = q.step /\ s.finished = q.finished /\ s.result = q.result
    /\ s.loopSeq = q.loopSeq /\ s.loopType = q.loopType /\ s.routing = q.routing
    /\ s.allowed = q.allowed /\ s.approved = q.approved /\ s.completed = q.completed
    /\ DOMAIN s.resume = {"ckpt", "reserved", "extra", "usage"} /\ s.resume.ckpt = NoCheckpoint

LEMMA ApplyReserved ==
    ASSUME NEW q, StreamInv(q), q.workload = "running",
           NEW ev, ev.type = "execution", ev.stage = "reserved",
           NEW s, s = Apply(q, ev)
    PROVE /\ Summed(q, s) /\ s.resume.reserved = Plus(q.resume.reserved, ev.bound)
          /\ s.resume.extra = q.resume.extra /\ s.resume.usage = q.resume.usage
<1>1. DOMAIN q = PFields /\ q.valid = TRUE /\ q.step = "running" /\ q.finished = FALSE
      /\ DOMAIN q.resume = {"ckpt", "reserved", "extra", "usage"}
    BY Zenon DEF StreamInv
<1>2. Accepts(q, ev)
    BY Zenon, <1>1 DEF Accepts, AcceptsExecution
<1>3. Apply(q, ev) = [Effect(q, ev) EXCEPT !.version = @ + 1]
    BY Zenon, <1>1, <1>2, AcceptedCounts
<1>4. Effect(q, ev) = ApplyExecution(q, ev)
    BY Zenon DEF Effect
<1> DEFINE u == [q.resume EXCEPT !.ckpt = NoCheckpoint, !.reserved = Plus(@, ev.bound)]
           t == [q EXCEPT !.resume = u]
<1>5. Scan(q.resume, ev) = u
    BY Zenon DEF Scan
<1>6. ApplyExecution(q, ev) = t
    BY Zenon, <1>5 DEF ApplyExecution
<1>7. /\ DOMAIN u = {"ckpt", "reserved", "extra", "usage"} /\ u.ckpt = NoCheckpoint
      /\ u.reserved = Plus(q.resume.reserved, ev.bound) /\ u.extra = q.resume.extra /\ u.usage = q.resume.usage
    BY Zenon, <1>1
<1> HIDE DEF u
<1>8. DOMAIN t = PFields /\ t.resume = u /\ \A f \in PFields \ {"resume"} : t[f] = q[f]
    BY Zenon, <1>1 DEF PFields
<1> HIDE DEF t
<1>9. s = [t EXCEPT !.version = @ + 1]
    BY Zenon, <1>3, <1>4, <1>6
<1> QED
    BY <1>1, <1>7, <1>8, <1>9 DEF PFields, Summed

LEMMA SummedKeepsStream ==
    ASSUME NEW q, StreamInv(q), q.workload = "running", NEW s, Summed(q, s),
           s.resume.reserved \in Amounts, Within(s.resume.reserved, MaxSpend),
           s.resume.extra \in Nat, s.resume.usage \in Amounts
    PROVE StreamInv(s)
<1>1. s.resume.ckpt.turn = 0
    BY Zenon, NoCheckpointTurn DEF Summed
<1>2. s.version \in Nat /\ s.version # 0
    BY Zenon, Successor DEF StreamInv, Summed
<1> QED
    BY Zenon, <1>1, <1>2 DEF StreamInv, Summed

LEMMA ReserveStep ==
    ASSUME EngineRunInv, NEW e \in Engines, Reserve(e)
    PROVE EngineRunInv' /\ AbsNext
<1> DEFINE r == run[e]
           p == plan[e]
           k == IF r.purpose = "summary" THEN Summary ELSE Model
<1>1. r.pc = "reserve" /\ r.pc \notin {"idle", "loaded"} /\ ~Over(r) /\ Placing(r) /\ InTurn(r) /\ Routed(r)
    BY Zenon DEF Reserve, Over, Placing, InTurn, Routed
<1>2. LocalInv(r, p) /\ DOMAIN r = Fields /\ Typed(r) /\ StreamInv(proj) /\ EngineInv(r, p, proj)
      /\ p \in [Effects -> PlanStates]
    BY Zenon, EngineFacts DEF LocalInv
<1>3. CASE Abort(e)
    BY Zenon, <1>1, <1>3, AbortStep
<1>4. CASE BudgetFailure(e) /\ UNCHANGED unplaced
    BY Zenon, <1>1, <1>4, BudgetStep
<1>5. ASSUME NEW b \in Spends, FitsBudget(r, b),
             Write(e, <<ReservedRecord(r, b)>>, FALSE,
                   [r EXCEPT !.reserved = Plus(@, b), !.bound = b, !.used = Zero,
                             !.pc = IF k = Summary THEN "call" ELSE "start"], Fail(r)),
             Planned(e, [plan[e] EXCEPT ![k] = "intended"]), UNCHANGED <<world, resumes>>
      PROVE EngineRunInv' /\ AbsNext
    <2> DEFINE x == [r EXCEPT !.reserved = Plus(@, b), !.bound = b, !.used = Zero,
                              !.pc = IF k = Summary THEN "call" ELSE "start"]
               ev == ReservedRecord(r, b)
               next == [plan[e] EXCEPT ![k] = "intended"]
               s == Apply(proj, ev)
    <2>1. /\ Changed(r, x, {"reserved", "bound", "used", "pc"}) /\ x.reserved = Plus(r.reserved, b) /\ x.bound = b
          /\ x.used = Zero /\ x.pc = (IF k = Summary THEN "call" ELSE "start")
        BY Zenon, <1>2 DEF Changed, Fields
    <2>2. ev.type = "execution" /\ ev.stage = "reserved" /\ ev.bound = b
        BY Zenon DEF ReservedRecord
    <2>3. b \in Amounts /\ Plus(r.reserved, b) \in Amounts /\ Within(Plus(r.reserved, b), MaxSpend)
          /\ Minus(b, Zero) = b
        <3>1. b \in Amounts /\ r.reserved \in Amounts /\ Within(Plus(r.reserved, b), MaxSpend)
            BY Zenon, <1>2, <1>5, EngineAssumption DEF Typed, FitsBudget
        <3> QED
            BY <3>1, PlusAmount DEF Minus, Zero, Amounts
    <2>4. k \in Effects /\ (k = Summary <=> r.purpose = "summary") /\ (k = Model <=> r.purpose # "summary")
          /\ k \in {Summary, Model} /\ Summary # Model /\ Summary \in Effects /\ Model \in Effects
        BY Zenon, EffectKinds
    <2> HIDE DEF x, ev, k
    <2>5. /\ next \in [Effects -> PlanStates] /\ next[k] = "intended"
          /\ (\A j \in Effects \ {k} : next[j] = p[j])
        BY Zenon, <1>2, <2>4 DEF PlanStates
    <2> HIDE DEF next
    <2>6. /\ DOMAIN x = Fields /\ x.seq = r.seq /\ x.turn = r.turn /\ x.mc = r.mc /\ x.tc = r.tc /\ x.usage = r.usage
          /\ x.extra = r.extra /\ x.compaction = r.compaction /\ x.loopSeq = r.loopSeq
          /\ x.purpose = r.purpose /\ x.last = r.last /\ x.elig = r.elig /\ x.sel = r.sel
          /\ x.summary = r.summary /\ x.ncalls = r.ncalls /\ x.idx = r.idx /\ x.tool = r.tool
        BY Zenon, <2>1 DEF Changed, Fields
    <2>7. CallPlan(r, p, "none")
        BY Zenon, <1>1, <1>2 DEF LocalInv, Shape
    <2>8. CallPlan(x, next, "intended")
        <3>1. Untouched(next)
            BY Zenon, <2>4, <2>5, <2>7, EffectKinds DEF CallPlan, Untouched
        <3> QED
            BY Zenon, <2>4, <2>5, <2>6, <2>7, <3>1 DEF CallPlan, Settled
    <2>9. LocalInv(x, next)
        <3>1. /\ InTurn(x) /\ Routed(x) /\ ~Placing(x) /\ ~Streaming(x) /\ x.pc \in CallDue
              /\ x.pc \notin Before \cup Batch \cup {"tool_start", "cleanup", "message", "compact", "tools"}
            BY Zenon, <2>1 DEF Placing, Streaming, InTurn, Routed, CallDue, Before, Batch
        <3>2. Typed(x)
            BY Zenon, <1>2, <2>1, <2>3, <2>6, ZeroAmount DEF Typed
        <3>3. Counts(r)
            BY Zenon, <1>2 DEF LocalInv
        <3>4. Counts(x)
            BY Zenon, <1>1, <2>1, <2>3, <2>4, <2>6, <3>1, <3>3 DEF Counts
        <3>5. Shape(x, next)
            BY Zenon, <2>8, <3>1 DEF Shape
        <3> QED
            BY Zenon, <3>2, <3>4, <3>5 DEF LocalInv
    <2>10. GoodNext(r, p, Fail(r)) /\ Fail(r).pc = "close"
        BY Zenon, <1>2, FailGood
    <2>11. ASSUME r.seq = proj.version
           PROVE /\ StreamInv(s) /\ s.version = proj.version + 1 /\ s.workload = "running" /\ proj.workload = "running"
                 /\ s.resume.ckpt.turn = 0 /\ s.resume.reserved = Plus(proj.resume.reserved, b)
                 /\ s.resume.extra = proj.resume.extra
                 /\ EngineInv(Acked(x, 1), next, s) /\ Acked(x, 1).pc = x.pc /\ SameAbs(x, Acked(x, 1))
        <3>1. proj.workload = "running" /\ Knows(r, proj) /\ proj.resume.reserved = r.reserved
            BY Zenon, <1>1, <1>2, <2>11 DEF EngineInv, Knows
        <3>2. Summed(proj, s) /\ s.resume.reserved = Plus(proj.resume.reserved, b)
              /\ s.resume.extra = proj.resume.extra /\ s.resume.usage = proj.resume.usage
            BY <1>2, <2>2, <3>1, ApplyReserved
        <3> HIDE DEF s
        <3>3. StreamInv(s)
            <4>1. /\ s.resume.reserved \in Amounts /\ Within(s.resume.reserved, MaxSpend)
                  /\ s.resume.extra \in Nat /\ s.resume.usage \in Amounts
                BY Zenon, <1>2, <2>3, <3>1, <3>2 DEF StreamInv
            <4> QED
                BY Zenon, <1>2, <3>1, <3>2, <4>1, SummedKeepsStream
        <3>4. /\ s.version = proj.version + 1 /\ s.workload = "running" /\ s.loopSeq = proj.loopSeq
              /\ s.loopType = proj.loopType /\ s.routing = proj.routing /\ s.resume.ckpt.turn = 0
            BY Zenon, <3>2, NoCheckpointTurn DEF Summed
        <3>5. Heard(x, s)
            BY Zenon, <1>1, <2>1, <2>6, <2>11, <3>1, <3>2, <3>4 DEF Heard, Knows
        <3>6. x.pc # "idle"
            BY Zenon, <2>1
        <3> QED
            <4>1. x.seq = proj.version
                BY Zenon, <2>6, <2>11
            <4>2. EngineInv(Acked(x, 1), next, s) /\ Acked(x, 1).pc = x.pc /\ SameAbs(x, Acked(x, 1))
                <5>1. Awaited(x, next, proj, s)
                    BY Zenon, <1>2, <2>9, <3>4, <3>5, <3>6, <4>1 DEF Awaited
                <5>2. Answered(x, next, s)
                    BY Zenon, <5>1, AwaitedAnswered
                <5> QED
                    BY Zenon, <5>2 DEF Answered
            <4> QED
                BY Zenon, <3>1, <3>2, <3>3, <3>4, <4>2
    <2>12. Write(e, <<ev>>, FALSE, x, Fail(r)) /\ Planned(e, next)
        BY Zenon, <1>5 DEF x, ev, next
    <2>13. x.pc # "idle"
        BY Zenon, <2>1
    <2>14. /\ EngineRunInv' /\ (AbsNext \/ Told(e, ev, x, next) \/ Untold(e, ev, Fail(r)))
           /\ r.seq = proj.version => e \in AbsHolds /\ proj.workload = "running"
        BY Zenon, <1>1, <1>5, <2>5, <2>6, <2>10, <2>11, <2>12, <2>13, PlannedWrite
    <2>15. PhaseOf(r, p) \in {"ready", "busy"} /\ p[k] = "none"
           /\ (k = Summary => p[Model] = "none" /\ r.turn + r.extra < MaxModelCalls)
           /\ (k = Model => p[Summary] \in {"none", "recorded"} /\ r.turn + r.extra <= MaxModelCalls)
        BY Zenon, <1>1, <1>2, <2>4, <2>7 DEF PhaseOf, CallPlan, Settled, LocalInv, Counts
    <2>16. CASE Told(e, ev, x, next)
        <3> DEFINE y == Acked(x, 1)
        <3>1. /\ r.seq = proj.version /\ proj' = s /\ run' = [run EXCEPT ![e] = y]
              /\ plan' = [plan EXCEPT ![e] = next] /\ AbsHolds' = {e}
            BY Zenon, <2>16 DEF Told
        <3>2. y.pc = x.pc /\ SameAbs(x, y)
            BY Zenon, <2>11, <3>1
        <3> HIDE DEF y
        <3>3. PhaseOf(y, next) = "busy"
            BY Zenon, <2>1, <2>4, <2>5, <3>2 DEF PhaseOf, NoPlan
        <3>4. next = [plan[e] EXCEPT ![k] = "intended"]
            BY Zenon DEF next
        <3>5. Intends(e, k, b, TRUE, y, next)
            BY Zenon, <1>5, <2>1, <2>3, <2>4, <2>6, <2>11, <2>14, <2>15, <3>1, <3>2, <3>3, <3>4 DEF Intends, SameAbs
        <3> QED
            BY Zenon, <2>4, <2>14, <3>5, AbsIntend
    <2>17. CASE Untold(e, ev, Fail(r))
        <3>1. PICK y : Alike(Fail(r), y) /\ run' = [run EXCEPT ![e] = y]
            BY Zenon, <2>17 DEF Untold
        <3>2. /\ r.seq = proj.version /\ proj' = s /\ plan' = [plan EXCEPT ![e] = plan[e]] /\ AbsHolds' = {}
            BY Zenon, <2>17 DEF Untold
        <3>3. /\ y.pc = Fail(r).pc /\ y.turn = Fail(r).turn /\ y.extra = Fail(r).extra /\ y.reserved = Fail(r).reserved
              /\ y.bound = Fail(r).bound /\ y.used = Fail(r).used
            BY Zenon, <3>1 DEF Alike, Fields
        <3>4. y.pc = "close" /\ SameAbs(r, y)
            BY Zenon, <2>10, <3>3 DEF GoodNext, Quiet, SameAbs
        <3>5. PhaseOf(y, p) = "closing"
            BY Zenon, <3>4 DEF PhaseOf
        <3>6. Intends(e, k, b, FALSE, y, p)
            BY Zenon, <1>5, <2>3, <2>4, <2>11, <2>14, <2>15, <3>1, <3>2, <3>4, <3>5 DEF Intends, SameAbs
        <3> QED
            BY Zenon, <2>4, <2>14, <3>6, AbsIntend
    <2> QED
        BY Zenon, <2>14, <2>16, <2>17
<1> QED
    BY Zenon, <1>3, <1>4, <1>5 DEF Reserve

-----------------------------------------------------------------------------
(* The write of an event of the loop.                                      *)

(* A loop event moves the loop on, and leaves a checkpoint if it is one.   *)
CheckpointOf(ev) ==
    IF ev.loop = "checkpoint" THEN [turn |-> ev.turn, seq |-> ev.seq, result |-> ev.result] ELSE NoCheckpoint

Looped(q, ev, s) ==
    /\ DOMAIN s = PFields /\ s.version = q.version + 1 /\ s.valid = TRUE
    /\ s.workload = "running" /\ s.step = q.step /\ s.finished = q.finished /\ s.result = q.result
    /\ s.loopSeq = ev.seq /\ s.loopType = ev.loop
    /\ s.routing = q.routing /\ s.allowed = q.allowed /\ s.approved = q.approved
    /\ s.completed = IF ev.loop = "tool_completed" THEN q.completed \cup {<<ev.turn, ev.call>>} ELSE q.completed
    /\ DOMAIN s.resume = {"ckpt", "reserved", "extra", "usage"}
    /\ s.resume.reserved = q.resume.reserved /\ s.resume.extra = q.resume.extra /\ s.resume.usage = q.resume.usage
    /\ s.resume.ckpt = CheckpointOf(ev)

LEMMA ApplyLoop ==
    ASSUME NEW q, StreamInv(q), q.workload = "running",
           NEW ev, ev.type = "execution", ev.stage = "loop", AcceptsLoop(q, ev),
           NEW s, s = Apply(q, ev)
    PROVE Looped(q, ev, s)
<1>1. DOMAIN q = PFields /\ q.valid = TRUE /\ q.step = "running" /\ q.finished = FALSE
      /\ DOMAIN q.resume = {"ckpt", "reserved", "extra", "usage"}
    BY Zenon DEF StreamInv
<1>2. Accepts(q, ev)
    BY Zenon, <1>1 DEF Accepts, AcceptsExecution
<1>3. Apply(q, ev) = [Effect(q, ev) EXCEPT !.version = @ + 1]
    BY Zenon, <1>1, <1>2, AcceptedCounts
<1>4. Effect(q, ev) = ApplyExecution(q, ev)
    BY Zenon DEF Effect
<1> DEFINE u == [q.resume EXCEPT !.ckpt = CheckpointOf(ev)]
           t == [q EXCEPT !.resume = u]
<1>5. Scan(q.resume, ev) = u
    BY Zenon DEF Scan, CheckpointOf
<1>6. ApplyExecution(q, ev) =
        [t EXCEPT !.loopSeq = ev.seq, !.loopType = ev.loop,
                  !.completed = IF ev.loop = "tool_completed" THEN @ \cup {<<ev.turn, ev.call>>} ELSE @]
    BY Zenon, <1>5 DEF ApplyExecution
<1>7. /\ DOMAIN u = {"ckpt", "reserved", "extra", "usage"}
      /\ u.reserved = q.resume.reserved /\ u.extra = q.resume.extra /\ u.usage = q.resume.usage
      /\ u.ckpt = CheckpointOf(ev)
    BY Zenon, <1>1
<1> HIDE DEF u
<1>8. DOMAIN t = PFields /\ t.resume = u /\ \A f \in PFields \ {"resume"} : t[f] = q[f]
    BY Zenon, <1>1 DEF PFields
<1> HIDE DEF t
<1>9. s = [[t EXCEPT !.loopSeq = ev.seq, !.loopType = ev.loop,
                     !.completed = IF ev.loop = "tool_completed" THEN @ \cup {<<ev.turn, ev.call>>} ELSE @]
           EXCEPT !.version = @ + 1]
    BY Zenon, <1>3, <1>4, <1>6
<1> QED
    <2> DEFINE done == IF ev.loop = "tool_completed" THEN q.completed \cup {<<ev.turn, ev.call>>} ELSE q.completed
    <2>1. s = [[t EXCEPT !.loopSeq = ev.seq, !.loopType = ev.loop, !.completed = done] EXCEPT !.version = @ + 1]
        BY Zenon, <1>8, <1>9 DEF PFields
    <2> HIDE DEF done
    <2>2. /\ DOMAIN s = PFields /\ s.version = q.version + 1 /\ s.valid = TRUE
          /\ s.workload = "running" /\ s.step = q.step /\ s.finished = q.finished /\ s.result = q.result
          /\ s.loopSeq = ev.seq /\ s.loopType = ev.loop /\ s.resume = u
          /\ s.routing = q.routing /\ s.allowed = q.allowed /\ s.approved = q.approved /\ s.completed = done
        BY <1>1, <1>8, <2>1 DEF PFields
    <2> QED
        BY Zenon, <1>7, <2>2 DEF Looped, done

(* A loop record leaves a checkpoint only if it is one.                    *)
LEMMA CheckpointFields ==
    ASSUME NEW ev, NEW c, c = CheckpointOf(ev)
    PROVE /\ ev.loop = "checkpoint" => c.turn = ev.turn /\ c.seq = ev.seq /\ c.result = ev.result
          /\ ev.loop # "checkpoint" => c.turn = 0
BY DEF CheckpointOf, NoCheckpoint

LEMMA LoopKeepsStream ==
    ASSUME NEW q, StreamInv(q), q.workload = "running",
           NEW ev, ev.type = "execution", ev.stage = "loop", AcceptsLoop(q, ev), ev.seq \in Nat,
           ev.loop = "checkpoint" => /\ ev.turn \in Nat /\ ev.result.calls = ev.turn
                                     /\ ev.result.tools \in Nat /\ ev.result.usage \in Amounts,
           NEW s, s = Apply(q, ev)
    PROVE StreamInv(s)
<1> DEFINE c == s.resume.ckpt
<1>1. Looped(q, ev, s)
    BY Zenon, ApplyLoop
<1>2. c.turn # 0 => /\ s.loopType = "checkpoint" /\ c.seq = s.loopSeq
                    /\ c.turn \in Nat /\ c.result.calls = c.turn
                    /\ c.result.tools \in Nat /\ c.result.usage \in Amounts
    <2>1. c = CheckpointOf(ev) /\ s.loopType = ev.loop /\ s.loopSeq = ev.seq
        BY Zenon, <1>1 DEF Looped
    <2> HIDE DEF c
    <2>2. /\ ev.loop = "checkpoint" => c.turn = ev.turn /\ c.seq = ev.seq /\ c.result = ev.result
          /\ ev.loop # "checkpoint" => c.turn = 0
        BY Zenon, <2>1, CheckpointFields
    <2> QED
        BY Zenon, <2>1, <2>2
<1> HIDE DEF c
<1>3. /\ DOMAIN s = PFields /\ DOMAIN s.resume = {"ckpt", "reserved", "extra", "usage"} /\ s.valid = TRUE
      /\ s.version \in Nat /\ s.version # 0 /\ s.loopSeq \in Nat /\ DOMAIN s.routing = Turns
      /\ s.resume.reserved \in Amounts /\ Within(s.resume.reserved, MaxSpend)
      /\ s.resume.extra \in Nat /\ s.resume.usage \in Amounts
      /\ s.workload = "running" /\ s.step = "running" /\ s.finished = FALSE
    <2>1. s.version \in Nat /\ s.version # 0
        BY ZenonT(60), <1>1, Successor DEF StreamInv, Looped
    <2> QED
        BY Zenon, <1>1, <2>1 DEF StreamInv, Looped
<1> QED
    BY Zenon, <1>2, <1>3 DEF StreamInv, c

(* The same for a loop event, which also advances the loop's own sequence. *)
Emitted(ok) == [ok EXCEPT !.loopSeq = @ + 1]

LEMMA EmittedLocal ==
    ASSUME NEW r, NEW p, LocalInv(r, p), NEW x, x = Emitted(r)
    PROVE /\ LocalInv(x, p) /\ x.loopSeq = r.loopSeq + 1
          /\ \A f \in Fields \ {"loopSeq"} : x[f] = r[f]
<1>1. DOMAIN r = Fields /\ r.loopSeq \in Nat
    BY Zenon DEF LocalInv, Typed
<1>2. DOMAIN x = Fields /\ x.loopSeq = r.loopSeq + 1 /\ \A f \in Fields \ {"loopSeq"} : x[f] = r[f]
    BY Zenon, <1>1 DEF Emitted, Fields
<1>3. /\ x.pc = r.pc /\ x.turn = r.turn /\ x.mc = r.mc /\ x.tc = r.tc /\ x.usage = r.usage
      /\ x.stop = r.stop /\ x.extra = r.extra /\ x.compaction = r.compaction /\ x.reserved = r.reserved
      /\ x.seq = r.seq /\ x.emitting = r.emitting /\ x.purpose = r.purpose /\ x.elig = r.elig
      /\ x.sel = r.sel /\ x.asked = r.asked /\ x.last = r.last /\ x.bound = r.bound /\ x.used = r.used
      /\ x.pend = r.pend /\ x.summary = r.summary /\ x.ncalls = r.ncalls /\ x.idx = r.idx /\ x.tool = r.tool
    BY SMTT(40), <1>2 DEF Fields
<1>4. (Placing(x) <=> Placing(r)) /\ (Streaming(x) <=> Streaming(r))
    BY Zenon, <1>3 DEF Placing, Streaming
<1>5. (InTurn(x) <=> InTurn(r)) /\ (Routed(x) <=> Routed(r))
    BY Zenon, <1>3, <1>4 DEF InTurn, Routed
<1>6. Typed(x)
    <2>1. DOMAIN x = Fields /\ x.loopSeq \in Nat
        BY <1>1, <1>2
    <2> QED
        BY Zenon, <1>3, <2>1 DEF LocalInv, Typed
<1>7. Counts(x)
    <2>1. Counts(r)
        BY Zenon DEF LocalInv
    <2>2. /\ x.pc = r.pc /\ x.turn = r.turn /\ x.mc = r.mc /\ x.extra = r.extra /\ x.purpose = r.purpose
          /\ x.last = r.last /\ x.seq = r.seq /\ x.sel = r.sel /\ x.ncalls = r.ncalls /\ x.pend = r.pend
          /\ x.tc = r.tc /\ x.stop = r.stop /\ x.idx = r.idx /\ x.reserved = r.reserved
        BY Zenon, <1>3
    <2> QED
        BY ZenonT(60), <1>4, <1>5, <2>1, <2>2 DEF Counts
<1>8. Shape(x, p)
    <2>1. Shape(r, p)
        BY Zenon DEF LocalInv
    <2> QED
        BY Zenon, <1>3, <1>4, <2>1 DEF Shape, CallPlan
<1> QED
    BY Zenon, <1>2, <1>6, <1>7, <1>8 DEF LocalInv

LEMMA LoopRecordFields ==
    ASSUME NEW r, NEW loop, NEW ev, ev = LoopRecord(r, loop)
    PROVE /\ ev.type = "execution" /\ ev.stage = "loop" /\ ev.turn = r.turn /\ ev.loop = loop
          /\ ev.seq = r.loopSeq + 1 /\ ev.model = r.sel /\ ev.call = r.idx
          /\ ev.result.calls = r.mc /\ ev.result.tools = r.tc /\ ev.result.usage = r.usage /\ ev.result.stop = r.stop
BY Zenon DEF LoopRecord

(* When a loop event of engine e is one that replay accepts.               *)
Emittable(r, loop) ==
    /\ loop # "stopped" => Routed(r)
    /\ loop = "checkpoint" => r.pc = "checkpoint"

LEMMA LoopAccepted ==
    ASSUME NEW r, NEW p, NEW q, EngineInv(r, p, q), r.pc # "idle", r.seq = q.version, ~Over(r),
           NEW loop, Emittable(r, loop)
    PROVE AcceptsLoop(q, LoopRecord(r, loop))
<1> DEFINE ev == LoopRecord(r, loop)
<1>1. /\ ev.turn = r.turn /\ ev.loop = loop /\ ev.seq = r.loopSeq + 1 /\ ev.model = r.sel
      /\ ev.result.calls = r.mc /\ ev.result.tools = r.tc /\ ev.result.stop = r.stop
    BY SMTT(40), LoopRecordFields
<1> HIDE DEF ev
<1>2. Counts(r) /\ Knows(r, q) /\ r.tc \in Nat
    BY Zenon DEF EngineInv, LocalInv, Typed
<1>3. loop = "checkpoint" => r.mc = r.turn /\ r.tc # 0 /\ r.stop = "tool_use"
    BY Zenon, <1>2 DEF Emittable, Counts, Batch
<1>4. Routed(r) => r.sel # 0 /\ q.routing[r.turn] = r.sel
    BY Zenon, <1>2 DEF Counts, Knows
<1>5. ev.seq = q.loopSeq + 1 /\ q.loopType # "stopped" /\ (loop = "checkpoint" => q.loopType = "tool_message")
    BY Zenon, <1>1, <1>2 DEF Knows, Emittable
<1>6. AcceptsLoop(q, ev)
    BY <1>1, <1>2, <1>3, <1>4, <1>5 DEF AcceptsLoop, Emittable
<1> QED
    BY Zenon, <1>6 DEF ev

LEMMA GoodLoop ==
    ASSUME EngineRunInv, NEW e \in Engines, NEW loop, NEW detached, NEW ok, NEW failed,
           Write(e, <<LoopRecord(run[e], loop)>>, detached, Emitted(ok), failed), UNCHANGED unplaced,
           run[e].pc \notin {"idle", "loaded"}, ~Over(run[e]),
           Emittable(run[e], loop), loop # "checkpoint", loop = "stopped" => Over(ok),
           GoodNext(run[e], plan[e], ok), ok.pc = "checkpoint" => loop = "tool_message",
           GoodNext(run[e], plan[e], failed), failed.pc = "checkpoint" => run[e].pc = "checkpoint"
    PROVE EngineRunInv' /\ AbsNext
<1> DEFINE ev == LoopRecord(run[e], loop)
<1>1. EngineInv(run[e], plan[e], proj) /\ StreamInv(proj)
    BY Zenon DEF EngineRunInv
<1>2. EngineInv(failed, plan[e], proj)
    BY Zenon, <1>1 DEF EngineInv, GoodNext, Knows, Quiet, SameAbs, Follows
<1>3. ASSUME run[e].seq = proj.version
      PROVE /\ Noted(proj, Apply(proj, ev))
            /\ Quiet(run[e], plan[e], Acked(Emitted(ok), 1))
            /\ EngineInv(Acked(Emitted(ok), 1), plan[e], Apply(proj, ev))
    <2> DEFINE s == Apply(proj, ev)
               y == Emitted(ok)
               x == Acked(y, 1)
    <2>1. proj.workload = "running" /\ run[e].loopSeq \in Nat /\ proj.loopSeq = run[e].loopSeq
        BY Zenon, <1>1, <1>3 DEF EngineInv, LocalInv, Typed, Knows
    <2>2. AcceptsLoop(proj, ev)
        BY Zenon, <1>1, <1>3, LoopAccepted
    <2>3. /\ ev.type = "execution" /\ ev.stage = "loop" /\ ev.seq = run[e].loopSeq + 1 /\ ev.loop = loop
        BY SMTT(40), LoopRecordFields
    <2>4. LocalInv(y, plan[e]) /\ y.loopSeq = ok.loopSeq + 1 /\ \A f \in Fields \ {"loopSeq"} : y[f] = ok[f]
        BY SMTT(40), EmittedLocal DEF GoodNext
    <2> HIDE DEF ev, y
    <2>5. Looped(proj, ev, s) /\ StreamInv(s)
        <3>1. ev.seq \in Nat
            BY <2>1, <2>3
        <3>2. Looped(proj, ev, s)
            BY Zenon, <1>1, <2>1, <2>2, <2>3, ApplyLoop
        <3>3. StreamInv(s)
            BY Zenon, <1>1, <2>1, <2>2, <2>3, <3>1, LoopKeepsStream
        <3> QED
            BY Zenon, <3>2, <3>3
    <2>6. DOMAIN y = Fields /\ y.seq \in Nat
        BY Zenon, <2>4 DEF LocalInv, Typed
    <2>7. LocalInv(x, plan[e])
        BY Zenon, <2>4, AckedLocal
    <2>8. DOMAIN x = Fields /\ x.seq = y.seq + 1 /\ \A f \in Fields \ {"seq"} : x[f] = y[f]
        BY Zenon, <2>6, AckedFields
    <2> HIDE DEF s, x
    <2>9. /\ x.pc = ok.pc /\ x.asked = ok.asked /\ x.turn = ok.turn /\ x.sel = ok.sel /\ x.loopSeq = ok.loopSeq + 1
          /\ x.reserved = ok.reserved /\ x.extra = ok.extra /\ x.bound = ok.bound /\ x.used = ok.used
          /\ x.emitting = ok.emitting /\ x.idx = ok.idx /\ x.seq = ok.seq + 1
        <3>1. /\ y.pc = ok.pc /\ y.asked = ok.asked /\ y.turn = ok.turn /\ y.sel = ok.sel /\ y.reserved = ok.reserved
              /\ y.extra = ok.extra /\ y.bound = ok.bound /\ y.used = ok.used
              /\ y.emitting = ok.emitting /\ y.idx = ok.idx /\ y.seq = ok.seq
            BY Zenon, <2>4 DEF Fields
        <3>2. /\ x.pc = y.pc /\ x.asked = y.asked /\ x.turn = y.turn /\ x.sel = y.sel /\ x.loopSeq = y.loopSeq
              /\ x.reserved = y.reserved /\ x.extra = y.extra /\ x.bound = y.bound /\ x.used = y.used
              /\ x.emitting = y.emitting /\ x.idx = y.idx
            BY Zenon, <2>8 DEF Fields
        <3> QED
            BY Zenon, <2>4, <2>8, <3>1, <3>2
    <2>10. (Routed(x) <=> Routed(ok)) /\ (Over(x) <=> Over(ok))
        BY Zenon, <2>9 DEF Routed, Streaming, Over
    <2>11. /\ s.workload = "running" /\ s.loopSeq = proj.loopSeq + 1 /\ s.loopType = loop
           /\ s.resume.reserved = proj.resume.reserved /\ s.routing = proj.routing /\ s.version = proj.version + 1
           /\ s.resume.extra = proj.resume.extra /\ s.resume.ckpt.turn = 0
        <3>1. s.resume.ckpt = NoCheckpoint
            BY Zenon, <2>1, <2>3, <2>5 DEF Looped, CheckpointOf
        <3> QED
            BY Zenon, <2>1, <2>3, <2>5, <3>1, NoCheckpointTurn DEF Looped
    <2>12. Noted(proj, s)
        BY Zenon, <2>5, <2>11 DEF Noted
    <2>13. Quiet(run[e], plan[e], x)
        BY Zenon, <2>9 DEF GoodNext, Quiet, SameAbs, PhaseOf
    <2>14. Knows(x, s)
        BY ZenonT(60), <1>1, <1>3, <2>9, <2>10, <2>11 DEF Knows, EngineInv, GoodNext, Follows, Quiet, SameAbs
    <2>15. EngineInv(x, plan[e], s)
        <3>1. proj.version \in Nat
            BY Zenon, <1>1 DEF StreamInv
        <3>2. x.seq = proj.version + 1
            BY Zenon, <1>3, <2>9 DEF GoodNext, Follows
        <3>3. x.seq # 0 /\ x.seq <= s.version
            BY Zenon, <2>11, <3>1, <3>2, NextSequence
        <3>4. x.pc # "idle"
            BY Zenon, <2>13 DEF Quiet
        <3> QED
            BY Zenon, <2>7, <2>14, <3>3, <3>4 DEF EngineInv
    <2> QED
        BY Zenon, <2>12, <2>13, <2>15 DEF s, x, y
<1>4. DOMAIN failed = Fields /\ failed.seq = run[e].seq /\ Quiet(run[e], plan[e], failed)
    BY Zenon DEF GoodNext, LocalInv, Typed, Follows
<1> HIDE DEF ev
<1>5. Write(e, <<ev>>, detached, Emitted(ok), failed)
    BY Zenon DEF ev
<1> QED
    BY Zenon, <1>2, <1>3, <1>4, <1>5, QuietWrite

-----------------------------------------------------------------------------
(* The actions of ModelTurn.                                               *)

LEMMA StartTurnStep ==
    ASSUME EngineRunInv, NEW e \in Engines, StartTurn(e)
    PROVE EngineRunInv' /\ AbsNext
<1> DEFINE r == run[e]
           x == [r EXCEPT !.pc = "call"]
<1>1. r.pc = "start" /\ r.pc \notin {"idle", "loaded"} /\ ~Over(r) /\ Emittable(r, "turn_started")
    BY Zenon DEF StartTurn, Over, Emittable, Routed, CallDue
<1>2. LocalInv(r, plan[e]) /\ DOMAIN r = Fields /\ Typed(r)
    BY Zenon, EngineFacts DEF LocalInv
<1>3. Changed(r, x, {"pc"}) /\ x.pc = "call"
    BY Zenon, <1>2 DEF Changed, Fields
<1>4. \/ Abort(e)
      \/ /\ Write(e, <<LoopRecord(r, "turn_started")>>, FALSE, Emitted(x), [Fail(r) EXCEPT !.emitting = FALSE])
         /\ UNCHANGED unplaced
    BY Zenon DEF StartTurn, Emit, Emitted
<1> HIDE DEF x
<1>5. GoodNext(r, plan[e], x)
    <2>1. /\ DOMAIN x = Fields /\ x.seq = r.seq /\ x.turn = r.turn /\ x.mc = r.mc /\ x.tc = r.tc /\ x.usage = r.usage
          /\ x.extra = r.extra /\ x.compaction = r.compaction /\ x.reserved = r.reserved /\ x.loopSeq = r.loopSeq
          /\ x.purpose = r.purpose /\ x.last = r.last /\ x.bound = r.bound /\ x.used = r.used /\ x.elig = r.elig
          /\ x.sel = r.sel /\ x.summary = r.summary /\ x.ncalls = r.ncalls /\ x.idx = r.idx /\ x.tool = r.tool
        BY ZenonT(60), <1>3 DEF Changed, Fields
    <2>2. /\ InTurn(x) /\ Routed(x) /\ ~Placing(x) /\ ~Streaming(x) /\ x.pc \in CallDue
          /\ x.pc \notin Before \cup Batch \cup {"tool_start", "cleanup", "message", "compact", "tools"}
          /\ InTurn(r) /\ Routed(r) /\ r.pc \in CallDue
        BY Zenon, <1>1, <1>3 DEF Placing, Streaming, InTurn, Routed, CallDue, Before, Batch
    <2>3. Counts(r) /\ Shape(r, plan[e]) /\ r.purpose # "summary"
        BY Zenon, <1>1, <1>2 DEF LocalInv, Counts
    <2>4. Counts(x)
        BY Zenon, <2>1, <2>2, <2>3 DEF Counts
    <2>5. Shape(x, plan[e])
        BY Zenon, <2>1, <2>2, <2>3 DEF Shape, CallPlan
    <2>6. Typed(x)
        BY Zenon, <1>2, <2>1 DEF Typed
    <2>7. Quiet(r, plan[e], x)
        BY Zenon, <1>1, <1>3, <2>1 DEF Quiet, PhaseOf, SameAbs
    <2> QED
        BY Zenon, <2>1, <2>2, <2>4, <2>5, <2>6, <2>7 DEF GoodNext, LocalInv, Follows
<1>6. CASE Abort(e)
    BY Zenon, <1>1, <1>6, AbortStep
<1> QED
    BY Zenon, <1>1, <1>2, <1>3, <1>4, <1>5, <1>6, FailGood, GoodLoop

(* An effect of the engine is one of DurableExecution.                     *)
Performs(e, k, r) ==
    /\ run' = [run EXCEPT ![e] = r] /\ plan' = [plan EXCEPT ![e][k] = "performed"] /\ UNCHANGED <<proj, spent>>
    /\ plan[e][k] = "intended" /\ run[e].pc \notin {"idle", "loaded", "close", "cleanup"}
    /\ r.pc \notin {"idle", "loaded", "close", "cleanup"}
    /\ performed' = performed \cup {<<run[e].turn, k>>}
    /\ repeated' = repeated \cup (performed \cap {<<run[e].turn, k>>})
    /\ calls' = IF k \in {Summary, Model} THEN calls + 1 ELSE calls
    /\ r.extra = IF k = Summary THEN run[e].extra + 1 ELSE run[e].extra
    /\ r.turn = run[e].turn /\ r.reserved = run[e].reserved /\ r.bound = run[e].bound /\ r.used = run[e].used
    /\ r.seq = run[e].seq

LEMMA PerformStep ==
    ASSUME EngineRunInv, NEW e \in Engines, NEW k \in Effects, NEW r, Performs(e, k, r),
           LocalInv(r, [plan[e] EXCEPT ![k] = "performed"]),
           r.loopSeq = run[e].loopSeq, r.pc # "checkpoint", Routed(r) => Routed(run[e]) /\ r.sel = run[e].sel
    PROVE EngineRunInv' /\ AbsNext
<1> DEFINE p == [plan[e] EXCEPT ![k] = "performed"]
<1>1. run' = [run EXCEPT ![e] = r] /\ plan' = [plan EXCEPT ![e] = p] /\ p \in [Effects -> PlanStates]
    BY Zenon DEF Performs, EngineRunInv, PlanStates
<1>2. p[k] = "performed" /\ p # NoPlan /\ plan[e] # NoPlan
    BY Zenon DEF EngineRunInv, NoPlan, Performs
<1> HIDE DEF p
<1>3. EngineInv(run[e], plan[e], proj) /\ StreamInv(proj)
    BY Zenon DEF EngineRunInv
<1>4. EngineInv(r, p, proj)
    <2>1. ~Over(run[e])
        BY Zenon DEF Over, Performs
    <2> QED
        BY Zenon, <1>3, <2>1 DEF EngineInv, Performs, Knows, p
<1>5. EngineRunInv'
    BY Zenon, <1>1, <1>3, <1>4, FrameInv DEF Performs
<1>6. AbsMoves(e, r, p)
    BY Zenon, <1>1, FrameAbs
<1>7. AbsHolds' = AbsHolds
    BY Zenon, <1>1, SameHolds DEF Performs
<1>8. PhaseOf(run[e], plan[e]) = "busy" /\ PhaseOf(r, p) = "busy"
    BY Zenon, <1>2 DEF PhaseOf, Performs
<1>9. AbsPc = [f \in Engines |-> AbsPc[f]] /\ AbsTurn = [f \in Engines |-> AbsTurn[f]]
      /\ AbsMine = [f \in Engines |-> AbsMine[f]] /\ AbsRoom = [f \in Engines |-> AbsRoom[f]]
    BY Zenon DEF AbsPc, AbsTurn, AbsMine, AbsRoom
<1>10. AbsPc' = AbsPc /\ AbsTurn' = AbsTurn /\ AbsMine' = AbsMine /\ AbsRoom' = AbsRoom
       /\ AbsPc[e] = "busy" /\ AbsTurn[e] = run[e].turn
    BY Zenon, <1>6, <1>8, <1>9 DEF AbsMoves, Performs
<1>11. AbsExtra' = [AbsExtra EXCEPT ![e] = IF k = Summary THEN @ + 1 ELSE @]
    BY Zenon, <1>6 DEF AbsMoves, Performs
<1>12. WorkloadPhase' = WorkloadPhase /\ AbsCkpt' = AbsCkpt
    BY Zenon DEF WorkloadPhase, AbsCkpt, Performs
<1>13. D!Summary = Summary /\ D!Calls = {Summary, Model} /\ D!Effects = Effects
    BY Zenon DEF D!Summary, D!Model, D!Calls, D!Effects, D!Tool, Summary, Model, Effects, Tool
<1>14. D!Perform(e, k)
    BY Zenon, <1>7, <1>10, <1>11, <1>12, <1>13
       DEF D!Perform, D!durable, Performs
<1> QED
    BY Zenon, <1>5, <1>13, <1>14 DEF AbsNext, D!Next

LEMMA CallModelStep ==
    ASSUME EngineRunInv, NEW e \in Engines, CallModel(e)
    PROVE EngineRunInv' /\ AbsNext
<1> DEFINE r == run[e]
           p == plan[e]
           k == IF r.purpose = "summary" THEN Summary ELSE Model
           called == [r EXCEPT !.mc = IF k = Model THEN @ + 1 ELSE @,
                               !.extra = IF k = Summary THEN @ + 1 ELSE @,
                               !.events = 0, !.terminal = FALSE, !.said = "none", !.text = FALSE,
                               !.modelErr = FALSE, !.ncalls = 0, !.summary = Zero]
           x == [called EXCEPT !.pc = "recv"]
           next == [p EXCEPT ![k] = "performed"]
<1>1. r.pc = "call" /\ Local(e, x) /\ plan' = [plan EXCEPT ![e][k] = "performed"]
      /\ performed' = performed \cup {<<r.turn, k>>} /\ repeated' = repeated \cup (performed \cap {<<r.turn, k>>})
      /\ calls' = calls + 1 /\ UNCHANGED spent
    BY Zenon DEF CallModel
<1>2. LocalInv(r, p) /\ DOMAIN r = Fields /\ Typed(r) /\ Counts(r) /\ p \in [Effects -> PlanStates]
    BY Zenon, EngineFacts DEF LocalInv
<1>3. /\ Changed(r, x, {"pc", "mc", "extra", "events", "terminal", "said", "text", "modelErr", "ncalls", "summary"})
      /\ x.pc = "recv" /\ x.mc = (IF k = Model THEN r.mc + 1 ELSE r.mc)
      /\ x.extra = (IF k = Summary THEN r.extra + 1 ELSE r.extra) /\ x.ncalls = 0 /\ x.summary = Zero
    BY Zenon, <1>2 DEF Changed, Fields
<1>4. k \in Effects /\ (k = Summary <=> r.purpose = "summary") /\ (k = Model <=> r.purpose # "summary")
      /\ k \in {Summary, Model} /\ Summary # Model /\ Summary \in Effects /\ Model \in Effects
    BY Zenon, EffectKinds
<1> HIDE DEF x, k
<1>5. next[k] = "performed" /\ \A j \in Effects \ {k} : next[j] = p[j]
    BY Zenon, <1>2, <1>4
<1> HIDE DEF next
<1>6. /\ DOMAIN x = Fields /\ x.seq = r.seq /\ x.turn = r.turn /\ x.tc = r.tc /\ x.usage = r.usage
      /\ x.compaction = r.compaction /\ x.loopSeq = r.loopSeq /\ x.reserved = r.reserved
      /\ x.purpose = r.purpose /\ x.last = r.last /\ x.elig = r.elig /\ x.sel = r.sel
      /\ x.bound = r.bound /\ x.used = r.used /\ x.idx = r.idx /\ x.tool = r.tool
    BY SMTT(40), <1>3 DEF Changed, Fields
<1>7. /\ InTurn(x) /\ Routed(x) /\ ~Placing(x) /\ Streaming(x)
      /\ x.pc \notin Before \cup Batch \cup CallDue \cup {"tool_start", "cleanup", "message", "compact", "tools", "call", "start"}
      /\ InTurn(r) /\ Routed(r) /\ r.pc \in CallDue
    BY Zenon, <1>1, <1>3 DEF Placing, Streaming, InTurn, Routed, CallDue, Before, Batch
<1>8. CallPlan(r, p, "intended")
    BY Zenon, <1>2, <1>7 DEF LocalInv, Shape
<1>9. CallPlan(x, next, "performed")
    <2>1. Untouched(next)
        BY Zenon, <1>4, <1>5, <1>8, EffectKinds DEF CallPlan, Untouched
    <2> QED
        BY Zenon, <1>4, <1>5, <1>6, <1>8, <2>1 DEF CallPlan, Settled
<1>10. LocalInv(x, next)
    <2>1. r.mc \in Nat /\ r.extra \in Nat /\ r.turn \in Nat /\ MaxModelCalls \in Nat /\ MaxBatch \in Nat
        BY Zenon, <1>2, EngineAssumption DEF Typed
    <2>2. x.mc \in Nat /\ x.extra \in Nat /\ x.ncalls = 0 /\ x.ncalls <= MaxBatch /\ x.summary \in Amounts /\ x.pc = "recv"
        <3>1. 0 <= MaxBatch
            BY <2>1
        <3> QED
            BY Zenon, <1>3, <2>1, <3>1, Successor, ZeroAmount
    <2>3. (x.purpose = "summary" => x.mc + 1 = x.turn) /\ (x.purpose # "summary" => x.mc = x.turn)
        BY Zenon, <1>2, <1>3, <1>4, <1>6, <1>7, <2>1 DEF Counts
    <2>4. x.turn + x.extra <= MaxModelCalls
        <3>1. CASE k = Summary
            <4>1. r.turn + r.extra < MaxModelCalls /\ x.extra = r.extra + 1 /\ x.turn = r.turn
                BY Zenon, <1>1, <1>2, <1>3, <1>4, <1>6, <3>1 DEF Counts
            <4> QED
                BY SMTT(40), <2>1, <4>1
        <3>2. CASE k # Summary
            <4>1. r.turn + r.extra <= MaxModelCalls /\ x.extra = r.extra /\ x.turn = r.turn
                BY Zenon, <1>2, <1>3, <1>6, <1>7, <3>2 DEF Counts
            <4> QED
                BY Zenon, <4>1
        <3> QED
            BY Zenon, <3>1, <3>2
    <2>5. Typed(r) /\ Counts(r)
        BY Zenon, <1>2
    <2>7. Typed(x)
        <3>1. /\ r.seq \in Nat /\ r.turn \in Nat /\ r.tc \in Nat /\ r.loopSeq \in Nat /\ r.last \in Nat
              /\ r.idx \in Nat /\ r.elig \subseteq 1..NC /\ r.usage \in Amounts /\ r.compaction \in Amounts
              /\ r.reserved \in Amounts /\ r.bound \in Amounts /\ r.used \in Amounts
              /\ DOMAIN r.tool = 1..MaxBatch
            BY Zenon, <2>5 DEF Typed
        <3>2. x.ncalls \in Nat
            BY SMTT(40), <2>2
        <3> QED
            BY Zenon, <1>6, <2>2, <3>1, <3>2 DEF Typed
    <2>8. Counts(x)
        BY Zenon, <1>6, <1>7, <2>2, <2>3, <2>4, <2>5 DEF Counts
    <2>6. Shape(x, next)
        BY Zenon, <1>7, <1>9 DEF Shape
    <2> QED
        BY Zenon, <2>6, <2>7, <2>8 DEF LocalInv
<1>11. p[k] = "intended"
    BY SMTT(40), <1>4, <1>8 DEF CallPlan
<1>12. Performs(e, k, x)
    BY Zenon, <1>1, <1>3, <1>4, <1>6, <1>11 DEF Performs, Local
<1>13. LocalInv(x, [plan[e] EXCEPT ![k] = "performed"])
    BY Zenon, <1>10 DEF next
<1> QED
    BY Zenon, <1>3, <1>4, <1>6, <1>7, <1>12, <1>13, PerformStep

(* Usage that fits the reservation leaves the rest of the room.            *)
Remains(b, v, u, w) ==
    /\ Minus(b, Plus(v, u)) = D!Minus(Minus(b, v), u)
    /\ D!Within(u, Minus(b, v)) /\ D!Plus(w, u) = Plus(w, u)

LEMMA RoomShrinks ==
    ASSUME NEW b \in Amounts, NEW v \in Amounts, NEW u \in Amounts, NEW w, Within(Plus(v, u), b)
    PROVE Remains(b, v, u, w)
<1>1. \A d \in Dims : b[d] \in Nat /\ v[d] \in Nat /\ u[d] \in Nat /\ v[d] + u[d] <= b[d]
    BY DEF Amounts, Within, Plus
<1>2. Minus(b, Plus(v, u)) = D!Minus(Minus(b, v), u)
    BY <1>1 DEF Minus, Plus, D!Minus
<1>3. D!Within(u, Minus(b, v))
    <2>1. ASSUME NEW i \in Nat, NEW j \in Nat, NEW k \in Nat, j + k <= i PROVE k <= i - j
        BY <2>1
    <2>2. \A d \in Dims : Minus(b, v)[d] = b[d] - v[d]
        BY Zenon DEF Minus
    <2> QED
        BY Zenon, <1>1, <2>1, <2>2 DEF D!Within
<1> QED
    BY Zenon, <1>2, <1>3 DEF Remains, Plus, D!Plus

(* Usage within the reservation is reported.                               *)
LEMMA ReportStep ==
    ASSUME EngineRunInv, NEW e \in Engines, NEW u \in Spends, NEW x,
           Local(e, x), spent' = Plus(spent, u), UNCHANGED <<plan, performed, repeated, calls>>,
           FitsReservation(run[e], u), Streaming(run[e]), Streaming(x),
           LocalInv(x, plan[e]), Follows(run[e], x),
           x.turn = run[e].turn, x.reserved = run[e].reserved, x.extra = run[e].extra, x.bound = run[e].bound,
           x.used = Plus(run[e].used, u)
    PROVE EngineRunInv' /\ AbsNext
<1> DEFINE r == run[e]
           p == plan[e]
<1>1. /\ LocalInv(r, p) /\ EngineInv(r, p, proj) /\ StreamInv(proj) /\ p \in [Effects -> PlanStates]
    BY Zenon, EngineFacts
<1>2. /\ r.pc \notin {"idle", "loaded", "close", "cleanup", "checkpoint"}
      /\ x.pc \notin {"idle", "loaded", "close", "cleanup", "checkpoint"} /\ ~Over(r)
    BY Zenon DEF Streaming, Over
<1>3. run' = [run EXCEPT ![e] = x] /\ plan' = [plan EXCEPT ![e] = p] /\ proj' = proj
    BY Zenon DEF Local, EngineRunInv
<1>4. EngineInv(x, p, proj)
    BY Zenon, <1>1, <1>2 DEF EngineInv, Knows, Follows
<1>5. EngineRunInv'
    BY Zenon, <1>1, <1>3, <1>4, FrameInv
<1>6. AbsMoves(e, x, p)
    BY Zenon, <1>3, FrameAbs
<1>7. AbsHolds' = AbsHolds
    BY Zenon, <1>1, <1>2, <1>3, SameHolds DEF Follows
<1>8. PhaseOf(r, p) = "busy" /\ PhaseOf(x, p) = "busy"
    <2>1. CallPlan(r, p, "performed")
        BY Zenon, <1>1 DEF LocalInv, Shape
    <2>2. p # NoPlan
        BY Zenon, <2>1, NoPlanValues DEF CallPlan
    <2> QED
        BY Zenon, <1>2, <2>2 DEF PhaseOf
<1>9. AbsPc = [f \in Engines |-> AbsPc[f]] /\ AbsTurn = [f \in Engines |-> AbsTurn[f]]
      /\ AbsMine = [f \in Engines |-> AbsMine[f]] /\ AbsExtra = [f \in Engines |-> AbsExtra[f]]
    BY Zenon DEF AbsPc, AbsTurn, AbsMine, AbsExtra
<1>10. AbsPc' = AbsPc /\ AbsTurn' = AbsTurn /\ AbsMine' = AbsMine /\ AbsExtra' = AbsExtra /\ AbsPc[e] = "busy"
       /\ AbsRoom' = [AbsRoom EXCEPT ![e] = Minus(r.bound, Plus(r.used, u))] /\ AbsRoom[e] = Minus(r.bound, r.used)
    BY Zenon, <1>6, <1>8, <1>9 DEF AbsMoves
<1>11. /\ Minus(r.bound, Plus(r.used, u)) = D!Minus(Minus(r.bound, r.used), u)
       /\ D!Within(u, Minus(r.bound, r.used)) /\ D!Plus(spent, u) = Plus(spent, u)
    <2>1. r.bound \in Amounts /\ r.used \in Amounts /\ u \in Amounts /\ Within(Plus(r.used, u), r.bound)
        BY Zenon, <1>1, EngineAssumption DEF LocalInv, Typed, FitsReservation
    <2> QED
        <3>1. PICK b : b = r.bound
            BY Zenon
        <3>2. PICK v : v = r.used
            BY Zenon
        <3>3. /\ Minus(b, Plus(v, u)) = D!Minus(Minus(b, v), u)
              /\ D!Within(u, Minus(b, v)) /\ D!Plus(spent, u) = Plus(spent, u)
            <4>1. b \in Amounts /\ v \in Amounts /\ u \in Amounts /\ Within(Plus(v, u), b)
                BY Zenon, <2>1, <3>1, <3>2
            <4>2. Remains(b, v, u, spent)
                BY Zenon, <4>1, RoomShrinks
            <4> QED
                BY Zenon, <4>2 DEF Remains
        <3> QED
            BY Zenon, <3>1, <3>2, <3>3
<1>12. AbsRoom' = [AbsRoom EXCEPT ![e] = D!Minus(@, u)] /\ D!Within(u, AbsRoom[e]) /\ spent' = D!Plus(spent, u)
    BY Zenon, <1>10, <1>11
<1>13. WorkloadPhase' = WorkloadPhase /\ AbsCkpt' = AbsCkpt
    BY Zenon, <1>3 DEF WorkloadPhase, AbsCkpt
<1>14. D!Report(e, u)
    BY Zenon, <1>3, <1>7, <1>10, <1>12, <1>13
       DEF D!Report, D!durable
<1> QED
    BY Zenon, <1>5, <1>14 DEF AbsNext, D!Next

LEMMA RecvUsageStep ==
    ASSUME EngineRunInv, NEW e \in Engines, RecvUsage(e)
    PROVE EngineRunInv' /\ AbsNext
<1> DEFINE r == run[e]
<1>1. r.pc = "recv" /\ r.pc \notin {"idle", "loaded"} /\ ~Over(r) /\ Streaming(r)
    BY Zenon DEF RecvUsage, MayRecv, Over, Streaming
<1>2. LocalInv(r, plan[e]) /\ DOMAIN r = Fields /\ Typed(r) /\ Counts(r)
    BY Zenon, EngineFacts DEF LocalInv
<1>3. CASE BudgetFailure(e) /\ UNCHANGED unplaced
    BY Zenon, <1>1, <1>3, BudgetStep
<1>4. ASSUME NEW u \in Spends, FitsReservation(r, u),
             Local(e, [Received(r, [kind |-> "usage", usage |-> u], "emit") EXCEPT !.used = Plus(@, u)]),
             spent' = Plus(spent, u), UNCHANGED <<plan, performed, repeated, calls, resumes>>
      PROVE EngineRunInv' /\ AbsNext
    <2> DEFINE ev == [kind |-> "usage", usage |-> u]
               x == [Received(r, ev, "emit") EXCEPT !.used = Plus(@, u)]
    <2>1. ev.kind = "usage" /\ ev.usage = u /\ u \in Amounts /\ Plus(r.used, u) \in Amounts
        BY Zenon, <1>2, EngineAssumption, PlusAmount DEF Typed
    <2> HIDE DEF ev
    <2>2. Changed(r, x, StreamFields \cup {"used"}) /\ x.used = Plus(r.used, u) /\ x.pc = "emit" /\ x.pend = ev
          /\ x.turn = r.turn /\ x.reserved = r.reserved /\ x.extra = r.extra /\ x.bound = r.bound
          /\ x.summary = r.summary /\ x.usage = r.usage /\ x.ncalls = r.ncalls
        BY Zenon, <1>2 DEF Changed, StreamFields, Fields, Received
    <2>3. Local(e, x)
        BY Zenon, <1>4 DEF ev
    <2> HIDE DEF x
    <2>4. Streaming(x) /\ PendOK(x)
        BY Zenon, <2>1, <2>2 DEF Streaming, PendOK
    <2>5. r.summary \in Amounts /\ r.usage \in Amounts /\ r.ncalls \in Nat /\ r.ncalls <= MaxBatch
        BY Zenon, <1>1, <1>2 DEF Typed, Counts
    <2>6. LocalInv(x, plan[e]) /\ Follows(r, x)
        BY Zenon, <1>1, <1>2, <2>1, <2>2, <2>4, <2>5, StreamLocal
    <2> QED
        BY Zenon, <1>1, <1>4, <2>2, <2>3, <2>4, <2>6, ReportStep
<1> QED
    BY Zenon, <1>3, <1>4 DEF RecvUsage

LEMMA RecvStep ==
    ASSUME EngineRunInv, NEW e \in Engines, RecvContent(e) \/ RecvStop(e) \/ RecvEnd(e) \/ RecvFails(e)
    PROVE EngineRunInv' /\ AbsNext
<1> DEFINE r == run[e]
<1>1. r.pc = "recv" /\ r.pc \notin {"idle", "loaded"} /\ ~Over(r) /\ Streaming(r)
    BY Zenon DEF RecvContent, RecvStop, RecvEnd, RecvFails, MayRecv, Over, Streaming
<1>2. LocalInv(r, plan[e]) /\ DOMAIN r = Fields /\ Typed(r) /\ Counts(r)
    BY Zenon, EngineFacts DEF LocalInv
<1>3. r.summary \in Amounts /\ r.usage \in Amounts /\ r.ncalls \in Nat /\ r.ncalls <= MaxBatch
    BY Zenon, <1>1, <1>2 DEF Typed, Counts
<1>4. ASSUME NEW ev, NEW pc \in {"emit", "return"}, Local(e, Received(r, ev, pc)), UNCHANGED unplaced,
             ev.kind \in {"content", "tool_call", "stop", "error"}, ev.kind = "tool_call" => r.ncalls < MaxBatch
      PROVE EngineRunInv' /\ AbsNext
    <2> DEFINE x == Received(r, ev, pc)
    <2>1. Changed(r, x, StreamFields) /\ x.pc = pc /\ x.pend = ev
          /\ x.summary = r.summary /\ x.usage = r.usage /\ x.ncalls = r.ncalls
        BY Zenon, <1>2 DEF Changed, StreamFields, Fields, Received
    <2>2. Local(e, x)
        BY Zenon, <1>4
    <2> HIDE DEF x
    <2>3. Streaming(x) /\ PendOK(x)
        BY Zenon, <1>4, <2>1 DEF Streaming, PendOK
    <2>4. GoodNext(r, plan[e], x)
        BY Zenon, <1>1, <1>2, <1>3, <2>1, <2>3, StreamGood
    <2> QED
        BY Zenon, <1>1, <1>4, <2>1, <2>2, <2>4, GoodLocal
<1>5. CASE RecvContent(e)
    <2>1. PICK kind \in {"content", "tool_call", "error"} :
            /\ kind = "tool_call" => r.ncalls < MaxBatch
            /\ Local(e, Received(r, [kind |-> kind], Quarantine(r)))
        BY Zenon, <1>5 DEF RecvContent
    <2> DEFINE ev == [kind |-> kind]
    <2>2. ev.kind = kind /\ Quarantine(r) \in {"emit", "return"} /\ UNCHANGED unplaced
        BY Zenon, <1>5 DEF Quarantine, RecvContent
    <2> HIDE DEF ev
    <2>3. Local(e, Received(r, ev, Quarantine(r)))
        BY Zenon, <2>1 DEF ev
    <2> QED
        BY Zenon, <1>4, <2>1, <2>2, <2>3
<1>6. CASE RecvStop(e)
    <2>1. PICK stop \in {"end_turn", "tool_use", "cancelled"} :
            Local(e, Received(r, [kind |-> "stop", stop |-> stop], "emit"))
        BY Zenon, <1>6 DEF RecvStop
    <2> DEFINE ev == [kind |-> "stop", stop |-> stop]
    <2>2. ev.kind = "stop" /\ UNCHANGED unplaced
        BY Zenon, <1>6 DEF RecvStop
    <2> HIDE DEF ev
    <2>3. Local(e, Received(r, ev, "emit"))
        BY Zenon, <2>1 DEF ev
    <2> QED
        BY Zenon, <1>4, <2>2, <2>3
<1>7. CASE RecvEnd(e)
    <2> DEFINE pc == IF r.purpose = "summary" THEN "compact" ELSE "message"
               x == [r EXCEPT !.pend = NoEvent, !.pc = pc]
    <2>1. Changed(r, x, StreamFields) /\ x.pc = pc
          /\ x.summary = r.summary /\ x.usage = r.usage /\ x.ncalls = r.ncalls
        BY Zenon, <1>2 DEF Changed, StreamFields, Fields
    <2>2. Local(e, x) /\ UNCHANGED unplaced
        BY Zenon, <1>7 DEF RecvEnd
    <2> HIDE DEF x
    <2>3. Streaming(x)
        BY Zenon, <2>1 DEF Streaming
    <2>4. GoodNext(r, plan[e], x)
        BY Zenon, <1>1, <1>2, <1>3, <2>1, <2>3, StreamGood
    <2> QED
        BY Zenon, <1>1, <2>1, <2>2, <2>4, GoodLocal
<1>8. CASE RecvFails(e)
    BY Zenon, <1>1, <1>8, AbortStep DEF RecvFails
<1> QED
    BY Zenon, <1>5, <1>6, <1>7, <1>8

=============================================================================
