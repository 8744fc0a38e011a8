----------------------------- MODULE Placement -----------------------------
(***************************************************************************)
(* Selecting where a turn runs: engineRun.SelectTurn, prepareContext,      *)
(* selectPlacement, the approval gate and the spend reservation.           *)
(*                                                                         *)
(* A turn is placed once for its model call and, when the history has      *)
(* outgrown the threshold of a context window, once before that for a      *)
(* summary call (purpose "summary").  Policies, approver, counter, router  *)
(* and estimator are external: each may give any answer.                   *)
(***************************************************************************)
EXTENDS EngineState

unplaced == <<plan, world, resumes>>

(* Start of a pass over the candidates.                                    *)
Place(r, purpose) ==
    [r EXCEPT !.pc = "policy", !.purpose = purpose, !.cand = 1, !.elig = 1..NC, !.sel = 0]

(* The top of the loop: the context check, the loop's own call limit, the  *)
(* engine's limit over turns and summaries, and the size of the context.   *)
OverLimit(r) == r.turn + r.extra > MaxModelCalls

NoRoomForSummary(r) == r.turn + r.extra >= MaxModelCalls

TurnEnded(e) ==
    /\ run[e].pc = "turn"
    /\ \/ ~Live(e) /\ Abort(e)
       \/ Live(e) /\ run[e].mc >= MaxModelCalls /\ Abort(e)
       \/ /\ Live(e) /\ run[e].mc < MaxModelCalls /\ OverLimit(run[e])
          /\ BudgetFailure(e)
          /\ UNCHANGED unplaced

MayTurn(e) ==
    /\ run[e].pc = "turn"
    /\ Live(e)
    /\ run[e].mc < MaxModelCalls
    /\ ~OverLimit(run[e])

(* The history fits: place the turn itself.                                *)
TurnFits(e) ==
    /\ MayTurn(e)
    /\ Local(e, Place(run[e], "turn"))
    /\ UNCHANGED unplaced

(* The counter fails, the context overflows with no automatic compaction,  *)
(* or nothing may be or fits to be summarised.                             *)
TurnOverflows(e) == MayTurn(e) /\ Abort(e)

(* The history is over the threshold: place a summary call first, if the   *)
(* limit leaves room for it and for the turn.                              *)
TurnCompacts(e) ==
    /\ MayTurn(e)
    /\ AutoCompaction
    /\ \/ NoRoomForSummary(run[e]) /\ BudgetFailure(e)
       \/ /\ ~NoRoomForSummary(run[e])
          /\ Local(e, [Place(run[e], "summary") EXCEPT !.last = run[e].seq])
    /\ UNCHANGED unplaced

-----------------------------------------------------------------------------
(* The next step of the pass after the verdict of kind "exec" or "egress"  *)
(* on the current candidate is settled.                                    *)
AfterVerdict(r, kind) ==
    IF kind = "exec" /\ r.cand \in Remote THEN [r EXCEPT !.pc = "egress"]
    ELSE IF r.cand < NC THEN [r EXCEPT !.pc = "policy", !.cand = @ + 1]
    ELSE [r EXCEPT !.pc = "route"]

(* A denied candidate stays in the pass, but not among the eligible ones.  *)
Eligible(r, verdict) == IF verdict = "deny" THEN r.elig \ {r.cand} ELSE r.elig

(* One verdict on the current candidate: execution policy at pc "policy",  *)
(* egress policy at pc "egress".  It is recorded before it is acted on.    *)
Evaluate(e, pc, kind) ==
    LET r == run[e]
    IN /\ r.pc = pc
       /\ \/ ~Live(e) /\ Abort(e)
          \/ /\ Live(e)
             /\ \E v \in Verdicts :
                    Write(e, <<PolicyRecord(r, <<kind, r.cand>>, v)>>, FALSE,
                          IF v = "approve" THEN [r EXCEPT !.pc = "approve", !.asked = kind]
                          ELSE AfterVerdict([r EXCEPT !.elig = Eligible(r, v)], kind),
                          Fail(r))
             /\ UNCHANGED unplaced

EvaluateExecution(e) == Evaluate(e, "policy", "exec")
EvaluateEgress(e) == Evaluate(e, "egress", "egress")

(* The decision of the approver counts only while the context lives; it is *)
(* recorded on a detached context either way.                              *)
ApproverSays(e) == IF Live(e) THEN BOOLEAN ELSE {FALSE}

(* engineRun.approve for the verdict of pc "exec", "egress" or "return", or for *)
(* the step itself before its first reservation.                           *)
Approve(e) ==
    LET r == run[e]
    IN /\ r.pc = "approve"
       /\ \/ Abort(e)       \* no approver, or secret content
          \/ /\ HasApprover
             /\ \E granted \in ApproverSays(e) :
                    Write(e, <<ApprovalRecord(r, r.asked, granted)>>, TRUE,
                          IF ~granted THEN Fail(r)
                          ELSE IF r.asked = "step" THEN [r EXCEPT !.pc = "reserve", !.approved = TRUE]
                          ELSE [r EXCEPT !.pc = "grant"],
                          Fail(r))
             /\ UNCHANGED unplaced

(* resolveApproval records the granted verdict, now an allow.              *)
Grant(e) ==
    LET r == run[e]
    IN /\ r.pc = "grant"
       /\ Write(e, <<PolicyRecord(r, <<r.asked, r.cand>>, "allow")>>, FALSE,
                IF r.asked = "return" THEN [r EXCEPT !.pc = "emit", !.asked = "none"]
                ELSE AfterVerdict([r EXCEPT !.asked = "none"], r.asked),
                Fail(r))
       /\ UNCHANGED unplaced

-----------------------------------------------------------------------------
\* Faulty variant: the approval of the step is skipped.
AfterRoutingUnapproved(r, selected, available) ==
    IF selected = 0 \/ ~available THEN Fail(r) ELSE [r EXCEPT !.sel = selected, !.pc = "reserve"]

(* What follows the routing record: no route and a provider that is not    *)
(* there are errors; the first placement of a run needs an approval.       *)
AfterRouting(r, selected, available) ==
    IF selected = 0 \/ ~available THEN Fail(r)
    ELSE IF HasApprover /\ ~r.approved
    THEN [r EXCEPT !.sel = selected, !.pc = "approve", !.asked = "step"]
    ELSE [r EXCEPT !.sel = selected, !.pc = "reserve"]

(* The router picks an eligible candidate or none; candidates may also be  *)
(* excluded for reasons other than policy.                                 *)
Route(e) ==
    /\ run[e].pc = "route"
    /\ \/ Abort(e)
       \/ /\ Live(e)
          /\ \E selected \in run[e].elig \cup {0}, available \in BOOLEAN :
                Write(e, <<RoutingRecord(run[e], selected)>>, FALSE,
                      AfterRouting(run[e], selected, available), Fail(run[e]))
          /\ UNCHANGED unplaced

(* engineRun.reserve: a bound within what is left of the budget is         *)
(* recorded, and only then counted and used.                               *)
FitsBudget(r, b) == Within(Plus(r.reserved, b), MaxSpend)

Reserve(e) ==
    LET r == run[e]
        k == IF r.purpose = "summary" THEN Summary ELSE Model
    IN /\ r.pc = "reserve"
       /\ \/ Abort(e)       \* no estimate, or the output cap is above the bound
          \/ \E b \in Spends :
                \/ ~FitsBudget(r, b) /\ BudgetFailure(e) /\ UNCHANGED unplaced
                \/ /\ FitsBudget(r, b)
                   /\ Write(e, <<ReservedRecord(r, b)>>, FALSE,
                            [r EXCEPT !.reserved = Plus(@, b), !.bound = b, !.used = Zero,
                                      !.pc = IF k = Summary THEN "call" ELSE "start"],
                            Fail(r))
                   /\ Planned(e, [plan[e] EXCEPT ![k] = "intended"])
                   /\ UNCHANGED <<world, resumes>>

PlacementStep(e) ==
    \/ TurnEnded(e) \/ TurnFits(e) \/ TurnOverflows(e) \/ TurnCompacts(e)
    \/ EvaluateExecution(e) \/ EvaluateEgress(e) \/ Approve(e) \/ Grant(e)
    \/ Route(e) \/ Reserve(e)
=============================================================================
