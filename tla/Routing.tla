------------------------------- MODULE Routing -------------------------------
(***************************************************************************)
(* One placement: EvaluateRouter around the deterministic router, or around *)
(* a router supplied by the caller.  A request lists the candidates as they *)
(* were observed; the mandatory gates exclude some, the router scores the   *)
(* rest and selects one, and EvaluateRouter checks the decision before the  *)
(* engine may use it.                                                      *)
(*                                                                         *)
(* A candidate's observations are abstracted to what the gates and the      *)
(* score read: the gates it fails whatever the numbers say (flaws), whether *)
(* it lives in the source zone, and its numbers.  Times are relative to the *)
(* observation time, so window is deadline - observedAt.  IDs are ordered   *)
(* like the strings they stand for; NoID is the empty string.              *)
(***************************************************************************)
EXTENDS Integers, Sequences

CONSTANTS Requests,            \* the routing requests considered
          CustomDecisions(_),  \* what a caller's own router may return for a request
          Word                 \* 2^64: the machine word of bits.Mul64 and bits.Div64

ScorePermilleMax == 1000
Permille == 0 .. ScorePermilleMax
NoID == 0

Components == {"quality", "locality", "availability", "cache", "cost", "latency", "load"}

(* The gates in the order candidateExclusion applies them. *)
EgressGates == <<"egress.verdict.missing", "policy.egress.invalid",
                 "policy.egress.manifest_mismatch", "policy.egress.scope_mismatch",
                 "policy.egress.not_allowed">>

Gates ==
  <<"identity.unauthenticated", "compatibility.unsatisfied", "health.unhealthy",
    "health.draining", "policy.zone.denied", "policy.execution.invalid",
    "policy.execution.manifest_mismatch", "policy.execution.scope_mismatch",
    "policy.execution.not_allowed">>
  \o EgressGates \o
  <<"capability.modality.missing", "capability.tool.missing", "capability.tool_use.missing",
    "capability.native_tool_use.missing", "capability.structured_output.missing",
    "limit.context.insufficient", "limit.output.insufficient", "budget.cost.unreservable",
    "capacity.unavailable", "capacity.deadline">>

GateCodes == {Gates[i] : i \in DOMAIN Gates}
MeasuredGates == {"budget.cost.unreservable", "capacity.unavailable", "capacity.deadline"}

\* Sum over the score components of a[k] * b[k].
Weighted(a, b) ==
  a["quality"] * b["quality"] + a["locality"] * b["locality"]
    + a["availability"] * b["availability"] + a["cache"] * b["cache"]
    + a["cost"] * b["cost"] + a["latency"] * b["latency"] + a["load"] * b["load"]

\* RoutingWeights.Validate: permille weights that total 1000.
ValidWeights(w) ==
  /\ w \in [Components -> Permille]
  /\ Weighted(w, [k \in Components |-> 1]) = ScorePermilleMax

Candidate ==
  [id: Nat \ {NoID}, flaws: SUBSET (GateCodes \ MeasuredGates), local: BOOLEAN, slots: Nat,
   availableAt: Int, cost: Nat, latency: Nat, quality: Permille, cache: Permille,
   load: Permille]

\* RoutingRequest.Validate: at least one candidate, and no ID twice.
ValidRequest(r) ==
  /\ r.maxCost \in Nat
  /\ r.window \in Nat \ {0}
  /\ ValidWeights(r.weights)
  /\ r.candidates \in Seq(Candidate)
  /\ r.candidates # <<>>
  /\ \A i, j \in DOMAIN r.candidates : r.candidates[i].id = r.candidates[j].id => i = j

ASSUME RequestsAssumption == \A r \in Requests : ValidRequest(r)
ASSUME WordAssumption == Word \in Nat /\ Word > ScorePermilleMax

-----------------------------------------------------------------------------
(* Eligibility: the first gate a candidate fails excludes it. *)

\* When the candidate can start, relative to the observation.
Start(c) == IF c.availableAt > 0 THEN c.availableAt ELSE 0

\* Faulty variant: the wait for capacity is left out.
MissesDeadlineIfStartedNow(r, c) == c.latency > r.window

MissesDeadline(r, c) == Start(c) > r.window \/ c.latency > r.window - Start(c)

\* Egress is judged only for a candidate outside the source zone.
Failing(r, c) ==
  {g \in c.flaws : c.local => \A i \in DOMAIN EgressGates : g # EgressGates[i]}
  \union {g \in MeasuredGates :
            \/ g = "budget.cost.unreservable" /\ c.cost > r.maxCost
            \/ g = "capacity.unavailable" /\ c.slots = 0
            \/ g = "capacity.deadline" /\ MissesDeadline(r, c)}

\* The exclusion of a candidate: none, or the code of the first gate it fails.
CandidateExclusion(r, c) ==
  IF Failing(r, c) = {} THEN <<>>
  ELSE <<Gates[CHOOSE i \in DOMAIN Gates :
                 /\ Gates[i] \in Failing(r, c)
                 /\ \A j \in 1 .. i - 1 : Gates[j] \notin Failing(r, c)]>>

Eligible(r, c) == CandidateExclusion(r, c) = <<>>

-----------------------------------------------------------------------------
(* The score of the deterministic router. *)

\* bits.Div64 panics when the quotient does not fit a word, or on a zero divisor.
ScalePanics(n, d) == d <= (n * ScorePermilleMax) \div Word

ScalePermille(n, d) == (n * ScorePermilleMax) \div d

TotalLatency(c) == Start(c) + c.latency

ScoringPanics(r, c) ==
  \/ r.maxCost > 0 /\ ScalePanics(c.cost, r.maxCost)
  \/ ScalePanics(TotalLatency(c), r.window)

Availability(c) == IF c.slots < 10 THEN c.slots * 100 ELSE ScorePermilleMax

ScoreCandidate(r, c) ==
  [k \in Components |->
     CASE k = "quality"      -> c.quality
       [] k = "locality"     -> IF c.local THEN ScorePermilleMax ELSE 0
       [] k = "availability" -> Availability(c)
       [] k = "cache"        -> c.cache
       [] k = "cost"         -> IF r.maxCost > 0
                                THEN ScorePermilleMax - ScalePermille(c.cost, r.maxCost)
                                ELSE ScorePermilleMax
       [] k = "latency"      -> ScorePermilleMax - ScalePermille(TotalLatency(c), r.window)
       [] k = "load"         -> ScorePermilleMax - c.load]

Total(r, c) ==
  LET s == ScoreCandidate(r, c) IN Weighted(s, r.weights) \div ScorePermilleMax

Assessment(r, c) ==
  [id |-> c.id, exclusion |-> CandidateExclusion(r, c),
   score |-> IF Eligible(r, c) THEN <<ScoreCandidate(r, c), Total(r, c)>> ELSE <<>>]

-----------------------------------------------------------------------------
VARIABLES request,   \* the request being routed
          router,    \* "deterministic" or "custom"
          index,     \* the next candidate the deterministic router looks at
          best,      \* bestScore
          decision,  \* assessments and the selected ID
          outcome    \* "routing"; "returned" or "returned_none", the router's return
                     \* without and with ErrNoEligibleCandidates; or EvaluateRouter's

vars == <<request, router, index, best, decision, outcome>>

Init ==
  /\ request \in Requests
  /\ router \in {"deterministic", "custom"}
  /\ index = 1
  /\ best = -1
  /\ decision = [assessments |-> <<>>, selected |-> NoID]
  /\ outcome = "routing"

Current == request.candidates[index]

\* Faulty variant: the last of equal candidates wins.
BeatsOrTies(c) == Total(request, c) >= best

Beats(c) ==
  \/ Total(request, c) > best
  \/ Total(request, c) = best /\ c.id < decision.selected

\* One iteration of Route's loop.
Assess ==
  /\ router = "deterministic" /\ outcome = "routing"
  /\ index <= Len(request.candidates)
  /\ index' = index + 1
  /\ \/ /\ ~Eligible(request, Current)
        /\ decision' =
             [assessments |-> Append(decision.assessments, Assessment(request, Current)),
              selected |-> decision.selected]
        /\ UNCHANGED <<best, outcome>>
     \/ /\ Eligible(request, Current)
        /\ outcome' = IF ScoringPanics(request, Current) THEN "panic" ELSE outcome
        /\ decision' =
             [assessments |-> Append(decision.assessments, Assessment(request, Current)),
              selected |-> IF Beats(Current) THEN Current.id ELSE decision.selected]
        /\ best' = IF Beats(Current) THEN Total(request, Current) ELSE best
  /\ UNCHANGED <<request, router>>

\* Route returns its decision after the last candidate.
RouteReturns ==
  /\ router = "deterministic" /\ outcome = "routing"
  /\ index > Len(request.candidates)
  /\ outcome' = IF decision.selected = NoID THEN "returned_none" ELSE "returned"
  /\ UNCHANGED <<request, router, index, best, decision>>

\* A caller's router returns a decision of its own making, or fails.
CustomRoute ==
  /\ router = "custom" /\ outcome = "routing"
  /\ \/ outcome' \in {"returned", "returned_none"} /\ decision' \in CustomDecisions(request)
     \/ outcome' = "failed" /\ UNCHANGED decision
  /\ UNCHANGED <<request, router, index, best>>

ValidScore(s) ==
  /\ \A k \in Components : s[1][k] \in Permille
  /\ s[2] \in Permille

\* Faulty variant: the router's own assessments are believed.
ValidDecisionTrustingAssessments(r, d) ==
  /\ Len(d.assessments) = Len(r.candidates)
  /\ IF d.selected = NoID
     THEN \A i \in DOMAIN r.candidates : d.assessments[i].exclusion # <<>>
     ELSE \E i \in DOMAIN r.candidates : /\ d.assessments[i].exclusion = <<>>
                                         /\ d.assessments[i].id = d.selected

\* RoutingDecision.Validate.
ValidDecision(r, d) ==
  /\ Len(d.assessments) = Len(r.candidates)
  /\ \A i \in DOMAIN r.candidates :
        LET a == d.assessments[i] IN
        /\ a.id = r.candidates[i].id
        /\ a.exclusion = CandidateExclusion(r, r.candidates[i])
        /\ IF a.exclusion = <<>> THEN a.score # <<>> /\ ValidScore(a.score)
                                 ELSE a.score = <<>>
  /\ IF d.selected = NoID
     THEN \A i \in DOMAIN r.candidates : d.assessments[i].exclusion # <<>>
     ELSE \E i \in DOMAIN r.candidates : /\ d.assessments[i].exclusion = <<>>
                                         /\ d.assessments[i].id = d.selected

Returned == outcome \in {"returned", "returned_none"}

\* EvaluateRouter inspects what the router returned: the decision must be valid, and must
\* select a candidate exactly when the router did not report that none is eligible.
EvaluateRouter ==
  /\ Returned
  /\ outcome' =
       IF ValidDecision(request, decision)
            /\ (outcome = "returned") = (decision.selected # NoID)
       THEN IF outcome = "returned" THEN "routed" ELSE "no_route"
       ELSE "rejected"
  /\ UNCHANGED <<request, router, index, best, decision>>

\* The context ends before the decision is accepted.
Cancel ==
  /\ outcome = "routing" \/ Returned
  /\ outcome' = "cancelled"
  /\ UNCHANGED <<request, router, index, best, decision>>

Next == Assess \/ RouteReturns \/ CustomRoute \/ EvaluateRouter \/ Cancel

Spec == Init /\ [][Next]_vars

-----------------------------------------------------------------------------
Outcomes == {"routing", "returned", "returned_none", "routed", "no_route", "rejected",
             "failed", "cancelled", "panic"}

\* The loop of the deterministic router stays within the candidates, and bestScore is -1 or
\* a score (router.go, Route).
TypeOK ==
  /\ ValidRequest(request)
  /\ router \in {"deterministic", "custom"}
  /\ index \in 1 .. Len(request.candidates) + 1
  /\ best \in Permille \cup {-1}
  /\ outcome \in Outcomes

\* Whatever router the caller supplied, EvaluateRouter hands the engine only a candidate
\* that passes every mandatory gate, and reports "no route" only if every candidate fails one.
AcceptedIsEligible ==
  /\ outcome = "routed" =>
       \E i \in DOMAIN request.candidates :
          /\ request.candidates[i].id = decision.selected
          /\ Failing(request, request.candidates[i]) = {}
  /\ outcome = "no_route" =>
       \A i \in DOMAIN request.candidates : Failing(request, request.candidates[i]) # {}

Better(r, c, d) == Total(r, c) > Total(r, d) \/ (Total(r, c) = Total(r, d) /\ c.id < d.id)

\* The deterministic router selects the one eligible candidate that beats every other on
\* score, or on ID at an equal score: a choice that does not depend on the order in which
\* the candidates are listed.
SelectsBest ==
  outcome = "routed" /\ router = "deterministic" =>
    \A i \in DOMAIN request.candidates :
       LET c == request.candidates[i] IN
       c.id = decision.selected <=>
         /\ Failing(request, c) = {}
         /\ \A j \in DOMAIN request.candidates \ {i} :
              Failing(request, request.candidates[j]) = {}
                => Better(request, c, request.candidates[j])

\* The gates keep every number the deterministic router scales within its divisor, so that
\* bits.Div64 never panics and no score leaves 0..1000: EvaluateRouter accepts whatever
\* that router returns.
DeterministicIsAccepted ==
  router = "deterministic" => outcome \notin {"panic", "rejected", "failed"}
=============================================================================
