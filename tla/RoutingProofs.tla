--------------------------- MODULE RoutingProofs ---------------------------
(* Routing is right for every request and for every router the caller may supply. *)
EXTENDS Routing, TLAPS

-----------------------------------------------------------------------------
(* Arithmetic of the score. *)

\* A quotient of a number of at most m parts of b.
LEMMA DivBound ==
  ASSUME NEW a \in Nat, NEW b \in Nat, NEW m \in Nat, b > 0, a <= m * b
  PROVE  a \div b \in 0 .. m
  <1> DEFINE q == a \div b
  <1>1. q \in Nat /\ q * b <= a
    BY SMT
  <1>2. ASSUME q > m PROVE FALSE
    <2>1. q * b >= (m + 1) * b
      BY <1>1, <1>2, SMT
    <2>2. (m + 1) * b = m * b + b
      BY SMT
    <2> QED
      BY <1>1, <2>1, <2>2, SMT
  <1> QED
    BY <1>1, <1>2, SMT

\* scalePermille of a part of a whole is a permille, and bits.Div64 does not panic.
LEMMA ScaleIsSafe ==
  ASSUME NEW n \in Nat, NEW d \in Nat, d > 0, n <= d
  PROVE  ScalePermille(n, d) \in Permille /\ ~ScalePanics(n, d)
  <1>1. n * ScorePermilleMax \in Nat /\ n * ScorePermilleMax <= ScorePermilleMax * d
    BY SMT DEF ScorePermilleMax
  <1>2. ScalePermille(n, d) \in Permille
    BY <1>1, DivBound DEF ScalePermille, Permille, ScorePermilleMax
  <1>3. ~ScalePanics(n, d)
    <2> DEFINE hi == (n * ScorePermilleMax) \div Word
    <2>1. hi \in Nat /\ hi * Word <= n * ScorePermilleMax
      BY <1>1, WordAssumption, SMT DEF ScorePermilleMax
    <2>2. ASSUME d <= hi PROVE FALSE
      <3>1. d * Word <= hi * Word
        BY <2>1, <2>2, WordAssumption, SMT
      <3>2. d * (ScorePermilleMax + 1) <= d * Word
        BY WordAssumption, SMT DEF ScorePermilleMax
      <3> QED
        BY <1>1, <2>1, <3>1, <3>2, WordAssumption, SMT DEF ScorePermilleMax
    <2> QED
      BY <2>1, <2>2, SMT DEF ScalePanics
  <1> QED
    BY <1>2, <1>3

\* One summand of the weighted sum.
LEMMA ProductBound ==
  ASSUME NEW s \in Permille, NEW w \in Permille
  PROVE  s * w \in Nat /\ s * w <= ScorePermilleMax * w
  BY SMT DEF Permille, ScorePermilleMax

\* Weights that total 1000 keep a weighted sum of permilles within 1000 * 1000.
LEMMA WeightedBound ==
  ASSUME NEW s \in [Components -> Permille], NEW w, ValidWeights(w)
  PROVE  Weighted(s, w) \div ScorePermilleMax \in Permille
  <1> DEFINE P(k) == s[k] * w[k]
  <1>1. \A k \in Components : s[k] \in Permille /\ w[k] \in Permille
    BY DEF ValidWeights
  <1>2. \A k \in Components : P(k) \in Nat /\ P(k) <= ScorePermilleMax * w[k]
    BY <1>1, ProductBound
  <1>3. w["quality"] + w["locality"] + w["availability"] + w["cache"] + w["cost"]
          + w["latency"] + w["load"] = ScorePermilleMax
    <2>1. \A k \in Components : w[k] \in Nat /\ w[k] * 1 = w[k]
      <3>1. \A x \in Permille : x \in Nat /\ x * 1 = x
        BY SMT DEF Permille, ScorePermilleMax
      <3> QED
        BY <1>1, <3>1
    <2>2. \A k \in Components : [j \in Components |-> 1][k] = 1
      OBVIOUS
    <2> QED
      BY <2>1, <2>2, SMT DEF ValidWeights, Weighted, Components
  <1>4. /\ Weighted(s, w) = P("quality") + P("locality") + P("availability") + P("cache")
                             + P("cost") + P("latency") + P("load")
    BY DEF Weighted
  <1>5. Weighted(s, w) \in Nat /\ Weighted(s, w) <= ScorePermilleMax * ScorePermilleMax
    <2> HIDE DEF P
    <2>1. \A k \in Components : w[k] \in Nat
      <3>1. \A x \in Permille : x \in Nat
        BY SMT DEF Permille, ScorePermilleMax
      <3> QED
        BY <1>1, <3>1
    <2> QED
      BY <1>2, <1>3, <1>4, <2>1, SMT DEF Components, ScorePermilleMax
  <1> QED
    BY <1>5, DivBound DEF Permille, ScorePermilleMax

-----------------------------------------------------------------------------
(* What the gates guarantee of an eligible candidate. *)

\* An eligible candidate is one that fails no gate.
LEMMA EligibleIff ==
  ASSUME NEW r, NEW c
  PROVE  Eligible(r, c) <=> Failing(r, c) = {}
  BY DEF Eligible, CandidateExclusion

\* The gates bound what scoreCandidate divides.
LEMMA EligibleFacts ==
  ASSUME NEW r, ValidRequest(r), NEW c \in Candidate, Eligible(r, c)
  PROVE  /\ c.cost <= r.maxCost
         /\ TotalLatency(c) \in Nat
         /\ TotalLatency(c) <= r.window
  <1>1. /\ r.maxCost \in Nat /\ r.window \in Nat
        /\ c.cost \in Nat /\ c.latency \in Nat /\ c.availableAt \in Int
    BY DEF ValidRequest, Candidate
  <1>2. \A g \in MeasuredGates : g \notin Failing(r, c)
    BY EligibleIff
  <1>3. c.cost <= r.maxCost
    <2>1. ~(c.cost > r.maxCost)
      BY <1>2 DEF Failing, MeasuredGates
    <2> QED
      BY <1>1, <2>1
  <1>4. ~MissesDeadline(r, c)
    BY <1>2 DEF Failing, MeasuredGates
  <1>5. Start(c) \in Nat
    BY <1>1 DEF Start
  <1> QED
    BY <1>1, <1>3, <1>4, <1>5 DEF MissesDeadline, TotalLatency

\* Scoring an eligible candidate does not panic, and every component is a permille.
LEMMA ScoreIsSafe ==
  ASSUME NEW r, ValidRequest(r), NEW c \in Candidate, Eligible(r, c)
  PROVE  /\ ~ScoringPanics(r, c)
         /\ ScoreCandidate(r, c) \in [Components -> Permille]
         /\ Total(r, c) \in Permille
  <1>1. /\ r.maxCost \in Nat /\ r.window \in Nat /\ r.window > 0
        /\ c.cost \in Nat /\ c.slots \in Nat
        /\ {c.quality, c.cache, c.load} \subseteq Permille
    <2>1. r.maxCost \in Nat /\ r.window \in Nat /\ r.window > 0
      BY SMTT(60) DEF ValidRequest
    <2>2. /\ c.cost \in Nat /\ c.slots \in Nat
          /\ c.quality \in Permille /\ c.cache \in Permille /\ c.load \in Permille
      BY SMTT(60) DEF Candidate
    <2> QED
      BY <2>1, <2>2
  <1>2. /\ ScalePermille(TotalLatency(c), r.window) \in Permille
        /\ ~ScalePanics(TotalLatency(c), r.window)
    BY <1>1, EligibleFacts, ScaleIsSafe
  <1>3. r.maxCost > 0 => /\ ScalePermille(c.cost, r.maxCost) \in Permille
                         /\ ~ScalePanics(c.cost, r.maxCost)
    BY <1>1, EligibleFacts, ScaleIsSafe
  <1>4. Availability(c) \in Permille
    BY <1>1, SMTT(60) DEF Availability, Permille, ScorePermilleMax
  <1>5. \A p \in Permille : ScorePermilleMax - p \in Permille
    BY SMT DEF Permille, ScorePermilleMax
  <1>6. 0 \in Permille /\ ScorePermilleMax \in Permille
    BY DEF Permille, ScorePermilleMax
  <1>7. ScoreCandidate(r, c) \in [Components -> Permille]
    <2> SUFFICES ASSUME NEW k \in Components
                 PROVE  ScoreCandidate(r, c)[k] \in Permille
      BY DEF ScoreCandidate
    <2> QED
      BY <1>1, <1>2, <1>3, <1>4, <1>5, <1>6 DEF ScoreCandidate, Components
  <1>8. Total(r, c) \in Permille
    BY <1>7, WeightedBound DEF Total, ValidRequest
  <1> QED
    BY <1>2, <1>3, <1>7, <1>8 DEF ScoringPanics

-----------------------------------------------------------------------------
(* The loop of the deterministic router. *)

\* The selection after the first n candidates: none is eligible and none selected, or the
\* selected one is better than every other eligible one.
LeadsAmong(r, d, b, n) ==
  \/ /\ d.selected = NoID
     /\ b = -1
     /\ \A j \in 1 .. n : ~Eligible(r, r.candidates[j])
  \/ \E i \in 1 .. n :
       /\ Eligible(r, r.candidates[i])
       /\ d.selected = r.candidates[i].id
       /\ b = Total(r, r.candidates[i])
       /\ \A j \in 1 .. n : j # i /\ Eligible(r, r.candidates[j])
            => Better(r, r.candidates[i], r.candidates[j])

\* The inductive invariant.
Progress ==
  router = "deterministic" =>
    /\ outcome \in {"routing", "returned", "returned_none", "routed", "no_route", "cancelled"}
    /\ decision.assessments = [j \in 1 .. index - 1 |-> Assessment(request, request.candidates[j])]
    /\ LeadsAmong(request, decision, best, index - 1)
    /\ outcome \in {"returned", "returned_none", "routed"} => index = Len(request.candidates) + 1
    /\ outcome = "returned" => decision.selected # NoID
    /\ outcome = "returned_none" => decision.selected = NoID

Accepted ==
  /\ outcome = "routed" => ValidDecision(request, decision) /\ decision.selected # NoID
  /\ outcome = "no_route" => ValidDecision(request, decision) /\ decision.selected = NoID

IInv == request \in Requests /\ TypeOK /\ Progress /\ Accepted

\* Facts on the candidates of a valid request.
LEMMA CandidateFacts ==
  ASSUME NEW r, ValidRequest(r)
  PROVE  /\ Len(r.candidates) \in Nat
         /\ DOMAIN r.candidates = 1 .. Len(r.candidates)
         /\ \A i \in 1 .. Len(r.candidates) :
              /\ r.candidates[i] \in Candidate
              /\ r.candidates[i].id \in Nat /\ r.candidates[i].id # NoID
              /\ Eligible(r, r.candidates[i]) => Total(r, r.candidates[i]) \in Nat
         /\ \A i, j \in 1 .. Len(r.candidates) :
              r.candidates[i].id = r.candidates[j].id => i = j
  <1>1. r.candidates \in Seq(Candidate)
    BY DEF ValidRequest
  <1>2. /\ Len(r.candidates) \in Nat
        /\ DOMAIN r.candidates = 1 .. Len(r.candidates)
        /\ \A i \in 1 .. Len(r.candidates) : r.candidates[i] \in Candidate
    BY <1>1
  <1>3. \A c \in Candidate : c.id \in Nat /\ c.id # NoID
    BY DEF Candidate
  <1>4. \A c \in Candidate : Eligible(r, c) => Total(r, c) \in Nat
    BY ScoreIsSafe DEF Permille, ScorePermilleMax
  <1> QED
    BY <1>2, <1>3, <1>4 DEF ValidRequest

\* The comparison of the loop keeps the leader of the candidates seen so far.
LEMMA LeaderStep ==
  ASSUME NEW r, ValidRequest(r), NEW n \in Nat, n < Len(r.candidates),
         NEW d, NEW b, LeadsAmong(r, d, b, n),
         NEW e, NEW a,
         LET c == r.candidates[n + 1]
             beats == Total(r, c) > b \/ (Total(r, c) = b /\ c.id < d.selected)
         IN /\ Eligible(r, c) =>
                 /\ e.selected = IF beats THEN c.id ELSE d.selected
                 /\ a = IF beats THEN Total(r, c) ELSE b
            /\ ~Eligible(r, c) => e.selected = d.selected /\ a = b
  PROVE  LeadsAmong(r, e, a, n + 1)
  <1> DEFINE C(i) == r.candidates[i]
             T(i) == Total(r, C(i))
             N(i) == C(i).id
             E(i) == Eligible(r, C(i))
             B(i, j) == T(i) > T(j) \/ (T(i) = T(j) /\ N(i) < N(j))
             new == n + 1
             beats == T(new) > b \/ (T(new) = b /\ N(new) < d.selected)
  <1>1. /\ new \in 1 .. Len(r.candidates)
        /\ \A i \in 1 .. n : i \in 1 .. Len(r.candidates) /\ i # new
        /\ \A i \in 1 .. new : i \in 1 .. n \/ i = new
        /\ \A i \in 1 .. n : i \in 1 .. new
        /\ new \in 1 .. new
    BY CandidateFacts, SMT
  <1>2. \A i \in 1 .. Len(r.candidates) : /\ N(i) \in Nat /\ N(i) # NoID
                                          /\ E(i) => T(i) \in Nat
    BY CandidateFacts
  <1>3. \A i, j \in 1 .. Len(r.candidates) : N(i) = N(j) => i = j
    BY CandidateFacts
  <1>4. /\ E(new) => /\ e.selected = IF beats THEN N(new) ELSE d.selected
                     /\ a = IF beats THEN T(new) ELSE b
        /\ ~E(new) => e.selected = d.selected /\ a = b
    OBVIOUS
  <1>5. \A i, j : Better(r, C(i), C(j)) <=> B(i, j)
    BY DEF Better
  <1>6. CASE d.selected = NoID /\ b = -1 /\ \A j \in 1 .. n : ~E(j)
    <2>1. CASE ~E(new)
      <3> HIDE DEF E
      <3> QED
        BY <1>1, <1>4, <1>6, <2>1 DEF LeadsAmong, E
    <2>2. CASE E(new)
      <3>1. beats
        <4> HIDE DEF T, N, E
        <4> QED
          BY <1>1, <1>2, <1>6, <2>2, SMT
      <3>2. e.selected = N(new) /\ a = T(new)
        BY <1>4, <2>2, <3>1
      <3>3. \A j \in 1 .. new : j # new /\ E(j) => Better(r, C(new), C(j))
        BY <1>1, <1>6
      <3> QED
        BY <1>1, <2>2, <3>2, <3>3 DEF LeadsAmong
    <2> QED
      BY <2>1, <2>2
  <1>7. ASSUME NEW i \in 1 .. n, E(i), d.selected = N(i), b = T(i),
               \A j \in 1 .. n : j # i /\ E(j) => Better(r, C(i), C(j))
        PROVE  LeadsAmong(r, e, a, n + 1)
    <2>0. \A j \in 1 .. n : j # i /\ E(j) => B(i, j)
      BY <1>5, <1>7
    <2>1. CASE ~E(new)
      <3>1. e.selected = N(i) /\ a = T(i)
        BY <1>4, <1>7, <2>1
      <3>2. \A j \in 1 .. new : j # i /\ E(j) => Better(r, C(i), C(j))
        BY <1>1, <1>7, <2>1
      <3> QED
        BY <1>1, <1>7, <3>1, <3>2 DEF LeadsAmong
    <2>2. CASE E(new) /\ beats
      <3>1. e.selected = N(new) /\ a = T(new)
        BY <1>4, <2>2
      <3>2. B(new, i)
        BY <1>7, <2>2
      <3>3. \A j \in 1 .. n : E(j) => B(new, j)
        <4> HIDE DEF T, N, E, C
        <4> QED
          BY <1>1, <1>2, <1>7, <2>0, <2>2, <3>2, SMTT(60)
      <3>4. \A j \in 1 .. new : j # new /\ E(j) => Better(r, C(new), C(j))
        BY <1>1, <1>5, <3>3
      <3> QED
        BY <1>1, <2>2, <3>1, <3>4 DEF LeadsAmong
    <2>3. CASE E(new) /\ ~beats
      <3>1. e.selected = N(i) /\ a = T(i)
        BY <1>4, <1>7, <2>3
      <3>2. B(i, new)
        <4> HIDE DEF T, N, E, C
        <4> QED
          BY <1>1, <1>2, <1>3, <1>7, <2>3, SMT
      <3>3. \A j \in 1 .. new : j # i /\ E(j) => Better(r, C(i), C(j))
        BY <1>1, <1>5, <1>7, <3>2
      <3> QED
        BY <1>1, <1>7, <3>1, <3>3 DEF LeadsAmong
    <2> QED
      BY <2>1, <2>2, <2>3
  <1> QED
    BY <1>6, <1>7 DEF LeadsAmong

-----------------------------------------------------------------------------
\* Permille components and a permille total form a score that Validate accepts.
LEMMA PairIsScore ==
  \A s \in [Components -> Permille], t \in Permille : <<s, t>> # <<>> /\ ValidScore(<<s, t>>)
  BY DEF ValidScore

\* What the deterministic router returns after its last candidate passes
\* RoutingDecision.Validate.
LEMMA CompleteIsValid ==
  ASSUME NEW r, ValidRequest(r), NEW d, NEW b,
         d.assessments = [j \in 1 .. Len(r.candidates) |-> Assessment(r, r.candidates[j])],
         LeadsAmong(r, d, b, Len(r.candidates))
  PROVE  ValidDecision(r, d)
  <1> DEFINE n == Len(r.candidates)
  <1>1. /\ n \in Nat /\ DOMAIN r.candidates = 1 .. n
        /\ \A i \in 1 .. n : r.candidates[i] \in Candidate /\ r.candidates[i].id # NoID
    BY CandidateFacts
  <1>2. Len(d.assessments) = n
    BY <1>1
  <1>3. \A i \in 1 .. n :
           /\ d.assessments[i].id = r.candidates[i].id
           /\ d.assessments[i].exclusion = CandidateExclusion(r, r.candidates[i])
           /\ d.assessments[i].score = IF Eligible(r, r.candidates[i])
                                       THEN <<ScoreCandidate(r, r.candidates[i]),
                                              Total(r, r.candidates[i])>>
                                       ELSE <<>>
    BY DEF Assessment
  <1>4. ASSUME NEW i \in 1 .. n
        PROVE  IF d.assessments[i].exclusion = <<>>
               THEN d.assessments[i].score # <<>> /\ ValidScore(d.assessments[i].score)
               ELSE d.assessments[i].score = <<>>
    <2>1. CASE Eligible(r, r.candidates[i])
      <3>1. /\ ScoreCandidate(r, r.candidates[i]) \in [Components -> Permille]
            /\ Total(r, r.candidates[i]) \in Permille
        BY <1>1, <2>1, ScoreIsSafe
      <3>2. d.assessments[i].score
              = <<ScoreCandidate(r, r.candidates[i]), Total(r, r.candidates[i])>>
        BY <1>3, <2>1
      <3>3. d.assessments[i].score # <<>> /\ ValidScore(d.assessments[i].score)
        BY <3>1, <3>2, PairIsScore, Zenon
      <3> QED
        BY <1>3, <2>1, <3>3 DEF Eligible
    <2>2. CASE ~Eligible(r, r.candidates[i])
      BY <1>3, <2>2 DEF Eligible
    <2> QED
      BY <2>1, <2>2
  <1>5. CASE d.selected = NoID
    <2>1. \A i \in 1 .. n : ~Eligible(r, r.candidates[i])
      BY <1>1, <1>5 DEF LeadsAmong
    <2> QED
      BY <1>1, <1>2, <1>3, <1>4, <1>5, <2>1 DEF ValidDecision, Eligible
  <1>6. CASE d.selected # NoID
    <2>1. \E i \in 1 .. n : Eligible(r, r.candidates[i]) /\ d.selected = r.candidates[i].id
      BY <1>6 DEF LeadsAmong
    <2> QED
      BY <1>1, <1>2, <1>3, <1>4, <1>6, <2>1 DEF ValidDecision, Eligible
  <1> QED
    BY <1>5, <1>6

\* Requests start with nothing assessed.
LEMMA InitInv == Init => IInv
  <1> SUFFICES ASSUME Init PROVE IInv
    OBVIOUS
  <1>1. ValidRequest(request) /\ Len(request.candidates) \in Nat
    BY RequestsAssumption, CandidateFacts DEF Init
  <1>2. TypeOK
    BY <1>1 DEF Init, TypeOK, Outcomes
  <1>3. Progress
    BY DEF Init, Progress, LeadsAmong
  <1> QED
    BY <1>2, <1>3 DEF Init, IInv, Accepted

\* One iteration of Route's loop.
LEMMA AssessStep == ASSUME IInv, Assess PROVE IInv'
  <1> DEFINE n == index - 1
             c == request.candidates[n + 1]
  <1>1. /\ request \in Requests /\ ValidRequest(request)
        /\ router = "deterministic" /\ outcome = "routing"
        /\ index \in Nat /\ n \in Nat /\ n < Len(request.candidates) /\ n + 1 = index
        /\ Len(request.candidates) \in Nat
        /\ request' = request /\ router' = router /\ index' = index + 1
    BY CandidateFacts DEF IInv, TypeOK, Assess
  <1>2. c = Current /\ c \in Candidate
    BY <1>1, CandidateFacts DEF Current
  <1>3. /\ decision.assessments
             = [j \in 1 .. n |-> Assessment(request, request.candidates[j])]
        /\ LeadsAmong(request, decision, best, n)
    BY <1>1 DEF IInv, Progress
  <1>4. /\ outcome' = "routing"
        /\ decision'.assessments = Append(decision.assessments, Assessment(request, c))
        /\ Eligible(request, c) =>
             /\ decision'.selected = IF Beats(c) THEN c.id ELSE decision.selected
             /\ best' = IF Beats(c) THEN Total(request, c) ELSE best
        /\ ~Eligible(request, c) => decision'.selected = decision.selected /\ best' = best
    <2>1. CASE ~Eligible(request, c)
      BY <1>1, <1>2, <2>1 DEF Assess, IInv, TypeOK
    <2>2. CASE Eligible(request, c)
      BY <1>1, <1>2, <2>2, ScoreIsSafe DEF Assess
    <2> QED
      BY <2>1, <2>2
  <1>5. decision'.assessments
          = [j \in 1 .. index' - 1 |-> Assessment(request, request.candidates[j])]
    BY <1>1, <1>3, <1>4
  <1>6. LeadsAmong(request, decision', best', n + 1)
    BY <1>1, <1>3, <1>4, LeaderStep DEF Beats
  <1>7. Progress'
    BY <1>1, <1>4, <1>5, <1>6 DEF Progress
  <1>8. best' \in Permille \cup {-1}
    <2>1. best \in Permille \cup {-1}
      BY DEF IInv, TypeOK
    <2>2. Eligible(request, c) => Total(request, c) \in Permille
      BY <1>1, <1>2, ScoreIsSafe
    <2> QED
      BY <1>4, <2>1, <2>2
  <1>9. TypeOK'
    BY <1>1, <1>4, <1>8 DEF TypeOK, IInv, Outcomes
  <1> QED
    BY <1>1, <1>4, <1>7, <1>9 DEF IInv, Accepted

\* The other actions leave the loop's variables alone.
LEMMA OtherStep ==
  ASSUME IInv, RouteReturns \/ CustomRoute \/ EvaluateRouter \/ Cancel \/ UNCHANGED vars
  PROVE  IInv'
  <1>1. CASE RouteReturns
    <2>1. index = Len(request.candidates) + 1
      BY <1>1, CandidateFacts DEF RouteReturns, IInv, TypeOK
    <2> QED
      BY <1>1, <2>1 DEF RouteReturns, IInv, TypeOK, Progress, Accepted, Outcomes
  <1>2. CASE CustomRoute
    BY <1>2 DEF CustomRoute, IInv, TypeOK, Progress, Accepted, Outcomes
  <1>3. CASE EvaluateRouter
    <2>1. /\ outcome \in {"returned", "returned_none"}
          /\ UNCHANGED <<request, router, index, best, decision>>
          /\ outcome' \in {"routed", "no_route", "rejected"}
          /\ outcome' = "routed" =>
               /\ outcome = "returned"
               /\ ValidDecision(request, decision) /\ decision.selected # NoID
          /\ outcome' = "no_route" => ValidDecision(request, decision) /\ decision.selected = NoID
          /\ outcome' = "rejected" =>
               ~ValidDecision(request, decision)
                 \/ (outcome = "returned") # (decision.selected # NoID)
      BY <1>3 DEF EvaluateRouter, Returned
    <2>2. TypeOK' /\ Accepted'
      BY <2>1 DEF IInv, TypeOK, Accepted, Outcomes
    <2>3. ASSUME router = "deterministic" PROVE outcome' # "rejected"
      <3>1. index = Len(request.candidates) + 1 /\ ValidRequest(request)
        BY <2>1, <2>3 DEF IInv, Progress, TypeOK
      <3>2. Len(request.candidates) \in Nat
        BY <3>1, CandidateFacts
      <3>3. index - 1 = Len(request.candidates)
        BY <3>1, <3>2
      <3>4. ValidDecision(request, decision)
        BY <2>3, <3>1, <3>3, CompleteIsValid DEF IInv, Progress
      <3> QED
        BY <2>1, <2>3, <3>4 DEF IInv, Progress
    <2>4. Progress'
      BY <2>1, <2>3 DEF IInv, Progress
    <2> QED
      BY <2>1, <2>2, <2>4 DEF IInv
  <1>4. CASE Cancel
    BY <1>4 DEF Cancel, IInv, TypeOK, Progress, Accepted, Outcomes
  <1>5. CASE UNCHANGED vars
    BY <1>5 DEF vars, IInv, TypeOK, Progress, Accepted
  <1> QED
    BY <1>1, <1>2, <1>3, <1>4, <1>5

\* The invariant holds in every state of every placement.
THEOREM AlwaysIInv == Spec => []IInv
  <1>1. IInv /\ [Next]_vars => IInv'
    BY AssessStep, OtherStep DEF Next
  <1> QED
    BY InitInv, <1>1, PTL DEF Spec

\* EvaluateRouter hands the engine only eligible candidates, whatever router is behind it.
THEOREM AcceptedAreEligible == Spec => []AcceptedIsEligible
  <1>1. IInv => AcceptedIsEligible
    <2> SUFFICES ASSUME IInv PROVE AcceptedIsEligible
      OBVIOUS
    <2>1. CASE outcome = "routed"
      <3>1. ValidDecision(request, decision) /\ decision.selected # NoID
        BY <2>1 DEF IInv, Accepted
      <3>2. PICK i \in DOMAIN request.candidates :
                    /\ decision.assessments[i].exclusion = <<>>
                    /\ decision.assessments[i].id = decision.selected
        BY <3>1 DEF ValidDecision
      <3>3. /\ request.candidates[i].id = decision.selected
            /\ CandidateExclusion(request, request.candidates[i]) = <<>>
        BY <3>1, <3>2 DEF ValidDecision
      <3> QED
        BY <2>1, <3>3, EligibleIff DEF AcceptedIsEligible, Eligible
    <2>2. CASE outcome = "no_route"
      <3>1. ValidDecision(request, decision) /\ decision.selected = NoID
        BY <2>2 DEF IInv, Accepted
      <3>2. \A i \in DOMAIN request.candidates :
               CandidateExclusion(request, request.candidates[i]) # <<>>
        BY <3>1 DEF ValidDecision
      <3> QED
        BY <2>2, <3>2, EligibleIff DEF AcceptedIsEligible, Eligible
    <2>3. CASE outcome \notin {"routed", "no_route"}
      BY <2>3 DEF AcceptedIsEligible
    <2> QED
      BY <2>1, <2>2, <2>3
  <1> QED
    BY AlwaysIInv, <1>1, PTL

\* The deterministic router selects the best eligible candidate, independently of the order
\* of the candidates.
THEOREM BestIsSelected == Spec => []SelectsBest
  <1>1. IInv => SelectsBest
    <2> SUFFICES ASSUME IInv, outcome = "routed", router = "deterministic",
                        NEW i \in DOMAIN request.candidates
                 PROVE  request.candidates[i].id = decision.selected <=>
                          /\ Failing(request, request.candidates[i]) = {}
                          /\ \A j \in DOMAIN request.candidates \ {i} :
                               Failing(request, request.candidates[j]) = {}
                                 => Better(request, request.candidates[i], request.candidates[j])
      BY DEF SelectsBest
    <2> DEFINE n == Len(request.candidates)
               C(j) == request.candidates[j]
    <2>1. ValidRequest(request) /\ index = n + 1
      BY DEF IInv, TypeOK, Progress
    <2>2. /\ n \in Nat /\ DOMAIN request.candidates = 1 .. n
          /\ \A j \in 1 .. n : /\ C(j).id \in Nat /\ C(j).id # NoID
                               /\ Eligible(request, C(j)) => Total(request, C(j)) \in Nat
          /\ \A j, k \in 1 .. n : C(j).id = C(k).id => j = k
      BY <2>1, CandidateFacts
    <2>3. decision.selected # NoID /\ LeadsAmong(request, decision, best, n)
      BY <2>1, <2>2 DEF IInv, Progress, Accepted
    <2>4. PICK k \in 1 .. n :
                  /\ Eligible(request, C(k))
                  /\ decision.selected = C(k).id
                  /\ \A j \in 1 .. n : j # k /\ Eligible(request, C(j)) => Better(request, C(k), C(j))
      BY <2>3 DEF LeadsAmong
    <2>5. CASE i = k
      BY <2>2, <2>4, <2>5, EligibleIff
    <2>6. CASE i # k
      <3>1. C(i).id # decision.selected
        BY <2>2, <2>4, <2>6
      <3>2. ASSUME Eligible(request, C(i)), Better(request, C(i), C(k)) PROVE FALSE
        <4>1. Better(request, C(k), C(i))
          BY <2>2, <2>4, <2>6, <3>2
        <4>2. /\ Total(request, C(i)) \in Nat /\ Total(request, C(k)) \in Nat
              /\ C(i).id \in Nat /\ C(k).id \in Nat
          BY <2>2, <2>4, <3>2
        <4> QED
          BY <3>2, <4>1, <4>2 DEF Better
      <3> QED
        BY <2>2, <2>4, <2>6, <3>1, <3>2, EligibleIff
    <2> QED
      BY <2>5, <2>6
  <1> QED
    BY AlwaysIInv, <1>1, PTL

\* The deterministic router never panics, and EvaluateRouter never rejects its decision.
THEOREM DeterministicAccepted == Spec => []DeterministicIsAccepted
  <1>1. IInv => DeterministicIsAccepted
    BY DEF IInv, Progress, DeterministicIsAccepted
  <1> QED
    BY AlwaysIInv, <1>1, PTL
=============================================================================
