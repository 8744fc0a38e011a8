------------------------------ MODULE MCRouting ------------------------------
(* Requests of up to three candidates that differ in what the gates and the score read. *)
EXTENDS Routing

MCWord == 1024

Weights(q, a, c, l, r) ==
  [k \in Components |-> CASE k = "quality"      -> q
                          [] k = "availability" -> a
                          [] k = "cost"         -> c
                          [] k = "latency"      -> l
                          [] k = "locality"     -> r
                          [] OTHER              -> 0]

MCWeights == {Weights(500, 100, 150, 150, 100), Weights(0, 1000, 0, 0, 0)}

\* Numbers at the edges of the gates: no slot, one, the cap of ten, beyond it; cost and
\* latency at their limit and one past it; a start before, at and after the observation.
Candidates ==
  {[id |-> 1, flaws |-> f, local |-> l, slots |-> s, availableAt |-> t, cost |-> c,
    latency |-> d, quality |-> 1000, cache |-> 0, load |-> 0] :
     f \in {{}, {"policy.egress.not_allowed"}}, l \in BOOLEAN, s \in {0, 1, 12},
     t \in {-5, 500}, c \in {1000, 1001}, d \in {500, 501}}

Few ==
  {[id |-> 1, flaws |-> f, local |-> TRUE, slots |-> s, availableAt |-> 0, cost |-> 0,
    latency |-> 0, quality |-> 1000, cache |-> 0, load |-> 0] :
     f \in {{}, {"health.unhealthy", "policy.execution.not_allowed"}}, s \in {1, 2}}

Named(c, n) == [c EXCEPT !.id = n]

MCRequests ==
  {[maxCost |-> m, window |-> 1000, weights |-> w, candidates |-> <<Named(c, n), Named(d, 3 - n)>>] :
     m \in {1000}, w \in MCWeights, n \in {1, 2}, c \in Candidates,
     d \in {e \in Candidates : e.flaws = {} /\ e.local /\ e.slots > 0 /\ e.cost = 1000
                                 /\ e.latency = 500}}
  \union
  {[maxCost |-> 0, window |-> 1000, weights |-> w,
    candidates |-> <<Named(c, p[1]), Named(d, p[2]), Named(e, p[3])>>] :
     w \in MCWeights, c \in Few, d \in Few, e \in Few,
     p \in {q \in [1 .. 3 -> 1 .. 3] : \A i, j \in 1 .. 3 : q[i] = q[j] => i = j}}

\* A caller's router may drop an assessment, exclude or admit a candidate against the gates,
\* and select any candidate or none.
MCCustomDecisions(r) ==
  LET n == Len(r.candidates)
      Told(i) == {Assessment(r, r.candidates[i]),
                  [id |-> r.candidates[i].id, exclusion |-> <<"health.draining">>, score |-> <<>>],
                  [id |-> r.candidates[i].id, exclusion |-> <<>>,
                   score |-> <<[k \in Components |-> 1000], 1000>>]}
      All(i) == IF i > n THEN {<<>>} ELSE {<<a>> : a \in Told(i)}
  IN {[assessments |-> a, selected |-> s] :
        a \in {x \o y \o z : x \in All(1), y \in All(2), z \in All(3)}
                \union {<<Assessment(r, r.candidates[1])>>},
        s \in 0 .. n}
=============================================================================
