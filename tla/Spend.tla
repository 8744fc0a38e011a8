------------------------------- MODULE Spend -------------------------------
(* Amounts of spend: SpendBound and Usage, one natural number for each     *)
(* dimension (input tokens, output tokens, cost).                          *)
EXTENDS Naturals

CONSTANT Dims

Amounts == [Dims -> Nat]
Zero == [d \in Dims |-> 0]
Plus(a, b) == [d \in Dims |-> a[d] + b[d]]
Minus(a, b) == [d \in Dims |-> a[d] - b[d]]
Within(a, b) == \A d \in Dims : a[d] <= b[d]
=============================================================================
