------------------------ MODULE MCDurableExecution ------------------------
(* Small instances of DurableExecution: two engines that may crash, resume *)
(* and race, one spend dimension, two tool calls per response.             *)
EXTENDS DurableExecution, TLC, FiniteSets

CONSTANTS a, b

MCEngines == {a, b}
MCDims == {"tokens"}
MCMaxSpend == [d \in MCDims |-> 2]
MCSpends == [MCDims -> 0..1]
MCSymmetry == Permutations(MCEngines)
=============================================================================
