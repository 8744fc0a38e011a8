---------------------------- MODULE MCEngineRun ----------------------------
(* Small instances of EngineRun: one spend dimension, unit amounts.        *)
EXTENDS EngineRun, TLC

CONSTANTS a, b

MCTwo == {a, b}
MCOne == {a}
MCTurns == 1..MaxModelCalls
MCDims == {"tokens"}
MCMaxSpend == [d \in MCDims |-> 2]
MCRoom == [d \in MCDims |-> 3]
MCUnit == [MCDims -> {1}]
MCSpends == [MCDims -> 0..1]
MCSymmetry == Permutations(MCTwo)
=============================================================================
