--------------------------- MODULE StreamContract ---------------------------
(***************************************************************************)
(* What a ModelStream promises: events in the order that the validator      *)
(* accepts, the end only after a terminal event, and nothing after the end  *)
(* or after a failure.                                                     *)
(***************************************************************************)
EXTENDS ModelEvents

VARIABLES validator,
          phase      \* open, ended (io.EOF) or failed

vars == <<validator, phase>>

Init == validator = NewValidator /\ phase = "open"

Deliver ==
  /\ phase = "open" /\ ~validator.terminal
  /\ \E type \in EventTypes :
       /\ type = "start" <=> ~validator.started
       /\ validator' = [last |-> validator.last + 1, started |-> TRUE, terminal |-> type \in {"stop", "error"}]
  /\ UNCHANGED phase

End == phase = "open" /\ Complete(validator) /\ phase' = "ended" /\ UNCHANGED validator

Fail == phase = "open" /\ phase' = "failed" /\ UNCHANGED validator

Next == Deliver \/ End \/ Fail

Spec == Init /\ [][Next]_vars
=============================================================================
