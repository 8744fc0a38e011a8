---------------------------- MODULE MCObservation ----------------------------
(* Two executions: one with two parallel emitters and a polite observer,   *)
(* one whose observer may never return and whose context is handed to Emit. *)
EXTENDS Observation, TLC

CONSTANTS p, q, g, h, u

MCRuns == {p, q}
MCEmitters == {g, h, u}
MCRunOf == (g :> p) @@ (h :> p) @@ (u :> q)
=============================================================================
