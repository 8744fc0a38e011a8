----------------------------- MODULE Observation -----------------------------
(***************************************************************************)
(* Operational records and the observers they are handed to.  Emitters are  *)
(* the goroutines of running executions (parallel tools emit concurrently)  *)
(* or other users of the package; every emission that finds a free slot of  *)
(* the process-wide pool becomes a goroutine, a callback, that holds the    *)
(* slot until the observer returns, fails or panics.  An observer may never *)
(* return.                                                                 *)
(*                                                                         *)
(* A record is abstracted to what NewRecord and Emit tell apart: whether    *)
(* its kind and its attribute keys are known, its label, and whether it     *)
(* has content and a content hash; the hash itself is left out.            *)
(***************************************************************************)
EXTENDS FiniteSets, Classification

CONSTANTS Runs, Emitters, RunOf,   \* the execution each emitter belongs to
          Engine,     \* the emitters that are engines: they emit WithoutCancel
          Polite,     \* the executions whose observer returns once its context is done
          Slots,      \* capacity of observationSlots (64 in the code)
          MaxRecords, \* bound: records of one execution
          Labels,     \* labels a caller gives a record, valid or not
          EngineLabel \* the label of the engine's request

ASSUME ObservationAssumption ==
  /\ RunOf \in [Emitters -> Runs] /\ Engine \subseteq Emitters /\ Polite \subseteq Runs
  /\ Slots \in Nat /\ MaxRecords \in Nat /\ EngineLabel \in Labels \cap Classes

VARIABLES slots,     \* tokens in observationSlots
          callbacks, \* the goroutines Emit has started and that have not ended
          sequence,  \* observationSequence of each execution
          stage,     \* where each emitter is: work, check or emit
          held,      \* the sequence number an emitter is about to use
          cancelled  \* executions whose context is cancelled

observation == <<slots, callbacks, sequence, stage, held, cancelled>>

\* What a caller may hand to Emit.
Raw == [known : BOOLEAN, label : Labels, content : BOOLEAN,
        attrs : {"none", "known", "unknown"}, hash : {"none", "valid", "invalid"}]

\* What an observer may be handed.
Records == [label : Classes, content : BOOLEAN, attrs : BOOLEAN]

Callbacks == [run : Runs, number : 1 .. MaxRecords, attached : BOOLEAN, record : Records,
              at : {"spawned", "observing"}, late : BOOLEAN]

ObserveInit ==
  /\ slots = 0 /\ callbacks = {}
  /\ sequence = [r \in Runs |-> 0]
  /\ stage = [e \in Emitters |-> "work"]
  /\ held = [e \in Emitters |-> 0]
  /\ cancelled = {}

-----------------------------------------------------------------------------
\* Content and attributes are kept below confidential only.
MayShow(label) == Rank(label) < Rank("confidential")

\* NewRecord: nothing for an unknown kind, label or attribute key.
NewRecord(raw) ==
  IF ~raw.known \/ Effective(raw.label) \notin Classes \/ raw.attrs = "unknown" THEN {}
  ELSE LET label == Effective(raw.label) IN
       {[label |-> label,
         content |-> raw.content /\ MayShow(label),
         attrs |-> raw.attrs = "known" /\ MayShow(label)]}

\* The record Emit rebuilds.  A hash that stands for absent content is refused when it is invalid.
Safe(raw) == IF ~raw.content /\ raw.hash = "invalid" THEN {} ELSE NewRecord(raw)

-----------------------------------------------------------------------------
\* observationSequence.Add(1).
Take(e) == sequence' = [sequence EXCEPT ![RunOf[e]] = @ + 1]

\* engineRun.observe numbers the record.  Another caller numbers its own; it is assumed to count too.
Number(e) ==
  /\ stage[e] = "work" /\ sequence[RunOf[e]] < MaxRecords
  /\ Take(e)
  /\ held' = [held EXCEPT ![e] = sequence[RunOf[e]] + 1]
  /\ stage' = [stage EXCEPT ![e] = "check"]
  /\ UNCHANGED <<slots, callbacks, cancelled>>

\* Emit's first check.  The engine's context is never cancelled.
Check(e) ==
  /\ stage[e] = "check"
  /\ stage' = [stage EXCEPT ![e] = IF e \notin Engine /\ RunOf[e] \in cancelled THEN "work" ELSE "emit"]
  /\ UNCHANGED <<slots, callbacks, sequence, held, cancelled>>

\* Faulty variant: the context of the observer is not derived from the caller's.
ContextDoneNever(e) == FALSE

\* A context derived from one that is cancelled is cancelled.
ContextDone(e) == e \notin Engine /\ RunOf[e] \in cancelled

\* Faulty variant: Emit waits for a slot.
AcquireWaiting(e, record) ==
  /\ slots < Slots
  /\ slots' = slots + 1
  /\ callbacks' = callbacks \cup {[run |-> RunOf[e], number |-> held[e], attached |-> e \notin Engine,
                                   record |-> record, at |-> "spawned", late |-> ContextDone(e)]}

\* A free slot is taken for a new callback; without one the record is dropped.
Acquire(e, record) ==
  \/ /\ slots < Slots
     /\ slots' = slots + 1
     /\ callbacks' = callbacks \cup {[run |-> RunOf[e], number |-> held[e], attached |-> e \notin Engine,
                                      record |-> record, at |-> "spawned", late |-> ContextDone(e)]}
  \/ slots >= Slots /\ UNCHANGED <<slots, callbacks>>

\* What an emitter hands to Emit: the engine, an attribute of its own under the label of the
\* request and no content; another caller, anything.
Handed(e) ==
  {raw \in Raw : e \in Engine =>
     raw.known /\ raw.label = EngineLabel /\ raw.attrs = "known" /\ ~raw.content /\ raw.hash = "none"}

\* The rest of Emit.
Emit(e) ==
  /\ stage[e] = "emit"
  /\ stage' = [stage EXCEPT ![e] = "work"]
  /\ \E raw \in Handed(e) :
       \/ Safe(raw) = {} /\ UNCHANGED <<slots, callbacks>>
       \/ \E record \in Safe(raw) : Acquire(e, record)
  /\ UNCHANGED <<sequence, held, cancelled>>

-----------------------------------------------------------------------------
\* The execution's context is cancelled, and with it every context derived from it.
Cancel(r) ==
  /\ r \notin cancelled
  /\ cancelled' = cancelled \cup {r}
  /\ callbacks' = {IF c.run = r /\ c.attached THEN [c EXCEPT !.late = TRUE] ELSE c : c \in callbacks}
  /\ UNCHANGED <<slots, sequence, stage, held>>

\* Faulty variant: a context that is not cancelled with the caller's gets no timeout either.
ExpireAttached(c) ==
  /\ ~c.late /\ c.attached
  /\ callbacks' = (callbacks \ {c}) \cup {[c EXCEPT !.late = TRUE]}
  /\ UNCHANGED <<slots, sequence, stage, held, cancelled>>

\* The timeout of WithTimeout.
Expire(c) ==
  /\ ~c.late
  /\ callbacks' = (callbacks \ {c}) \cup {[c EXCEPT !.late = TRUE]}
  /\ UNCHANGED <<slots, sequence, stage, held, cancelled>>

\* Faulty variant: a panic skips the release of the slot.
ReleaseUnlessPanic(c) == callbacks' = callbacks \ {c} /\ slots' \in {slots, slots - 1}

\* The deferred function: recover, cancel and the slot given back.
Release(c) == callbacks' = callbacks \ {c} /\ slots' = slots - 1

\* The goroutine runs: the observer is called unless the context is done.
Start(c) ==
  /\ c.at = "spawned"
  /\ \/ c.late /\ Release(c)
     \/ ~c.late /\ callbacks' = (callbacks \ {c}) \cup {[c EXCEPT !.at = "observing"]} /\ UNCHANGED slots
  /\ UNCHANGED <<sequence, stage, held, cancelled>>

\* Observe returns, fails or panics.
Return(c) ==
  /\ c.at = "observing"
  /\ Release(c)
  /\ UNCHANGED <<sequence, stage, held, cancelled>>

ObserveNext ==
  \/ \E e \in Emitters : Number(e) \/ Check(e) \/ Emit(e)
  \/ \E r \in Runs : Cancel(r)
  \/ \E c \in callbacks : Expire(c) \/ Start(c) \/ Return(c)

ObserveSpec == ObserveInit /\ [][ObserveNext]_observation

\* Goroutines are scheduled and timers fire.  Only a polite observer is sure to return, and only
\* once its context is done.
Fairness ==
  /\ \A e \in Emitters : WF_observation(Check(e)) /\ WF_observation(Emit(e))
  /\ \A r \in Runs, n \in 1 .. MaxRecords :
       /\ WF_observation(\E c \in callbacks : c.run = r /\ c.number = n /\ (Expire(c) \/ Start(c)))
       /\ WF_observation(\E c \in callbacks : c.run = r /\ c.number = n /\ r \in Polite /\ c.late /\ Return(c))

FairObserveSpec == ObserveSpec /\ Fairness

-----------------------------------------------------------------------------
\* The state of observations: contents of the pool, callbacks and their records.
TypeOK ==
  /\ slots \in Nat /\ callbacks \subseteq Callbacks
  /\ sequence \in [Runs -> 0 .. MaxRecords]
  /\ stage \in [Emitters -> {"work", "check", "emit"}]
  /\ held \in [Emitters -> 0 .. MaxRecords]
  /\ cancelled \subseteq Runs

\* The pool's tokens are the callbacks in flight, whatever observers do, and there are never more
\* than its capacity ("at most 64 stuck callbacks can remain").
SlotsAreAccounted == slots = Cardinality(callbacks) /\ slots <= Slots

\* No two records of an execution carry the same number, though its goroutines number them
\* concurrently ("Sequence orders records within one execution").
NumbersAreUnique ==
  /\ \A c, d \in callbacks : c.run = d.run /\ c.number = d.number => c = d
  /\ \A e \in Emitters : stage[e] \in {"check", "emit"} =>
       /\ \A c \in callbacks : c.run = RunOf[e] => c.number # held[e]
       /\ \A f \in Emitters \ {e} : stage[f] \in {"check", "emit"} /\ RunOf[f] = RunOf[e] => held[f] # held[e]

\* Cancelling a context that was handed to Emit ends the observation it started, also when the
\* cancellation falls between Emit's check and the derivation of the observer's context.
CancelReachesObservers == \A c \in callbacks : c.attached /\ c.run \in cancelled => c.late

\* Once a context that was handed to Emit is cancelled, no observer is called any more with a record of
\* it, though emitters that had passed Emit's check and goroutines that had not begun are still on
\* their way (the derivation of the observer's context, and the goroutine's own check of it).
CancelledIsNotShown ==
  [][\A c \in callbacks' : c.at = "observing" /\ c.attached /\ c.run \in cancelled =>
       \E d \in callbacks : d.run = c.run /\ d.number = c.number /\ d.at = "observing"]_observation

\* "Emit never waits for an exporter": executions end even when every slot is held by an observer
\* that never returns.
EmittersFinish == \A e \in Emitters : stage[e] = "check" ~> stage[e] = "work"

\* Slots held for observers that return on cancellation all come back: what remains in flight in the
\* end are callbacks of observers that ignore it.
OnlyStuckRemain == <>[](\A c \in callbacks : c.run \notin Polite)
=============================================================================
