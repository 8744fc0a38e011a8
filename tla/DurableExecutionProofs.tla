---------------------- MODULE DurableExecutionProofs ----------------------
(* Machine-checked proofs that DurableExecution keeps its promises for any *)
(* number of engines, any batch size, any call limit and any spend budget. *)
EXTENDS DurableExecution, TLAPS

(* Facts about the effects of a turn.                                      *)
LEMMA EffectFacts ==
    /\ Summary \in Effects /\ Model \in Effects
    /\ Summary # Model
    /\ Summary \in Calls /\ Model \in Calls
    /\ \A k \in Calls : k = Summary \/ k = Model
    /\ \A k \in Effects : NoPlan[k] = "none"
    /\ NoPlan \in [Effects -> {"none", "intended", "performed", "recorded"}]
BY DEF Effects, Calls, Summary, Model, NoPlan

(* Sums and differences of amounts are amounts.                            *)
LEMMA AmountFacts ==
    /\ Zero \in Amounts
    /\ \A a, b \in Amounts : Plus(a, b) \in Amounts
    /\ \A a, b \in Amounts : Within(a, b) => Minus(b, a) \in Amounts
BY DEF Zero, Amounts, Plus, Minus, Within

(* Every step keeps the types.                                             *)
LEMMA TypeStep == TypeOK /\ [Next]_vars => TypeOK'
<1> SUFFICES ASSUME TypeOK, [Next]_vars PROVE TypeOK'
    OBVIOUS
<1> USE EffectFacts, AmountFacts, SpendAssumption DEF TypeOK
<1>1. CASE UNCHANGED vars
    BY <1>1 DEF vars, durable, world, local
<1>2. ASSUME NEW e \in Engines, NEW ack \in BOOLEAN, Create(e, ack) PROVE TypeOK'
    BY <1>2 DEF Create, After, world, local
<1>3. ASSUME NEW e \in Engines, Load(e) PROVE TypeOK'
    BY <1>3 DEF Load, durable, world
<1>4. ASSUME NEW e \in Engines, NEW ack \in BOOLEAN, Claim(e, ack) PROVE TypeOK'
    <2>1. CASE ack
        BY <1>4, <2>1 DEF Claim, Append, After, durable, world, local
    <2>2. CASE ~ack
        <3>1. Reset(e) /\ holds' = {} /\ pc' = [pc EXCEPT ![e] = "idle"] /\ UNCHANGED <<durable, world>>
            BY <1>4, <2>2 DEF Claim, Append, After
        <3> QED
            BY <3>1 DEF Reset, durable, world
    <2> QED
        BY <2>1, <2>2
<1>5. ASSUME NEW e \in Engines, NEW ack \in BOOLEAN, NEW keep \in BOOLEAN, Note(e, ack, keep)
      PROVE TypeOK'
    BY <1>5 DEF Note, Append, world, local
<1>6. ASSUME NEW e \in Engines, NEW k \in Effects, NEW b \in Spends \cup {Zero},
             NEW ack \in BOOLEAN, Intend(e, k, b, ack)
      PROVE TypeOK'
    BY <1>6 DEF Intend, Append, After, world
<1>7. ASSUME NEW e \in Engines, NEW k \in Effects, Perform(e, k) PROVE TypeOK'
    BY <1>7 DEF Perform, durable
<1>8. ASSUME NEW e \in Engines, NEW u \in Spends, Report(e, u) PROVE TypeOK'
    BY <1>8 DEF Report, durable
<1>9. ASSUME NEW e \in Engines, NEW ack \in BOOLEAN, Compact(e, ack) PROVE TypeOK'
    BY <1>9 DEF Compact, Append, After, world
<1>10. ASSUME NEW e \in Engines, NEW ack \in BOOLEAN, Checkpoint(e, ack) PROVE TypeOK'
    BY <1>10 DEF Checkpoint, Append, After, world
<1>11. ASSUME NEW e \in Engines, Stop(e) PROVE TypeOK'
    BY <1>11 DEF Stop, durable, world, local
<1>12. ASSUME NEW e \in Engines, Finish(e) PROVE TypeOK'
    BY <1>12 DEF Finish, Reset, world
<1>13. ASSUME NEW e \in Engines, Leave(e) PROVE TypeOK'
    BY <1>13 DEF Leave, Reset, durable, world
<1> QED
    BY <1>1, <1>2, <1>3, <1>4, <1>5, <1>6, <1>7, <1>8, <1>9, <1>10, <1>11, <1>12, <1>13, SMTT(60) DEF
       Next

(* The types hold in every state of every execution.                       *)
THEOREM TypeCorrect == Spec => []TypeOK
<1>1. Init => TypeOK
    BY EffectFacts, AmountFacts DEF Init, TypeOK
<1> QED
    BY <1>1, TypeStep, PTL DEF Spec

(* Engine.Run opens the stream: the only engine that holds it then knows   *)
(* it.                                                                     *)
LEMMA CreateStep ==
    ASSUME TypeOK, TypeOK', Consistent, NEW e \in Engines, NEW ack \in BOOLEAN,
           Create(e, ack)
    PROVE Consistent'
<1>1. Fencing'
    BY DEF TypeOK, Consistent, Create, After, local, Fencing, IsReset
<1>2. ReadyKnowsStream'
    BY DEF Consistent, Create, world, local, Fencing, IsReset, ReadyKnowsStream
<1>3. BusyKnowsWorld'
    BY DEF Consistent, Create, After, Fencing, BusyKnowsWorld
<1>4. AtMostOnce' /\ ResumePointCoversEffects' /\ SpendWithinBudget' /\ CallsWithinLimit'
    BY DEF Consistent, Create, world, AtMostOnce, ResumePointCoversEffects,
       SpendWithinBudget, CallsWithinLimit
<1> QED
    BY <1>1, <1>2, <1>3, <1>4 DEF Consistent

(* A resumer that loads the stream knows what it says, and the resume      *)
(* point it found covers all effects.                                      *)
LEMMA LoadStep ==
    ASSUME TypeOK, TypeOK', Consistent, NEW e \in Engines,
           Load(e)
    PROVE Consistent'
<1>1. Fencing'
    BY DEF TypeOK, Consistent, Load, durable, Fencing, IsReset
<1>2. ReadyKnowsStream'
    BY DEF TypeOK, Consistent, Load, durable, world, Fencing, IsReset, ReadyKnowsStream,
       ResumePointCoversEffects
<1>3. BusyKnowsWorld'
    BY DEF Consistent, Load, Fencing, BusyKnowsWorld
<1>4. AtMostOnce' /\ ResumePointCoversEffects' /\ SpendWithinBudget' /\ CallsWithinLimit'
    BY DEF Consistent, Load, durable, world, AtMostOnce, ResumePointCoversEffects,
       SpendWithinBudget, CallsWithinLimit
<1> QED
    BY <1>1, <1>2, <1>3, <1>4 DEF Consistent

(* The claim fences every other engine off.                                *)
LEMMA ClaimStep ==
    ASSUME TypeOK, TypeOK', Consistent, NEW e \in Engines, NEW ack \in BOOLEAN,
           Claim(e, ack)
    PROVE Consistent'
<1>1. Fencing'
    BY DEF TypeOK, Consistent, Claim, Append, After, Reset, durable, local, Fencing, IsReset
<1>2. ReadyKnowsStream'
    BY DEF Consistent, Claim, Append, durable, world, local, ReadyKnowsStream
<1>3. BusyKnowsWorld'
    BY DEF Consistent, Claim, Append, After, Fencing, BusyKnowsWorld
<1>4. AtMostOnce' /\ ResumePointCoversEffects' /\ SpendWithinBudget' /\ CallsWithinLimit'
    BY DEF Consistent, Claim, durable, world, AtMostOnce, ResumePointCoversEffects,
       SpendWithinBudget, CallsWithinLimit
<1> QED
    BY <1>1, <1>2, <1>3, <1>4 DEF Consistent

(* A record that is no intent changes nothing an engine relies on.         *)
LEMMA NoteStep ==
    ASSUME TypeOK, TypeOK', Consistent, NEW e \in Engines, NEW ack \in BOOLEAN, NEW keep \in BOOLEAN,
           Note(e, ack, keep)
    PROVE Consistent'
<1>1. Fencing'
    BY DEF Consistent, Note, Append, local, Fencing, IsReset
<1>2. ReadyKnowsStream'
    BY DEF Consistent, Note, Append, world, local, ReadyKnowsStream
<1>3. BusyKnowsWorld'
    BY DEF Consistent, Note, world, local, BusyKnowsWorld
<1>4. AtMostOnce' /\ ResumePointCoversEffects' /\ SpendWithinBudget' /\ CallsWithinLimit'
    BY DEF Consistent, Note, world, AtMostOnce, ResumePointCoversEffects, SpendWithinBudget,
       CallsWithinLimit
<1> QED
    BY <1>1, <1>2, <1>3, <1>4 DEF Consistent

(* An intent invalidates the resume point, so its engine is alone until    *)
(* the next checkpoint.                                                    *)
LEMMA IntendStep ==
    ASSUME TypeOK, TypeOK', Consistent, NEW e \in Engines, NEW k \in Effects, NEW b \in Spends \cup {Zero}, NEW ack \in BOOLEAN,
           Intend(e, k, b, ack)
    PROVE Consistent'
<1>1. Fencing'
    BY DEF TypeOK, Consistent, Intend, Append, After, Fencing, IsReset
<1>2. ReadyKnowsStream'
    BY DEF TypeOK, Intend, Append, After, ReadyKnowsStream
<1>3. BusyKnowsWorld'
    BY EffectFacts, SMTT(60) DEF TypeOK, Consistent, Amounts, Intend, MayIntend, Append, After, world,
       Fencing, ReadyKnowsStream, BusyKnowsWorld, SpendWithinBudget, Within, Plus, Zero
<1>4. SpendWithinBudget'
    BY SpendAssumption DEF TypeOK, Consistent, Amounts, Intend, Append, world,
       ReadyKnowsStream, BusyKnowsWorld, SpendWithinBudget, Within, Plus, Zero
<1>5. AtMostOnce' /\ ResumePointCoversEffects' /\ CallsWithinLimit'
    BY DEF Consistent, Intend, world, AtMostOnce, ResumePointCoversEffects, CallsWithinLimit
<1> QED
    BY <1>1, <1>2, <1>3, <1>4, <1>5 DEF Consistent

(* An intended effect has not happened before, and a call has room in the  *)
(* limit.                                                                  *)
LEMMA PerformStep ==
    ASSUME TypeOK, TypeOK', Consistent, NEW e \in Engines, NEW k \in Effects,
           Perform(e, k)
    PROVE Consistent'
<1>1. k \in Calls => calls + 1 <= MaxModelCalls
    <2>1. ASSUME plan[e][Model] = "intended" PROVE calls + 1 <= MaxModelCalls
        BY <2>1 DEF TypeOK, Consistent, BusyKnowsWorld, Perform
    <2>2. ASSUME plan[e][Summary] = "intended" PROVE calls + 1 <= MaxModelCalls
        BY <2>2, CallsAssumption DEF TypeOK, Consistent, BusyKnowsWorld, Perform
    <2> QED
        BY <2>1, <2>2, EffectFacts DEF Perform
<1>2. Fencing'
    BY DEF Consistent, Perform, durable, Fencing, IsReset
<1>3. ReadyKnowsStream'
    BY DEF Consistent, Perform, Fencing, ReadyKnowsStream
<1>4. BusyKnowsWorld'
    BY EffectFacts, SMTT(60) DEF TypeOK, Consistent, Perform, durable, Fencing, BusyKnowsWorld, Plus,
       Zero
<1>5. AtMostOnce'
    BY DEF Consistent, Perform, BusyKnowsWorld, AtMostOnce
<1>6. ResumePointCoversEffects'
    BY DEF Consistent, Perform, durable, Fencing, ResumePointCoversEffects
<1>7. CallsWithinLimit'
    BY <1>1 DEF Consistent, Perform, CallsWithinLimit
<1>8. SpendWithinBudget'
    BY DEF Consistent, Perform, durable, SpendWithinBudget
<1> QED
    BY <1>2, <1>3, <1>4, <1>5, <1>6, <1>7, <1>8 DEF Consistent

(* Usage within the reservation stays within the budget.                   *)
LEMMA ReportStep ==
    ASSUME TypeOK, TypeOK', Consistent, NEW e \in Engines, NEW u \in Spends,
           Report(e, u)
    PROVE Consistent'
<1>1. Fencing'
    BY DEF Consistent, Report, durable, Fencing, IsReset
<1>2. ReadyKnowsStream'
    BY DEF Consistent, Report, Fencing, ReadyKnowsStream
<1>3. BusyKnowsWorld'
    BY SpendAssumption, SMTT(60) DEF TypeOK, Consistent, Amounts, Report, durable, Fencing,
       BusyKnowsWorld, Plus, Minus
<1>4. SpendWithinBudget'
    BY SpendAssumption DEF TypeOK, Consistent, Amounts, Report, durable, BusyKnowsWorld,
       SpendWithinBudget, Within, Plus
<1>5. AtMostOnce' /\ ResumePointCoversEffects' /\ CallsWithinLimit'
    BY DEF Consistent, Report, durable, AtMostOnce, ResumePointCoversEffects,
       CallsWithinLimit
<1> QED
    BY <1>1, <1>2, <1>3, <1>4, <1>5 DEF Consistent

(* The compaction record makes the stream count the summary call.          *)
LEMMA CompactStep ==
    ASSUME TypeOK, TypeOK', Consistent, NEW e \in Engines, NEW ack \in BOOLEAN,
           Compact(e, ack)
    PROVE Consistent'
<1>1. Fencing'
    BY DEF Consistent, Compact, Append, After, Fencing, IsReset
<1>2. ReadyKnowsStream'
    BY DEF Compact, Append, After, ReadyKnowsStream
<1>3. BusyKnowsWorld'
    BY SMTT(60) DEF TypeOK, Consistent, Compact, After, world, Fencing, BusyKnowsWorld
<1>4. AtMostOnce' /\ ResumePointCoversEffects' /\ SpendWithinBudget' /\ CallsWithinLimit'
    BY DEF Consistent, Compact, world, AtMostOnce, ResumePointCoversEffects,
       SpendWithinBudget, CallsWithinLimit
<1> QED
    BY <1>1, <1>2, <1>3, <1>4 DEF Consistent

(* A checkpoint counts every call made and has every effect behind it.     *)
LEMMA CheckpointStep ==
    ASSUME TypeOK, TypeOK', Consistent, NEW e \in Engines, NEW ack \in BOOLEAN,
           Checkpoint(e, ack)
    PROVE Consistent'
<1>1. calls = turn[e] + extra /\ myExtra[e] = extra /\ mine[e] = reserved
    BY DEF TypeOK, Consistent, BusyKnowsWorld, Checkpoint
<1>2. Fencing'
    BY DEF TypeOK, Consistent, Checkpoint, Append, After, Fencing, IsReset
<1>3. ReadyKnowsStream'
    <2>1. CASE ~ack
        BY <2>1 DEF Checkpoint, Append, ReadyKnowsStream
    <2>2. CASE ack
        <3>1. holds' = {e} /\ plan'[e] = NoPlan /\ turn'[e] = turn[e] + 1
            BY <2>2 DEF TypeOK, Checkpoint, Append
        <3>2. \A x \in performed : x[1] \in Nat /\ x[1] <= turn[e]
            BY DEF TypeOK, Consistent, BusyKnowsWorld, Checkpoint
        <3> QED
            BY <1>1, <3>1, <3>2 DEF TypeOK, Checkpoint, world, ReadyKnowsStream
    <2> QED
        BY <2>1, <2>2
<1>4. BusyKnowsWorld'
    BY SMTT(60) DEF TypeOK, Consistent, Checkpoint, After, Fencing, BusyKnowsWorld
<1>5. ResumePointCoversEffects'
    BY <1>1 DEF Consistent, Checkpoint, world, ResumePointCoversEffects, BusyKnowsWorld
<1>6. AtMostOnce' /\ SpendWithinBudget' /\ CallsWithinLimit'
    BY DEF Consistent, Checkpoint, world, AtMostOnce, SpendWithinBudget, CallsWithinLimit
<1> QED
    BY <1>2, <1>3, <1>4, <1>5, <1>6 DEF Consistent

(* An engine that stops loses its right to effects and nothing else.       *)
LEMMA StopStep ==
    ASSUME TypeOK, TypeOK', Consistent, NEW e \in Engines,
           Stop(e)
    PROVE Consistent'
<1>1. Fencing'
    BY DEF Consistent, Stop, durable, local, Fencing, IsReset
<1>2. ReadyKnowsStream'
    BY DEF Consistent, Stop, durable, world, local, ReadyKnowsStream
<1>3. BusyKnowsWorld'
    BY DEF Consistent, Stop, durable, world, local, BusyKnowsWorld
<1>4. AtMostOnce' /\ ResumePointCoversEffects' /\ SpendWithinBudget' /\ CallsWithinLimit'
    BY DEF Consistent, Stop, durable, world, AtMostOnce, ResumePointCoversEffects,
       SpendWithinBudget, CallsWithinLimit
<1> QED
    BY <1>1, <1>2, <1>3, <1>4 DEF Consistent

(* After the terminal records no engine holds the stream.                  *)
LEMMA FinishStep ==
    ASSUME TypeOK, TypeOK', Consistent, NEW e \in Engines,
           Finish(e)
    PROVE Consistent'
<1>1. Fencing'
    BY DEF TypeOK, Consistent, Finish, Reset, Fencing, IsReset
<1>2. ReadyKnowsStream'
    BY DEF Finish, ReadyKnowsStream
<1>3. BusyKnowsWorld'
    BY DEF Consistent, Finish, Fencing, BusyKnowsWorld
<1>4. AtMostOnce' /\ ResumePointCoversEffects' /\ SpendWithinBudget' /\ CallsWithinLimit'
    BY DEF Consistent, Finish, world, AtMostOnce, ResumePointCoversEffects,
       SpendWithinBudget, CallsWithinLimit
<1> QED
    BY <1>1, <1>2, <1>3, <1>4 DEF Consistent

(* An engine that returns or dies takes nothing with it.                   *)
LEMMA LeaveStep ==
    ASSUME TypeOK, TypeOK', Consistent, NEW e \in Engines,
           Leave(e)
    PROVE Consistent'
<1>1. Fencing'
    BY DEF TypeOK, Consistent, Leave, Reset, durable, Fencing, IsReset
<1>2. ReadyKnowsStream'
    BY DEF Consistent, Leave, Reset, durable, world, ReadyKnowsStream
<1>3. BusyKnowsWorld'
    BY SMTT(60) DEF TypeOK, Consistent, Leave, Reset, durable, world, BusyKnowsWorld
<1>4. AtMostOnce' /\ ResumePointCoversEffects' /\ SpendWithinBudget' /\ CallsWithinLimit'
    BY DEF Consistent, Leave, durable, world, AtMostOnce, ResumePointCoversEffects,
       SpendWithinBudget, CallsWithinLimit
<1> QED
    BY <1>1, <1>2, <1>3, <1>4 DEF Consistent

(* Every step keeps the invariant.                                         *)
LEMMA ConsistentStep == TypeOK /\ TypeOK' /\ Consistent /\ [Next]_vars => Consistent'
<1> SUFFICES ASSUME TypeOK, TypeOK', Consistent, [Next]_vars PROVE Consistent'
    OBVIOUS
<1>1. CASE UNCHANGED vars
    BY <1>1 DEF vars, durable, world, local, Consistent, Fencing, IsReset, ReadyKnowsStream,
       BusyKnowsWorld, AtMostOnce, ResumePointCoversEffects, SpendWithinBudget,
       CallsWithinLimit
<1>2. CASE Next
    BY <1>2, CreateStep, LoadStep, ClaimStep, NoteStep, IntendStep, PerformStep, ReportStep,
       CompactStep, CheckpointStep, StopStep, FinishStep, LeaveStep DEF Next
<1> QED
    BY <1>1, <1>2

(* The invariant holds in every state of every execution.                  *)
THEOREM AlwaysConsistent == Spec => []Consistent
<1>1. Init => Consistent
    BY SpendAssumption, CallsAssumption DEF Init, Consistent, Fencing, IsReset,
       ReadyKnowsStream, BusyKnowsWorld, AtMostOnce, ResumePointCoversEffects,
       SpendWithinBudget, CallsWithinLimit, Within, Zero, Amounts
<1> QED
    BY <1>1, TypeCorrect, ConsistentStep, PTL DEF Spec

(* No external effect of any turn happens twice, for any number of engines *)
(* that run, crash, resume and race on one stream, with writes that may    *)
(* commit without their writer learning of it.                             *)
THEOREM EffectsAtMostOnce == Spec => []AtMostOnce
BY AlwaysConsistent, PTL DEF Consistent

(* A resume point has all effects behind it and counts all calls.          *)
THEOREM ResumePointsCoverEffects == Spec => []ResumePointCoversEffects
BY AlwaysConsistent, PTL DEF Consistent

(* Usage stays within reservations and reservations within the budget, for *)
(* any set of spend dimensions.                                            *)
THEOREM SpendStaysWithinBudget == Spec => []SpendWithinBudget
BY AlwaysConsistent, PTL DEF Consistent

(* Turn and summary calls together stay within the call limit.             *)
THEOREM CallsStayWithinLimit == Spec => []CallsWithinLimit
BY AlwaysConsistent, PTL DEF Consistent

(* Once the terminal records are committed, nothing is written and no      *)
(* effect happens any more: a step of an engine that is still running      *)
(* changes neither the stream nor the world.                               *)
THEOREM TerminalStaysFinal == Spec => TerminalIsFinal
<1>1. Consistent /\ [Next]_vars
      => [state = "done" => UNCHANGED <<durable, performed, calls, spent>>]_vars
    <2> SUFFICES ASSUME Consistent, Next, state = "done"
                 PROVE UNCHANGED <<durable, performed, calls, spent>>
        OBVIOUS
    <2>1. holds = {} /\ \A e \in Engines : pc[e] # "busy"
        BY DEF Consistent, Fencing
    <2> QED
        BY <2>1, SMTT(60) DEF Next, Create, Load, Claim, Note, Intend, Perform, Report, Compact,
           Checkpoint, Stop, Finish, Leave, Append, world
<1> QED
    BY <1>1, AlwaysConsistent, PTL DEF Spec, TerminalIsFinal
=============================================================================
