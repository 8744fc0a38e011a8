---------------------------- MODULE SandboxedTool ----------------------------
(***************************************************************************)
(* A side-effecting tool handler and the confinement it runs commands in,   *)
(* used by concurrent calls and closed at any moment.  Calls are goroutines *)
(* that execute the tool once each, as engineToolHandler.Execute does:      *)
(* PrepareSandbox, the verdict, then the handler's own Execute.  Closers    *)
(* are goroutines that close the handler.                                  *)
(*                                                                         *)
(* A confinement that is still being probed is private to the call that     *)
(* holds the handler's mutex, and its context is cancelled exactly when it  *)
(* is shut, so the published confinement is box, shut and active.           *)
(***************************************************************************)
EXTENDS Naturals, FiniteSets

CONSTANTS Calls, Closers,
          Free,   \* the owner of a mutex nobody holds
          Helped, \* the tool runs the trusted helper (write, edit), not a command
          Unwritable  \* calls whose report the store refuses, or does not take in time

ASSUME ToolAssumption == Calls \cap Closers = {} /\ Free \notin Calls \cup Closers /\ Helped \in BOOLEAN
                         /\ Unwritable \subseteq Calls

VARIABLES mu,        \* owner of handler.mu
          closed,    \* handler.closed
          box,       \* handler.box # nil
          shut,      \* confinement.closed, confinement.ctx cancelled
          active,    \* confinement.active: calls within Run
          pc,        \* where each goroutine is
          ended,     \* calls whose context is done
          outcome,   \* of a call's command: started, failed
          effects,   \* history: calls that started a process
          events     \* sandbox events recorded

vars == <<mu, closed, box, shut, active, pc, ended, outcome, effects, events>>
handler == <<mu, closed, box>>
confinement == <<shut, active>>
history == <<effects, events>>

NotRun == [started |-> FALSE, failed |-> FALSE]

Init ==
  /\ mu = Free /\ closed = FALSE /\ box = FALSE
  /\ shut = FALSE /\ active = {}
  /\ pc = [p \in Calls \cup Closers |-> IF p \in Calls THEN "prepare" ELSE "close"]
  /\ ended = {}
  /\ outcome = [c \in Calls |-> NotRun]
  /\ effects = {} /\ events = {}

Goto(p, next) == pc' = [pc EXCEPT ![p] = next]

\* RecordSandboxEvent: the sink records the event or fails.
Recorded(phase, p) == events' = events \cup {[phase |-> phase, by |-> p]}

-----------------------------------------------------------------------------
\* Faulty variant: a closed handler establishes a new sandbox.
MayPrepareClosed == mu = Free

\* A handler that is not closed, whose mutex is free.
MayPrepare == mu = Free /\ ~closed

\* Where a call goes on after PrepareSandbox.  After the engine's it needs an established
\* sandbox, a verdict and a valid input; after the one of Execute, a helper or arguments.
Prepared(c, established) ==
  IF pc[c] \in {"execute", "probe_again", "establish_again"} THEN {"run", "refused"}
  ELSE IF established THEN {"execute", "refused"} ELSE {"refused"}

\* PrepareSandbox with nothing to establish: closed, or established before.
Prepare(c) ==
  /\ pc[c] \in {"prepare", "execute"}
  /\ mu = Free
  /\ \/ ~MayPrepare /\ Goto(c, "refused")
     \/ MayPrepare /\ box /\ \E next \in Prepared(c, ~shut) : Goto(c, next)
  /\ UNCHANGED <<handler, confinement, ended, outcome, history>>

\* Else it establishes one, and holds the mutex for as long as that takes.
BeginEstablish(c) ==
  /\ pc[c] \in {"prepare", "execute"}
  /\ MayPrepare /\ ~box
  /\ mu' = c
  /\ Goto(c, IF pc[c] = "prepare" THEN "probe" ELSE "probe_again")
  /\ UNCHANGED <<closed, box, confinement, ended, outcome, history>>

\* The probe finds the platform, root and helper usable, or not: then the denial is recorded.
Probe(c) ==
  /\ pc[c] \in {"probe", "probe_again"}
  /\ \/ /\ c \notin ended
        /\ Goto(c, IF pc[c] = "probe" THEN "establish" ELSE "establish_again")
        /\ UNCHANGED <<mu, events>>
     \/ /\ mu' = Free
        /\ Goto(c, "refused")
        /\ Recorded("denied", c) \/ UNCHANGED events
  /\ UNCHANGED <<closed, box, confinement, ended, outcome, effects>>

\* Only a recorded establishment publishes the sandbox.
Establish(c) ==
  /\ pc[c] \in {"establish", "establish_again"}
  /\ mu' = Free
  /\ \/ /\ c \notin ended
        /\ Recorded("established", c)
        /\ box' = TRUE
        /\ \E next \in Prepared(c, TRUE) : Goto(c, next)
     \/ Goto(c, "refused") /\ UNCHANGED <<box, events>>
  /\ UNCHANGED <<closed, confinement, ended, outcome, effects>>

-----------------------------------------------------------------------------
\* confinement.Run refuses a command once it is closed.
Refuses(c) == shut

\* The command enters the confinement, whatever happened to it since PrepareSandbox.
EnterRun(c) ==
  /\ pc[c] = "run"
  /\ IF Refuses(c)
     THEN /\ Goto(c, "report")
          /\ outcome' = [outcome EXCEPT ![c] = [started |-> FALSE, failed |-> TRUE]]
          /\ UNCHANGED active
     ELSE /\ Goto(c, "start")
          /\ active' = active \cup {c}
          /\ UNCHANGED outcome
  /\ UNCHANGED <<handler, shut, ended, history>>

\* The process does not start: its context is done, or the system refuses.
NotStarted(c) ==
  /\ pc[c] = "start"
  /\ Goto(c, "report")
  /\ active' = active \ {c}
  /\ outcome' = [outcome EXCEPT ![c] = [started |-> FALSE, failed |-> TRUE]]
  /\ UNCHANGED <<handler, shut, ended, history>>

\* It starts.  The confinement may have been shut since: the cancellation of the command's
\* context runs in a goroutine of its own.
Start(c) ==
  /\ pc[c] = "start"
  /\ c \notin ended
  /\ Goto(c, "running")
  /\ effects' = effects \cup {c}
  /\ UNCHANGED <<handler, confinement, ended, outcome, events>>

\* The process has exited, and Run returns.
Returns(c, failed) ==
  /\ Goto(c, "report")
  /\ active' = active \ {c}
  /\ outcome' = [outcome EXCEPT ![c] = [started |-> TRUE, failed |-> failed]]
  /\ UNCHANGED <<handler, shut, ended, history>>

\* By itself: a success counts as a failure when the context is done by then, and may
\* when the confinement is shut.
Exit(c) ==
  /\ pc[c] = "running"
  /\ \E failed \in BOOLEAN : /\ c \in ended => failed
                             /\ Returns(c, failed)

\* Faulty variant: closing the confinement does not cancel its commands.
DoneByCaller(c) == c \in ended

\* The command's context ends with the call's or with the confinement's.
Done(c) == c \in ended \/ shut

\* The process group is killed.
Kill(c) == pc[c] = "running" /\ Done(c) /\ Returns(c, TRUE)

-----------------------------------------------------------------------------
Phase(c) == IF outcome[c].started THEN "partial_effects" ELSE "no_effects"

\* Faulty variant: the event is recorded on the context of the call.
RefusedOnCall(c) == c \in Unwritable \/ c \in ended

\* The event is recorded on a context of its own: that the call's has ended does not matter.
Refused(c) == c \in Unwritable

\* The event says whether effects may have happened; a refused event is the call's error.
Report(c) ==
  /\ pc[c] = "report"
  /\ \/ ~Refused(c) /\ Recorded(Phase(c), c) /\ Goto(c, "result")
     \/ Refused(c) /\ Goto(c, "returned_error") /\ UNCHANGED events
  /\ UNCHANGED <<handler, confinement, ended, outcome, effects>>

\* The result: an error without effects, or an output that says if effects may be partial.
\* The output of the helper says so itself, when it can be decoded.
Result(c) ==
  LET r == outcome[c] IN
  /\ pc[c] = "result"
  /\ \/ r.failed /\ Goto(c, IF r.started THEN "returned_partial" ELSE "returned_error")
     \/ /\ ~r.failed
        /\ \E said \in IF Helped THEN {"returned_partial", "returned_whole", "returned_error"}
                                ELSE {"returned_partial"} : Goto(c, said)
  /\ UNCHANGED <<handler, confinement, ended, outcome, history>>

\* The call's context ends: its timeout, a cancellation.
End(c) ==
  /\ c \notin ended
  /\ ended' = ended \cup {c}
  /\ UNCHANGED <<handler, confinement, pc, outcome, history>>

-----------------------------------------------------------------------------
\* handler.Close.
CloseHandler(k) ==
  /\ pc[k] = "close"
  /\ mu = Free
  /\ closed' = TRUE
  /\ Goto(k, IF box THEN "shut" ELSE "closed")
  /\ UNCHANGED <<mu, box, confinement, ended, outcome, history>>

\* confinement.Close: only the first one waits for the commands.
Shut(k) ==
  /\ pc[k] = "shut"
  /\ shut' = TRUE
  /\ Goto(k, IF shut THEN "closed" ELSE "wait")
  /\ UNCHANGED <<handler, active, ended, outcome, history>>

\* Faulty variant: the wait does not cover commands that have not started yet.
QuietOfProcesses == \A c \in Calls : pc[c] # "running"

\* active.Wait returns.
Quiet == active = {}

TearDown(k) ==
  /\ pc[k] = "wait"
  /\ Quiet
  /\ Recorded("teardown", k) \/ UNCHANGED events
  /\ Goto(k, "closed")
  /\ UNCHANGED <<handler, confinement, ended, outcome, effects>>

\* The context of Close ends first.
GiveUp(k) ==
  /\ pc[k] = "wait"
  /\ Goto(k, "gave_up")
  /\ UNCHANGED <<handler, confinement, ended, outcome, history>>

Next ==
  \/ \E c \in Calls :
       \/ Prepare(c) \/ BeginEstablish(c) \/ Probe(c) \/ Establish(c)
       \/ EnterRun(c) \/ NotStarted(c) \/ Start(c) \/ Exit(c) \/ Kill(c)
       \/ Report(c) \/ Result(c) \/ End(c)
  \/ \E k \in Closers : CloseHandler(k) \/ Shut(k) \/ TearDown(k) \/ GiveUp(k)

Spec == Init /\ [][Next]_vars

\* A process may run for ever, but not when it is killed; a starting one starts or not; and
\* code that waits for nothing goes on.
FairSpec ==
  /\ Spec
  /\ \A c \in Calls : WF_vars(Kill(c)) /\ WF_vars(NotStarted(c) \/ Start(c))
  /\ \A k \in Closers : WF_vars(CloseHandler(k)) /\ WF_vars(Shut(k)) /\ WF_vars(TearDown(k))

-----------------------------------------------------------------------------
Phases ==
  {"prepare", "probe", "establish", "execute", "probe_again", "establish_again", "refused", "run",
   "start", "running", "report", "result", "returned_error", "returned_partial", "returned_whole",
   "close", "shut", "wait", "closed", "gave_up"}

\* The state of the handler, the confinement and their users; the confinement waits for the
\* commands that are starting or running.
TypeOK ==
  /\ mu \in Calls \cup {Free}
  /\ closed \in BOOLEAN /\ box \in BOOLEAN /\ shut \in BOOLEAN
  /\ pc \in [Calls \cup Closers -> Phases]
  /\ active = {c \in Calls : pc[c] \in {"start", "running"}}
  /\ ended \subseteq Calls /\ effects \subseteq Calls
  /\ outcome \in [Calls -> [started: BOOLEAN, failed: BOOLEAN]]

Running == {c \in Calls : pc[c] = "running"}

\* Once the teardown is recorded no command of the sandbox runs, and none starts any more,
\* whatever calls were on their way into it (confinement.Run against confinement.Close).
TeardownIsFinal ==
  [][(\E k \in Closers : [phase |-> "teardown", by |-> k] \in events)
       => Running = {} /\ effects' = effects]_vars

\* A handler that is closed leaves no open sandbox behind, also when it was closed while
\* another call was establishing one (PrepareSandbox against Close).
NoSandboxLeft ==
  (\A k \in Closers : pc[k] \in {"closed", "gave_up"}) /\ Closers # {} => mu = Free /\ (box => shut)

\* A call that started a process and has returned has recorded that it may have had effects,
\* unless the store refuses the record; a cancelled or killed one, too.
EffectsAreReported ==
  \A c \in effects :
    pc[c] \in {"returned_error", "returned_partial", "returned_whole"} =>
      c \in Unwritable \/ [phase |-> "partial_effects", by |-> c] \in events

\* After Close has shut the sandbox every process in it ends, even one that would run for
\* ever or that starts at that very moment.
ShutEndsProcesses == shut ~> active = {}
=============================================================================
