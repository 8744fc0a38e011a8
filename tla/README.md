# Fabric Runner: TLA+ specification

This directory specifies the parts of Fabric Runner whose correctness depends on
order: what an execution engine writes before and after each external call, what
a second engine may do with the stream the first one left behind, what the
stores and the sandbox guarantee while several goroutines or processes use them.
`PROJECT.json` lists the components, the runs, the source lines every definition
stands for, the hazards, the findings and the theorems.

## The system

| Part | State | Operations | Module |
|---|---|---|---|
| Engine (`engine.go`, `lifecycle.go`) | `engineRun`: sequence, storeErr, reservations, approval | `Run`, `SelectTurn`, `Stream`, tool `Execute`, approvals, finalisation | `EngineState`, `Placement`, `ModelTurn`, `ToolBatch`, `EngineRun` |
| Compaction (`context.go`) | extraCalls, compactionUsage | `prepareContext` | `Placement`, `ModelTurn` |
| Resume (`recovery.go`) | what `restore` rebuilds from the stream | `Resume`, claim of the stream | `WorkloadProjection`, `EngineRun` |
| Loop (`loop/engine.go`) | result, emitter sequence, messages, seen IDs | turns, stream consumption, tool batches, checkpoints | `ModelTurn`, `ToolBatch`, `EngineRun`, `Conversation` |
| Projection (`projection.go`, `execution_event.go`, `domain.go`) | workload and step state, execution records | `Apply` | `WorkloadProjection` |
| Memory store (`store/memory`) | one slice per stream | `Append` at an expected sequence, `Load` | `EngineState` |
| SQLite store (`store/sqlite`) | three tables of a file | open, initialise, `Append`, loads, cleanup | `SqliteStore` |
| Routing (`routing.go`, `router/deterministic`) | the decision being made | gates, score, selection, `EvaluateRouter` | `Routing` |
| Policy (`policy.go`, `policy/baseline`) | a verdict bound to manifest and scope | the two evaluations, the baseline rules | `Classification`, `Policy`, `Conversation` |
| Stream contract (`provider.go`, `model.go`) | the validator of event order | `Deliver`, end, failure | `ModelEvents`, `StreamContract` |
| Stream adapters (`provider/anthropic`, `provider/openaicompat`) | open block or call fragments, counters, queue, reader goroutine | `Recv`, wire events, cancellation, `Close` | `AnthropicStream`, `ChatStream`, `StreamAdapter` |
| Observation (`telemetry.go`) | the process-wide slots, callbacks in flight, numbers | `NewRecord`, `Emit`, callbacks | `Observation` |
| Tools and sandbox (`tool`, `sandbox`) | handler mutex and box, confinement and its WaitGroup | prepare, run, close | `SandboxedTool` |
| File operations (`internal/toolop`, `cmd/fabricrunner-tool`) | target, temporary files | write and edit, step by step | `FileTool` |

An engine drives the loop; the loop calls back into the engine to select a turn,
to open a provider stream, to execute a tool and to store each of its events.
Every callback evaluates policy, may ask an approver and appends to the workload
stream before it lets an external call happen. The stream is the only thing two
engines share: an append names the last sequence its writer knows, and the store
refuses it if the stream has moved on. `Resume` replays the stream, looks for a
checkpoint that nothing was written after, and appends a claim of its own.

What makes this hard, and where the properties aim:

- a crash between the intent of an effect, the effect and its record;
- an append that committed although its writer got an error;
- an engine that is still running when another one resumes its workload;
- cancellation, deadline and denial in the middle of a parallel tool batch;
- budgets that are summed over turns, summaries and resumes;
- records that replay would refuse, which make a workload unreadable;
- routers supplied by the caller, and integer arithmetic at its limits;
- closing a tool while another goroutine establishes its sandbox or runs in it;
- two processes that open, append to and abandon one database file;
- content of a high label that comes back into the history, in a tool result or a
  summary, after the labels were looked at;
- a verdict that was given for other content, another target or another zone;
- servers that send events in any order, hang or break off, while calls are
  cancelled and repeated;
- observers that never return;
- helper processes that are killed in the middle of replacing a file.

## The modules

`Spend` has vectors of amounts over a set of dimensions, their sum, difference
and order.

`DurableExecution` is the abstract protocol. It knows engines, one stream and
the outside world, and of the stream only what matters to a later resume: the
workload's state, the turn of the checkpoint a resume would accept (0 for none),
the sum of the reservations and the number of summary calls. An engine that
writes either holds the last version of the stream or is stale for good. An
effect is intended (a record in the stream that removes the checkpoint), then
performed, then recorded. Every append may commit without its writer learning of
it.

`WorkloadProjection` is the replay: `Apply` folds one event into the projection
with the checks of the code, and a refused event clears the field `valid`. The
second pass that `restore` makes over the records is folded along (`Scan`).

`EngineState` holds the variables of the detailed engine and its write to the
store (`Write`, `Emit`): an append is made at the engine's own sequence, may be
refused, may fail without having committed and may fail after it has. An ordinary
store error is sticky (`storeErr`); one that comes with an ended context is not.
`Placement` (policies, approval, routing, reservation, compaction), `ModelTurn`
(call and stream) and `ToolBatch` (sequential and parallel batches) add the
actions of a turn; `EngineRun` adds run, resume, the tool teardown, finalisation,
cancellation, expiry and crashes, and composes them. A step makes at most one
append or one external call, so everything else can happen between any two of
them. Provider events, verdicts, approvals and routing answers are any answer; an approver
that answers late is one that refuses (`ApproverSays`), as `engineRun.approve` makes it.

`Conversation` is the workload seen from its content: what is in the message
history, under which label, what it was made from, and which verdicts and
approvals stand behind each request to a model. Tool results, model answers and
summaries add to the history; a checkpoint keeps it, a crash takes the loop back
to the checkpoint. The tool call IDs of the history are there too: which ones the
loop has seen, what a checkpoint keeps of them and what compaction takes away.
`Policy` has the two evaluations (`EvaluateExecutionPolicy`,
`EvaluateDataEgressPolicy`) with every way they fail closed, and the rules of the
baseline policy; `Classification` the labels and their order. `Conversation`
composes them with the turns of the loop. The policy is the baseline or any other:
one of the caller's may repeat an earlier verdict.

`StreamContract` is what a `ModelStream` promises its consumer. `StreamAdapter` is
the stream of an adapter with its consumer, the goroutine behind `Recv`, three
ways of being cancelled and a server that sends any frame; `AnthropicStream` and
`ChatStream` are the two handlers of wire events. `KeepsContract` states that the
detailed stream implements `StreamContract` (`INSTANCE ... WITH`). A select that
finds several channels ready takes any of them.

`Observation` has emitters (parallel tools of engines, or other callers), the slot
pool and one callback per accepted record. An observer may return, fail, panic or
never return; it may ignore the end of its context or heed it.

`Routing` is one placement: the deterministic router one candidate at a time, or
any decision of a caller's router, and `EvaluateRouter` around it. A machine word
is the constant `Word`, so the overflow test of the 128 by 64 bit division is
meaningful on small numbers.

`SandboxedTool` has one tool handler with its mutex and its confinement, calls
that execute the tool and closers that close it, each a goroutine. In it a process
does anything. `FileTool` composes it with what the helper process really does for
`write` and `edit`: look, read, create, fill, rename, remove, exit, each a step in
which it may fail and after which it may be killed. A text is the set of calls
whose text is in it, so a lost or torn text is visible. The handler records what a
process may have done on a context of its own; the constant `Unwritable` has the
calls whose record the store refuses.

`SqliteStore` has handles in processes of their own on one file name. A
transaction works on a copy that a commit publishes. Files have an identity apart
from the name, because a file can be removed while it is in use. The write lock,
atomic commit and rollback of SQLite are taken from its contract, as is that a
connection creates a missing file. Connections of one handle's pool are one
connection, and the removal of the file with its two side files is one step.

A definition marked *faulty variant* is not part of the model: it is the
definition after it with one plausible mistake. Put in its place, it makes a
property fail; the pairs are under `mutants` in `PROJECT.json`. They show that
every property depends on the code it is about.

## The runs

All runs finish within minutes with two workers. `CHECK_DEADLOCK FALSE` is set
everywhere because the modelled programs end: engines return, calls are over, a
placement is made, or (`SqliteStore`) the bound on files is used up.

| Run | Instance | Checks |
|---|---|---|
| DurableExecution | 2 engines, 3 calls, batches of 2, budget of 2 units | the protocol's guarantees, and the inductive invariant of the proofs |
| Recovery | 2 engines, alive together or one after the other, 3 calls with summaries among them, responses with content and usage, one tool call, approver, crashes, one failing append of either kind, resumes | refinement of the protocol; replay accepts the stream; results account for every call and for the usage of summaries; no effect without its committed authorisation |
| Termination | 1 engine, fair; 2 sandboxed tool calls, in parallel or one after the other, 2 candidates (one remote), verdicts that deny or ask for an approval, user and deadline at any step and in a commit | authorisation, a checkpoint has the completions of both tools before it, refinement, every run returns, its workload ends |
| Routing | 2 candidates at the edges of every measured gate, 3 with ties in all orders; any small custom decision | accepted is eligible, best is selected, deterministic is accepted |
| Conversation | 3 IDs, 4 calls, batches of 2, summaries, 2 candidates (one in another zone), 12 kinds of request, both policies, crashes | secret content stays, requests go out and answers come back as evaluated, the baseline keeps the zone, IDs are used once until a summary |
| ModelStreams | both adapters, 2 IDs, 7 or 4 frames of every kind a handler tells apart, one repeated call, fair | contract, whole turns, one reader, release, interruption |
| Observation | 2 executions, 3 emitters, 2 records each, 2 slots, one observer that heeds its context, fair | slots accounted for, nothing shown of a run that was cancelled before, emitters finish, only stuck callbacks remain |
| FileTool | a write, an edit whose report the store refuses, 2 closers, any kind of target, fair | no sandbox left, teardown final, file whole, effects told, closing ends every process |
| SqliteStore | 2 handles, 2 files, 2 events, batches of 2 | committed state is one sound stream; rows never change; acknowledged rows are there |
| ResumeDeadline, IDsAfterCompaction, FailedOpen | | violated, see the findings |

Why the bounds are enough for the cases in question: two engines are needed for
any race on the stream, and a third one can only be another stale writer; two
turns are needed to have a checkpoint with something after it; two resumes for a
resume of a resumed run; two tool calls for a batch in which one call disturbs
another; three calls for a summary between two turns; a budget of two units for
one reservation too many. In Recovery the bound `MaxTrouble` is on resumes, store
faults and engines inside a call together: any two of them meet (a fault and a
resume, a resume of a resumed run, a resume while the first engine is in a call),
three do not. One tool call makes one checkpoint in Recovery, so the resume of a
resumed run is of one that stopped before its next reservation; a second checkpoint
is in the run DurableExecution and in the proofs. `MaxEvents` bounds the content
events of a response, and one report of usage may follow them, so that a summary,
and a response that calls a tool, has usage. Engines are interchangeable, and symmetry is used where there are
two and no liveness property is checked. Seven frames of the Messages format are a
start, a block with its delta and stop, usage, the end and one frame out of
place; four chunks are two fragments of a call, its end and the final one. Fewer
slots than callbacks, and two records per execution, make an emission find the
pool full. Recovery has verdicts that allow; Termination leaves them out, since a
granted approval takes the same way with one more step. The dimensions of the
spend are independent of each other, so one is enough for TLC; the proofs have any
number.

**Fairness.** `EngineRun!FairSpec` is weak fairness of each engine's own steps.
It assumes that store, providers, tools, policies and approvers answer or are cut
off by their timeouts, which the code sets for approvals, for the recording of
results and for the whole run; it assumes nothing of cancellation, deadlines or
the choice among answers. A tool that ignores its context for ever is outside of
it. Termination has no crashes and no store faults, since a crashed run is
left running until someone resumes it, by design; a context that ends while its
append commits counts as a fault in `WorkloadTerminates`, because the engine then
cannot tell whether the record is in the stream.

`FileTool!FairFileSpec` is weak fairness of killing a process whose context is
done, of a starting process to start or fail, and of the steps of closers. A
process that is not killed may run for ever. `StreamAdapter!FairSpec` is weak
fairness of the consumer's steps, and of a read only once its request is
cancelled or its body closed, which the HTTP transport promises; the server may
hang. `FairObserveSpec` is weak fairness of emitters, of the expiry of an
observer's context and of starting a goroutine, and, for the observer that heeds
its context, of returning after it ended. Another observer need never return.

## Findings

1. *A resume after the deadline loses the result so far* (`ResumeDeadline`).
   The loop returns an empty result for a context that has already ended before
   it takes over the continuation (`loop/engine.go:45`), and the engine records
   it as the finished result. The recovery plan says usage and counts are
   preserved (`spec/0010-execution-engine/recovery-plan.md:3`).
2. *Tool call IDs can repeat after compaction and resume*
   (`IDsAfterCompaction`). The seen IDs are rebuilt from the messages of the
   checkpoint (`loop/engine.go:91`), which compaction has shortened. FR-LOOP-004
   wants them unique across the loop (`spec/0005-turn-tool-loop/spec.md:34-35`).
3. *A failed open can remove a database in use* (`FailedOpen`). An open that
   created the file and fails later removes it by name
   (`store/sqlite/store.go:591`); another handle may have initialised it and
   committed events by then, which are gone on the next open. FR-SQL-005
   (`spec/0002-sqlite-event-store/spec.md:32`) wants them preserved.

A fourth disagreement has no run, since it is about which context an observer is
given and not about an order of steps: the engine hands `Emit` a context without
cancellation (`engine.go:286`), so ending an execution does not end its
observations, which FR-TEL-007 (`spec/0009-telemetry-audit/spec.md:41`) ties to
it; they end at their own timeout. `Observation` models both kinds of
caller (`Engine` and the others).

Each violated run checks one property, and the same property (or its
counterpart) passes in a run without the circumstance: no deadline in Recovery,
no summary so far (`UniqueUntilSummary`) in Conversation, `AckedAreCommitted` in
SqliteStore.

## What is proved

`DurableExecutionProofs` proves, for every set of engines, set of spend
dimensions, budget, call limit and batch size (assumptions `BatchAssumption`,
`CallsAssumption`, `SpendAssumption`: the limits are naturals and amounts are
vectors of naturals):

- `TypeCorrect`: the type invariant;
- `AlwaysConsistent`: the inductive invariant `Consistent`;
- `EffectsAtMostOnce`, `ResumePointsCoverEffects`, `SpendStaysWithinBudget`,
  `CallsStayWithinLimit`: the safety properties that follow from it;
- `TerminalStaysFinal`: no step changes stream or world after the terminal
  records.

That an effect never happens twice is not inductive: one must know that the
engine about to perform it is the only one that could. `Fencing` says so. As soon
as an engine has committed an intent, no checkpoint is left, no other engine holds
the stream, and an engine that has loaded the stream but not claimed it is stale.
`ReadyKnowsStream` says that an engine between turns which still holds the stream
agrees with it on reservations and calls, and that nothing of its turn has
happened. `BusyKnowsWorld` says that an engine inside a turn, even a stale one,
counts the calls that were made and knows which effects of the turn have happened.
The proof has one lemma per action, and in it one step per conjunct.

`EngineStateProofs` and `EngineRunProofs` prove, of the detailed engine, for every
set of engines, tools, candidates and verdicts, every budget, call limit and batch
size and every number of faults, crashes and resumes (`EngineAssumption`: the
limits are naturals, at least one call is allowed and one candidate given, and
amounts are vectors of naturals):

- `AlwaysEngineRunInv`: the inductive invariant `EngineRunInv`;
- `StreamsReplay`: every committed stream is one that replay accepts;
- `EngineImplementsDurableExecution`: every step of an engine is a step of the
  abstract protocol or leaves all of its state alone, under the mapping that
  `EngineRun` names (`AbsCkpt` to `AbsRoom`);
- `EngineKeepsPromises`, `EngineEndsForGood`: what the protocol guarantees, in the
  engine's own state. No effect happens twice, calls and spend keep to their
  limits, no checkpoint is left that an effect has overtaken, and after the terminal
  records neither the phase of the workload nor the effects, calls and spend change. They follow from the refinement and the theorems of
  `DurableExecutionProofs`, instantiated under the mapping (`DP`).

Replay acceptance is not inductive: an engine only knows its own fields, and what
it appends is accepted because they agree with the stream. `Knows` says so for an
engine whose sequence is the stream's version (it says nothing of a stale one,
whose append is refused): same loop sequence and reservations, the loop not
stopped, the placement of the call recorded, a tool message before the checkpoint.
`Shape` relates the program counter to the effects of the turn that are intended,
performed and recorded, which is what the refinement needs, and `Counts` has the
limits and the locals of the turn. `StreamInv` says what every committed stream is
like, in particular that a checkpoint in force is the last record of the loop.
Every append has the same three outcomes, so the lemmas `QuietWrite`, `GoodAudit`,
`GoodLoop` and `PlannedWrite` treat the write once for all actions; then there is
one lemma per action (`RunStep` to `StopLoopStep`). `EngineStateProofs` has the
invariant and the actions up to the stream of a call, `EngineRunProofs` the others
and the theorems.

`RoutingProofs` proves, for every set of valid requests, every custom router and
every word size beyond 1000 (`RequestsAssumption`, `WordAssumption`):

- `AcceptedAreEligible`: an accepted decision passes every gate, whatever router
  made it;
- `BestIsSelected`: the deterministic choice beats every other eligible
  candidate, so it does not depend on their order;
- `DeterministicAccepted`: its division never panics, its scores stay within
  0..1000 and its decisions are always accepted.

The argument is the loop invariant `Progress` (assessments and best candidate of
the prefix looked at so far) together with the arithmetic lemma `ScoreIsSafe`: an
eligible candidate's cost and latency are at most their divisors.

`LabelProofs` proves of the conversation, for every set of IDs, candidates, requests, labels of
content and numbers of turns (`ConversationAssumption`):

- `SecretAlwaysStays`, `AlwaysSentAsEvaluated`, `BaselineAlwaysKeepsZone`: what
  goes to a model is not secret, what goes out and what is taken back from another
  zone is what verdicts were given on, and, under the baseline policy, content that
  is not public leaves the zone only with an approval;
- `IDsStayUniqueUntilSummary`: over crashes and resumes no ID is accepted twice
  before there is a summary.

That no summary smuggles secret content out is not inductive: `LabelsCover` says
that every message in every history has a label at least as high as what it was
made from, and `PlacementInv` that the placement in force was evaluated for
exactly the messages it is used with. `BackInv` says the same of the verdict on the
way back, and that a selection starts without a placement. `RememberedInv` says that without a summary
the saved history has the IDs of everything executed that a resume can lead back
to.

It also proves of observations, for every number of executions, emitters, records
and slots: `SlotsStayAccounted`, `CancelledStaysUnseen` (no observer is called with
the context of an execution that was cancelled before), and one that no run lists,
`NumbersStayUnique` (parallel emitters of one execution never share a number; that
another caller of `Emit` numbers its records in this way is assumed). The invariant is that every record an
emitter holds, or a callback carries, has a number of its own at most the counter.

`FileToolProofs` proves, for every set of calls, edits and closers
(`ToolAssumption`, `FileAssumption`):

- `NoSandboxIsLeft`, `TeardownStaysFinal`, `EffectsStayReported` for the handler
  with arbitrary processes;
- `FileToolImplementsTool`: the composition with the helper processes implements
  that handler, so the three hold for it too;
- `RootStaysSound`, `EffectsStayTold` for the composition.

The invariant `ToolInv` ties the mutex to the one call inside it, the box and the
closed flag to the closers that have passed, and the WaitGroup to the commands
that are starting or running: after the teardown it is empty, and shut. `FileInv`
adds where the helper is: only one that is past `create` has a temporary file, which
stays if it is killed or cannot remove it,
what it is about to rename is whole, and a call that replaced the file has a
process that either succeeded or makes the call report a partial effect.

`SqliteStoreProofs` proves, for every set of handles and all bounds
(`StoreAssumption`): `StreamStaysSound`, `AckedStayCommitted`,
`RowsStayImmutable`. The invariant `StoreInv` says of every file that it has
exactly one row for each sequence up to its version, all of them folded into the
document (`SoundDB`), and of every open transaction that it holds the lock and is
ahead of the file by the statements executed so far (`TxInv`). That `Load` then
finds no gap is a fact about cardinalities (`SoundLoads`): sequences are a
bijection between the loaded rows and an interval.

`StreamAdapterProofs` proves, for every set of wire events (`AdapterAssumption`: IDs
of any length, any indices and counts, malformed frames included), every number of
frames and every number of cancelled and repeated calls:

- `AdaptersKeepContract`: both adapters, whatever the server sends, implement
  `StreamContract`. What a consumer receives is what the validator accepts, so the
  consumer's own check never fails; the end comes only after one terminal event;
- `OneGoroutineReads`: the decoder has one reader at a time;
- `AlwaysOrderInv`: the inductive invariant `OrderInv`.

The contract is not inductive: that the next event is accepted follows from how
events were put into the queue, frames earlier. `Continues` says that the queue
goes on where the consumer's validator is: the numbers follow on, a start is the
first event of the stream, and a terminal event is in the queue exactly if the
adapter is done, as the last one. `MessageOrder` and `ChatOrder` add what each
adapter must know to keep it so (nothing is enqueued before the start; the calls
that `finalize` enqueues have IDs, and the set of their indices is finite, which
makes sorting it well defined: `AscendingExists`, `AscendingEnumerates`). There is
one lemma per handler of a wire event (`MessagesKeepOrder`, `ChatsKeepOrder`
collect them). `ControlInv` ties the waiting call to its goroutine: one that is
left behind has closed the stream, so that no later call starts another. Then
there is one lemma per action (`RecvKeeps` to `CancelKeeps`), each proving the
invariant and the step of the contract together.

Only model-checked: that a checkpoint has the results of all tools that ran and a
result all calls and spend (`CheckpointCoversTools`, `SuccessIsAccounted`,
`FinishedIsAccounted`), and that an effect has its committed authorisation
(`EffectsAuthorized`): they need a second invariant, on the tool results and the
verdicts in the stream. That a turn of a stream is whole (`WholeTurn`): it needs a
further invariant, which relates the queue and what the consumer has received to
the frames read so far. All liveness properties, which are out of the reach of the
proof system.

## What is not modelled

- Requests of the provider adapters (`provider.go`, `translate.go`): translation of
  one request and one HTTP exchange, and the pages of a model list, without state
  between calls. Line splitting and the size limits of the stream decoder are one
  failing read.
- Reading a file (`toolop` `read`): it changes nothing. What programs outside of
  Fabric Runner do to the root is left out of `FileTool`.
- JSON schemas, message texts, digests, generation of identifiers, and the
  construction of the sandbox's command line: data conversions, or calls to an
  external program. Digests are taken to be injective.
- The pool of connections of one SQLite handle, the encoding of rows and their
  digests.
- Delegation to child steps, workers and leases: the engine has no such
  operations yet.
- The conformance suites (`providertest`, `observertest`): test support. What they
  demand of a stream and of an observer is in `StreamContract` and `Observation`.
