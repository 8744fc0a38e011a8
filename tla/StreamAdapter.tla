--------------------------- MODULE StreamAdapter ---------------------------
(***************************************************************************)
(* A provider adapter's stream and its consumer.  The consumer calls Recv   *)
(* until the stream ends or fails and then closes it, as consumeTurn and    *)
(* DrainStream do; each call has a context of its own.  A call that finds   *)
(* no event in the queue starts a goroutine that reads one server-sent      *)
(* event and waits for it, for its own context or for the stream's.  The    *)
(* server sends any frames in any order, stops or hangs.                    *)
(*                                                                         *)
(* A goroutine whose Recv has returned is an orphan: it still reads from    *)
(* the body.  Which frame a goroutine has read is chosen when its Recv      *)
(* takes it.  After a cancelled call the consumer may call Recv again with  *)
(* a fresh context.                                                        *)
(***************************************************************************)
EXTENDS AnthropicStream, ChatStream

CONSTANTS MessageWire, ChatWire, \* frames that the server of an adapter may send
          MaxFrames,             \* bound: frames of one stream, of either adapter
          MaxRetries             \* bound: calls after a cancelled one

ASSUME AdapterAssumption ==
  /\ MessageWire \subseteq MessageFrames /\ ChatWire \subseteq Chunks
  /\ MaxFrames \in [{"messages", "chat"} -> Nat] /\ MaxRetries \in Nat

VARIABLES adapter,    \* which adapter's stream this is
          stream,     \* its state
          frames,     \* frames read so far
          pc,         \* the consumer: ready to call Recv, waiting in nextSSE, closing or done
          reader,     \* the waiting call's goroutine: none, reading, or what it has read (frame, end)
          orphans,    \* goroutines still reading for calls that have returned
          callDone,   \* the context of the current or next call is done
          streamDone, \* stream.ctx is done
          closed,     \* the body is closed
          retries,
          outcome,    \* how the last Recv that returned no event ended
          validator,  \* the consumer's ModelStreamValidator
          turn,       \* what the consumer has received: calls, usage, stop
          wire        \* history of the frames taken: calls begun, usage reported, a frame lost

vars == <<adapter, stream, frames, pc, reader, orphans, callDone, streamDone, closed, retries, outcome,
          validator, turn, wire>>
contexts == <<callDone, streamDone, closed, retries>>
received == <<validator, turn>>

Init ==
  /\ adapter \in {"messages", "chat"}
  /\ stream = IF adapter = "messages" THEN NewMessageStream ELSE NewChatStream
  /\ frames = 0
  /\ pc = "ready" /\ reader = "none" /\ orphans = 0
  /\ callDone = FALSE /\ streamDone = FALSE /\ closed = FALSE /\ retries = 0
  /\ outcome = "none"
  /\ validator = NewValidator
  /\ turn = [calls |-> <<>>, usage |-> 0, stop |-> ""]
  /\ wire = [begun |-> <<>>, usage |-> 0, lost |-> FALSE]

-----------------------------------------------------------------------------
Consumed(frame) == IF adapter = "messages" THEN Consume(stream, frame) ELSE ConsumeChunk(stream, frame)

Sendable == IF adapter = "messages" THEN MessageWire ELSE ChatWire

\* The index and ID by which a frame begins or continues a call.
CallPiece(frame) ==
  CASE frame.type = "content_block_start" /\ frame.kind = "tool_use" -> {<<frame.index, frame.id>>}
    [] frame.type = "chunk" /\ frame.choice = 0 /\ frame.call # NoFragment -> {<<frame.call.index, frame.call.id>>}
    [] OTHER -> {}

\* What the frames say, kept apart from the adapter's own account.
Noted(frame) ==
  LET pieces == CallPiece(frame)
      before(i) == IF i \in DOMAIN wire.begun THEN wire.begun[i] ELSE <<>>
  IN [wire EXCEPT
        !.begun = [i \in DOMAIN wire.begun \cup {p[1] : p \in pieces} |->
                     IF \E p \in pieces : p[1] = i THEN before(i) \o (CHOOSE p \in pieces : p[1] = i)[2] ELSE before(i)],
        !.usage = IF "usage" \in DOMAIN frame /\ frame.usage >= 0 THEN frame.usage ELSE @]

-----------------------------------------------------------------------------
\* Recv returns an error: the consumer closes the stream, or calls again after a cancelled call.  The
\* stream has failed unless only the call was refused.
Failed(why) ==
  /\ \/ pc' = "close" /\ outcome' = why /\ UNCHANGED <<callDone, retries>>
     \/ /\ why = "cancelled" /\ retries < MaxRetries
        /\ pc' = "ready" /\ callDone' = FALSE /\ retries' = retries + 1
        /\ outcome' = IF streamDone' THEN why ELSE outcome
  /\ UNCHANGED received

\* The consumer's part: the validator, then its own account of the turn.
Taken(event) ==
  IF ~Accepts(validator, event) THEN Failed("invalid")
  ELSE /\ validator' = Accepted(validator, event)
       /\ turn' = [calls |-> IF event.type = "call" THEN Append(turn.calls, event.id) ELSE turn.calls,
                   usage |-> turn.usage + event.amount,
                   stop |-> event.stop]
       /\ pc' = "ready"
       /\ UNCHANGED <<outcome, callDone, retries>>

\* The loop of Recv, with the stream in state s: an event, the end, or another read.
Advance(s) ==
  IF s.queue # <<>>
  THEN /\ stream' = [s EXCEPT !.queue = Tail(@)]
       /\ reader' = "none"
       /\ IF Valid(Head(s.queue)) THEN Taken(Head(s.queue)) ELSE Failed("generated")
  ELSE /\ stream' = s
       /\ IF s.done
          THEN /\ reader' = "none" /\ outcome' = (IF Complete(validator) THEN "eof" ELSE "invalid") /\ pc' = "close"
               /\ UNCHANGED <<received, callDone, retries>>
          ELSE /\ reader' = "reading" /\ pc' = "wait"
               /\ UNCHANGED <<received, outcome, callDone, retries>>

\* Recv is called.
Recv ==
  /\ pc = "ready"
  /\ UNCHANGED <<adapter, frames, orphans, streamDone, closed, wire>>
  /\ IF callDone \/ streamDone THEN Failed("cancelled") /\ UNCHANGED <<stream, reader>> ELSE Advance(stream)

\* The consumer gives up between two calls: its emitter failed, or the usage exceeds the budget.
Abandon ==
  /\ pc = "ready"
  /\ pc' = "close" /\ outcome' = "abandoned"
  /\ UNCHANGED <<adapter, stream, frames, reader, orphans, contexts, received, wire>>

\* Close: once, the stream's context and then the body.
Shut == streamDone' = TRUE /\ closed' = TRUE

\* Recv's reading of an error of the decoder: a cancelled stream comes before a broken one.
ReadFailed == IF streamDone THEN "cancelled" ELSE "unread"

\* The select of nextSSE takes what the goroutine has read.
TakeResult ==
  /\ pc = "wait" /\ reader \in {"frame", "end"}
  /\ IF callDone
     THEN /\ Shut /\ Failed("cancelled") /\ reader' = "none"
          /\ wire' = [wire EXCEPT !.lost = @ \/ reader = "frame"]
          /\ UNCHANGED stream
     ELSE /\ UNCHANGED <<streamDone, closed>>
          /\ \/ /\ reader = "end" /\ reader' = "none"
                /\ Failed(ReadFailed)
                /\ UNCHANGED <<stream, wire>>
             \/ /\ reader = "frame"
                /\ \E frame \in Sendable :
                     \/ /\ Consumed(frame) = {}
                        /\ Failed("refused") /\ reader' = "none"
                        /\ UNCHANGED <<stream, wire>>
                     \/ \E s \in Consumed(frame) : Advance(s) /\ wire' = Noted(frame)
  /\ UNCHANGED <<adapter, frames, orphans>>

\* Faulty variant: the call returns and leaves the stream open.
ShutNot == UNCHANGED <<streamDone, closed>>

\* A call whose own context ends closes the stream.
ShutOnCancel == Shut

\* The goroutine is left behind.
LeaveReader ==
  /\ reader' = "none"
  /\ orphans' = IF reader = "reading" THEN orphans + 1 ELSE orphans

\* Faulty variant: the call's own context is not waited for.
InterruptedByStream == streamDone

Interrupted == callDone \/ streamDone

\* The select takes a context that is done.
TakeDone ==
  /\ pc = "wait" /\ Interrupted
  /\ ShutOnCancel
  /\ Failed("cancelled")
  /\ LeaveReader
  /\ wire' = [wire EXCEPT !.lost = @ \/ reader = "frame"]
  /\ UNCHANGED <<adapter, stream, frames>>

\* The deferred Close of the consumer.
CloseTurn ==
  /\ pc = "close"
  /\ pc' = "done"
  /\ Shut
  /\ UNCHANGED <<adapter, stream, frames, reader, orphans, callDone, retries, outcome, received, wire>>

-----------------------------------------------------------------------------
\* The waiting call's goroutine has read a frame, or met the end or a failure of the body.
Read ==
  /\ reader = "reading"
  /\ \/ frames < MaxFrames[adapter] /\ reader' = "frame" /\ frames' = frames + 1
     \/ reader' = "end" /\ UNCHANGED frames
  /\ UNCHANGED <<adapter, stream, pc, orphans, contexts, outcome, received, wire>>

\* Faulty variant: the result channel has no buffer, and nobody receives.
LeftBlocked(n) == n

\* An orphan's result goes to a buffered channel; the goroutine ends.
Left(n) == n - 1

OrphanRead ==
  /\ orphans > 0
  /\ orphans' = Left(orphans)
  /\ \/ frames < MaxFrames[adapter] /\ frames' = frames + 1 /\ wire' = [wire EXCEPT !.lost = TRUE]
     \/ UNCHANGED <<frames, wire>>
  /\ UNCHANGED <<adapter, stream, pc, reader, contexts, outcome, received>>

\* The contexts end at any time until the consumer closes the stream; another goroutine may close it.
Consuming == pc \in {"ready", "wait"}

CancelCall ==
  /\ Consuming /\ ~callDone /\ callDone' = TRUE
  /\ UNCHANGED <<adapter, stream, frames, pc, reader, orphans, streamDone, closed, retries, outcome, received, wire>>

CancelStream ==
  /\ Consuming /\ ~streamDone /\ streamDone' = TRUE
  /\ UNCHANGED <<adapter, stream, frames, pc, reader, orphans, callDone, closed, retries, outcome, received, wire>>

CloseElsewhere ==
  /\ Consuming /\ ~closed /\ Shut
  /\ UNCHANGED <<adapter, stream, frames, pc, reader, orphans, callDone, retries, outcome, received, wire>>

Next ==
  \/ Recv \/ Abandon \/ TakeResult \/ TakeDone \/ CloseTurn
  \/ Read \/ OrphanRead \/ CancelCall \/ CancelStream \/ CloseElsewhere

Spec == Init /\ [][Next]_vars

\* The consumer runs.  The transport fails a read whose request is cancelled or whose body is closed;
\* otherwise the server may hang.
Fairness ==
  /\ WF_vars(Recv) /\ WF_vars(TakeResult) /\ WF_vars(TakeDone) /\ WF_vars(CloseTurn)
  /\ WF_vars((streamDone \/ closed) /\ (Read \/ OrphanRead))

FairSpec == Spec /\ Fairness

-----------------------------------------------------------------------------
\* Whatever the server sends, a consumer sees what ModelStream promises: events the validator accepts,
\* io.EOF only after one terminal event, and nothing after a failure.
Phase ==
  CASE outcome = "none" -> "open" [] outcome = "eof" -> "ended" [] outcome = "invalid" -> "broken" [] OTHER -> "failed"
Contract == INSTANCE StreamContract WITH phase <- Phase
KeepsContract == Contract!Spec

\* A turn that ends with a stop is whole: no frame was lost, the calls are those the server began, with
\* distinct IDs and in the order of their indices, and the usage adds up to what it reported in the end.
WholeTurn ==
  outcome = "eof" /\ turn.stop # "" =>
    /\ ~wire.lost
    /\ turn.calls = [n \in 1 .. Cardinality(DOMAIN wire.begun) |-> wire.begun[Ascending(DOMAIN wire.begun)[n]]]
    /\ IsInjective(turn.calls)
    /\ turn.usage = wire.usage

\* The decoder is not safe for concurrent use: at most one goroutine reads, also when a cancelled call
\* left its goroutine behind and Recv is called again.
OneReader == orphans + (IF reader = "reading" THEN 1 ELSE 0) <= 1

\* A consumer that is done has closed the body, and the goroutines it left behind end.
StreamReleased == pc = "done" ~> (closed /\ orphans = 0)

\* A waiting Recv returns after its context or the stream's is cancelled, though the server hangs.
CancelInterrupts == pc = "wait" /\ (callDone \/ streamDone) ~> pc # "wait"
=============================================================================
