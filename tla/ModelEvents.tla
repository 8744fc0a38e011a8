----------------------------- MODULE ModelEvents -----------------------------
(***************************************************************************)
(* Canonical model events, the validator of their order, and the queue in   *)
(* which an adapter puts the events of one stream.                          *)
(*                                                                         *)
(* Of an event's payload the model keeps what is checked or added up: the   *)
(* ID of a tool call, an amount of usage, a stop reason.  Strings that name *)
(* calls are sequences of letters, of which Blank is white space.  Tool     *)
(* input is abstracted to how far its JSON text has got.                    *)
(***************************************************************************)
EXTENDS Integers, Sequences, FiniteSets

CONSTANTS IDs,  \* letters of tool-call IDs
          Blank

Words == Seq(IDs \cup {Blank})

EventTypes == {"start", "text", "delta", "call", "usage", "stop", "error"}
StopReasons == {"end_turn", "tool_use", "max_tokens", "refusal", "unknown"}

\* What a frame reports of the usage: nothing, a count, or a count that is refused.
Nothing == -2
Reports == {Nothing, -1} \cup Nat

\* An event of a type, without payload and not yet numbered.
Plain(type) == [type |-> type, id |-> <<>>, amount |-> 0, stop |-> "", sequence |-> 0]

\* A string that is empty or has no surrounding white space.
Trimmed(s) == s = <<>> \/ (s[1] # Blank /\ s[Len(s)] # Blank)

\* ModelEvent.Validate, of the payloads kept.
Valid(event) ==
  /\ event.sequence > 0
  /\ event.type \in EventTypes
  /\ Trimmed(event.id) /\ (event.type = "call" => event.id # <<>>)
  /\ event.amount >= 0
  /\ event.type = "stop" <=> event.stop \in StopReasons

\* ModelStreamValidator: its zero value, Accept and Complete.
NewValidator == [last |-> 0, started |-> FALSE, terminal |-> FALSE]

Accepts(v, event) ==
  /\ ~v.terminal
  /\ Valid(event)
  /\ event.type = "start" <=> ~v.started
  /\ event.sequence = v.last + 1

Accepted(v, event) == [last |-> event.sequence, started |-> TRUE, terminal |-> event.type \in {"stop", "error"}]

Complete(v) == v.started /\ v.terminal

-----------------------------------------------------------------------------
\* Text of a JSON value: nothing yet, a prefix of a value, a value, or text that no value begins with.
Inputs == {"empty", "part", "whole", "broken"}
Fragments == {"open", "close", "value"}

\* The text after one more fragment, which may be empty.
Extended(input, fragment) ==
  CASE fragment = "" -> input
    [] input = "empty" /\ fragment = "value" -> "whole"
    [] input = "empty" /\ fragment = "open" -> "part"
    [] input = "part" /\ fragment = "close" -> "whole"
    [] OTHER -> "broken"

\* enqueue of both adapters: the next number, at the end of the queue.
Enqueue(stream, event) ==
  [stream EXCEPT !.sequence = @ + 1,
                 !.queue = Append(@, [event EXCEPT !.sequence = stream.sequence + 1])]

\* enqueue in a loop.
EnqueueAll(stream, events) ==
  [stream EXCEPT !.sequence = @ + Len(events),
                 !.queue = @ \o [n \in 1 .. Len(events) |-> [events[n] EXCEPT !.sequence = stream.sequence + n]]]

\* The elements of a set of integers, sorted.
Ascending(S) ==
  CHOOSE order \in [1 .. Cardinality(S) -> S] : \A m, n \in 1 .. Cardinality(S) : m < n => order[m] < order[n]
=============================================================================
