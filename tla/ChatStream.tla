----------------------------- MODULE ChatStream -----------------------------
(***************************************************************************)
(* chatStream.consumeChunk and finalize: what one chunk, or the final       *)
(* [DONE], of the Chat Completions wire format does to the adapter's state. *)
(* The operators return the set of resulting states, empty when the chunk   *)
(* is refused: no consumer calls Recv after that.                           *)
(*                                                                         *)
(* A chunk carries at most one fragment of a tool call; several fragments   *)
(* in one chunk are handled like those of consecutive chunks.  The three    *)
(* token counters are one.                                                 *)
(***************************************************************************)
EXTENDS ModelEvents, Functions

Absent == "absent" \* no finish reason

NoFragment == [index |-> -1, typed |-> FALSE, id |-> <<>>, named |-> FALSE, arguments |-> ""]
CallFragments == [index : Int, typed : BOOLEAN, id : Words, named : BOOLEAN, arguments : Fragments \cup {""}]

\* The chunks of the wire, with the malformed and unsupported ones.
Chunks ==
       [type : {"malformed", "error", "choices", "done"}]
  \cup [type : {"chunk"}, usage : Reports, choice : Int, text : BOOLEAN, refusal : BOOLEAN,
        call : {NoFragment} \cup CallFragments, finish : {Absent, "", "stop", "tool_calls", "other"}]

NoCall == [id |-> <<>>, named |-> FALSE, input |-> "empty"]

\* newChatStream enqueues the start.
NewChatStream ==
  Enqueue([queue |-> <<>>, sequence |-> 0, done |-> FALSE, finish |-> "", calls |-> <<>>, usage |-> Nothing],
          Plain("start"))

-----------------------------------------------------------------------------
\* One usage payload at most, not negative.
Reported(s, c) ==
  IF c.usage = Nothing THEN {s}
  ELSE IF s.usage # Nothing \/ c.usage < 0 THEN {}
  ELSE {[s EXCEPT !.usage = c.usage]}

\* Content and refusal are both text.
Spoken(s, c) ==
  LET one == IF c.text THEN Enqueue(s, Plain("text")) ELSE s
  IN IF c.refusal THEN Enqueue(one, Plain("text")) ELSE one

\* A fragment with a valid index and type, that says something and has a trimmed ID.
Sound(fragment) ==
  /\ fragment.index >= 0 /\ fragment.typed
  /\ fragment.id # <<>> \/ fragment.named \/ fragment.arguments # ""
  /\ Trimmed(fragment.id)

\* IDs arrive in pieces.
IDAfter(old, piece) == old \o piece

Accumulated(s, fragment) ==
  LET i == fragment.index
      old == IF i \in DOMAIN s.calls THEN s.calls[i] ELSE NoCall
      new == [id |-> IDAfter(old.id, fragment.id), named |-> old.named \/ fragment.named,
              input |-> Extended(old.input, fragment.arguments)]
  IN [s EXCEPT !.calls = [j \in DOMAIN s.calls \cup {i} |-> IF j = i THEN new ELSE s.calls[j]]]

Assembled(s, c) ==
  IF c.call = NoFragment THEN {s}
  ELSE IF ~Sound(c.call) THEN {}
  ELSE {Enqueue(Accumulated(s, c.call), [Plain("delta") EXCEPT !.id = c.call.id])}

Finished(s, c) ==
  IF c.finish = Absent THEN {s}
  ELSE IF s.finish # "" /\ s.finish # c.finish THEN {}
  ELSE {[s EXCEPT !.finish = c.finish]}

\* A chunk with a choice (-1: none; another index than 0 is refused).
Chunk(s, c) ==
  UNION {IF c.choice = -1 THEN {r}
         ELSE IF c.choice # 0 THEN {}
         ELSE UNION {Finished(a, c) : a \in Assembled(Spoken(r, c), c)} : r \in Reported(s, c)}

\* normalizeFinishReason; the remaining reasons are handled like stop.
NormalizedFinish(reason) ==
  CASE reason = "stop" -> "end_turn" [] reason = "tool_calls" -> "tool_use" [] OTHER -> "unknown"

\* Calls come with a tool finish, and a tool finish with calls.
FinishFits(s) == NormalizedFinish(s.finish) = "tool_use" <=> DOMAIN s.calls # {}

\* The calls in the order of their indices.
Ordered(s) == [n \in 1 .. Cardinality(DOMAIN s.calls) |-> s.calls[Ascending(DOMAIN s.calls)[n]]]

\* finalize: the calls are complete and distinct; then the usage and the stop.
Finalize(s) ==
  LET calls == Ordered(s)
      called == EnqueueAll(s, [n \in DOMAIN calls |-> [Plain("call") EXCEPT !.id = calls[n].id]])
      metered == IF s.usage = Nothing THEN called
                 ELSE Enqueue(called, [Plain("usage") EXCEPT !.amount = s.usage])
      stopped == Enqueue(metered, [Plain("stop") EXCEPT !.stop = NormalizedFinish(s.finish)])
  IN IF /\ s.finish # "" /\ FinishFits(s)
        /\ \A n \in DOMAIN calls : calls[n].id # <<>> /\ calls[n].named /\ calls[n].input = "whole"
        /\ IsInjective([n \in DOMAIN calls |-> calls[n].id])
     THEN {[stopped EXCEPT !.done = TRUE]}
     ELSE {}

ConsumeChunk(s, c) ==
  CASE c.type \in {"malformed", "choices"} -> {}
    [] c.type = "error" -> {[Enqueue(s, Plain("error")) EXCEPT !.done = TRUE]}
    [] c.type = "done" -> Finalize(s)
    [] OTHER -> Chunk(s, c)
=============================================================================
