--------------------------- MODULE AnthropicStream ---------------------------
(***************************************************************************)
(* messageStream.consume: what one server-sent event of the Messages wire   *)
(* format does to the adapter's state.  The operators return the set of     *)
(* resulting states, empty when the event is refused: no consumer calls     *)
(* Recv after a refused event, so what it leaves behind is not kept.        *)
(*                                                                         *)
(* At most one content block is open at a time, so the map of blocks is one *)
(* block or none.  The four cumulative token counters are one.  An event is *)
(* "whole" when the parts that its handler dereferences are present.        *)
(***************************************************************************)
EXTENDS ModelEvents

NoBlock == [index |-> -1, kind |-> "none", id |-> <<>>, input |-> "empty"]

\* The wire events, with the malformed, unexpected and incomplete ones.
MessageFrames ==
       [type : {"malformed", "unnamed", "ping", "error", "message_stop", "unheard_of"}]
  \cup [type : {"message_start"}, whole : BOOLEAN, usage : Reports]
  \cup [type : {"content_block_start"}, whole : BOOLEAN, index : Int, kind : {"text", "tool_use", "image"},
        id : Words, input : {"empty", "whole"}, text : BOOLEAN]
  \cup [type : {"content_block_delta"}, whole : BOOLEAN, index : Int,
        kind : {"text_delta", "input_json_delta", "other"}, fragment : Fragments \cup {""}]
  \cup [type : {"content_block_stop"}, index : Int]
  \cup [type : {"message_delta"}, whole : BOOLEAN, reason : {"", "end_turn", "tool_use", "refusal"}, usage : Reports]

NewMessageStream ==
  [queue |-> <<>>, sequence |-> 0, started |-> FALSE, messageDelta |-> FALSE, done |-> FALSE,
   stopReason |-> "", block |-> NoBlock, nextBlock |-> 0, seen |-> {}, usage |-> 0]

-----------------------------------------------------------------------------
\* Faulty variant: the cumulative count is passed on as it is.
IncrementCumulative(old, new) == new

\* What a cumulative count adds to the one before.
Increment(old, new) == new - old

\* updateUsage: counters are cumulative, what they grew by is an event.
Metered(s, report) ==
  IF report = Nothing THEN {s}
  ELSE IF report < 0 \/ report < s.usage THEN {}
  ELSE IF report = s.usage THEN {s}
  ELSE {Enqueue([s EXCEPT !.usage = report], [Plain("usage") EXCEPT !.amount = Increment(s.usage, report)])}

\* Faulty variant: an error is passed on before the start.
ErrorFrameUnstarted(s) == IF s.done THEN {} ELSE {[Enqueue(s, Plain("error")) EXCEPT !.done = TRUE]}

ErrorFrame(s) ==
  IF s.done THEN {}
  ELSE LET begun == IF s.started THEN s ELSE Enqueue([s EXCEPT !.started = TRUE], Plain("start"))
       IN {[Enqueue(begun, Plain("error")) EXCEPT !.done = TRUE]}

MessageStart(s, f) ==
  IF s.started \/ ~f.whole THEN {}
  ELSE Metered(Enqueue([s EXCEPT !.started = TRUE], Plain("start")), f.usage)

\* A block starts when none is open, with the next index.
MayOpen(s, f) == f.whole /\ f.index = s.nextBlock /\ s.block = NoBlock

\* The ID and the initial input are those of a tool block.
Opened(s, f) ==
  LET block == [NoBlock EXCEPT !.index = f.index, !.kind = f.kind]
  IN [s EXCEPT !.nextBlock = @ + 1,
               !.block = IF f.kind = "text" THEN block ELSE [block EXCEPT !.id = f.id, !.input = f.input]]

BlockStart(s, f) ==
  IF ~MayOpen(s, f) \/ f.kind = "image" THEN {}
  ELSE IF f.kind = "text" THEN {IF f.text THEN Enqueue(Opened(s, f), Plain("text")) ELSE Opened(s, f)}
  ELSE IF f.id = <<>> THEN {}
  ELSE {Enqueue(Opened(s, f), [Plain("delta") EXCEPT !.id = f.id])}

BlockDelta(s, f) ==
  IF s.block = NoBlock \/ s.block.index # f.index \/ ~f.whole \/ f.fragment = "" THEN {}
  ELSE IF f.kind = "text_delta" /\ s.block.kind = "text" THEN {Enqueue(s, Plain("text"))}
  ELSE IF f.kind = "input_json_delta" /\ s.block.kind = "tool_use"
       THEN {Enqueue([s EXCEPT !.block.input = Extended(@, f.fragment)], Plain("delta"))}
  ELSE {}

\* An absent input stands for an empty object.
Completed(block) == block.input \in {"empty", "whole"} /\ Trimmed(block.id)

\* seenCallIDs with the call of the open block.
Marked(s) == s.seen \cup {s.block.id}

BlockStop(s, f) ==
  IF s.block = NoBlock \/ s.block.index # f.index THEN {}
  ELSE IF s.block.kind = "text" THEN {[s EXCEPT !.block = NoBlock]}
  ELSE IF ~Completed(s.block) \/ s.block.id \in s.seen THEN {}
  ELSE {Enqueue([s EXCEPT !.block = NoBlock, !.seen = Marked(s)], [Plain("call") EXCEPT !.id = s.block.id])}

MessageDelta(s, f) ==
  IF s.block # NoBlock \/ ~f.whole \/ (s.stopReason # "" /\ s.stopReason # f.reason) THEN {}
  ELSE Metered([s EXCEPT !.stopReason = f.reason, !.messageDelta = TRUE], f.usage)

\* normalizeStopReason; the sequence and pause reasons are end_turn's, the window's is max_tokens'.
NormalizedStop(reason) == IF reason \in StopReasons THEN reason ELSE "unknown"

MessageStop(s) ==
  IF s.block # NoBlock \/ s.stopReason = "" THEN {}
  ELSE {[Enqueue(s, [Plain("stop") EXCEPT !.stop = NormalizedStop(s.stopReason)]) EXCEPT !.done = TRUE]}

\* Out of place: before message_start, or content after message_delta.
Misplaced(s, f) ==
  \/ ~s.started /\ f.type # "message_start"
  \/ s.messageDelta /\ f.type \notin {"message_delta", "message_stop"}

Consume(s, f) ==
  CASE f.type \in {"malformed", "unnamed"} -> {}
    [] f.type = "ping" -> {s}
    [] f.type = "error" -> ErrorFrame(s)
    [] OTHER ->
         IF Misplaced(s, f) THEN {}
         ELSE CASE f.type = "message_start" -> MessageStart(s, f)
                [] f.type = "content_block_start" -> BlockStart(s, f)
                [] f.type = "content_block_delta" -> BlockDelta(s, f)
                [] f.type = "content_block_stop" -> BlockStop(s, f)
                [] f.type = "message_delta" -> MessageDelta(s, f)
                [] f.type = "message_stop" -> MessageStop(s)
                [] OTHER -> {}
=============================================================================
