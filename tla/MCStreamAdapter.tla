-------------------------- MODULE MCStreamAdapter --------------------------
(* Frames of both wire formats: two IDs, counts up to two, every kind of   *)
(* frame that a handler tells apart, well formed or not.                   *)
EXTENDS StreamAdapter

CONSTANTS idA, idB

Simple == {[type |-> t] : t \in {"malformed", "unnamed", "ping", "error", "message_stop", "unheard_of"}}

Starts == [type : {"message_start"}, whole : {TRUE}, usage : {Nothing, -1, 1}]

Blocks ==
       [type : {"content_block_start"}, whole : {TRUE}, index : {0, 1}, kind : {"tool_use"},
        id : {<<>>, <<Blank>>, <<idA>>, <<idB>>}, input : {"empty", "whole"}, text : {FALSE}]
  \cup [type : {"content_block_start"}, whole : {TRUE}, index : {0}, kind : {"text", "image"},
        id : {<<>>}, input : {"empty"}, text : BOOLEAN]

Deltas == [type : {"content_block_delta"}, whole : {TRUE}, index : {0, 1},
           kind : {"text_delta", "input_json_delta"}, fragment : {"", "open", "close"}]

Stops == [type : {"content_block_stop"}, index : {0, 1}]

Ends == [type : {"message_delta"}, whole : BOOLEAN, reason : {"", "end_turn", "tool_use"},
         usage : {Nothing, 0, 1, 2}]

MCMessageWire == Simple \cup Starts \cup Blocks \cup Deltas \cup Stops \cup Ends

Bare == [type |-> "chunk", usage |-> Nothing, choice |-> 0, text |-> FALSE, refusal |-> FALSE,
         call |-> NoFragment, finish |-> Absent]

\* Calls begin with an ID and a name; more of the arguments, or of the ID, may follow.
Calls == [index : {0, 1}, typed : {TRUE}, id : {<<idA>>, <<idB>>}, named : {TRUE}, arguments : {"open", "value"}]
           \cup [index : {0}, typed : {TRUE}, id : {<<>>, <<Blank>>, <<idB>>}, named : {FALSE}, arguments : {"", "close"}]
           \cup [index : {-1, 0}, typed : {FALSE}, id : {<<idA>>}, named : {TRUE}, arguments : {"value"}]

MCChatWire ==
       {[type |-> t] : t \in {"malformed", "error", "choices", "done"}}
  \cup {[Bare EXCEPT !.usage = u, !.choice = c] : u \in {-1, 2}, c \in {-1, 1}}
  \cup {[Bare EXCEPT !.text = TRUE, !.refusal = TRUE]}
  \cup {[Bare EXCEPT !.call = k] : k \in Calls}
  \cup {[Bare EXCEPT !.finish = f, !.usage = u] : f \in {"", "stop", "tool_calls"}, u \in {Nothing, 1}}

MCMaxFrames == [messages |-> 7, chat |-> 4]
=============================================================================
