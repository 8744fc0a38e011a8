---------------------------- MODULE Conversation ----------------------------
(***************************************************************************)
(* What is in the message history of a workload and where it goes, over     *)
(* turns, summaries, tool results, crashes and resumes: the labels of the   *)
(* content and the policy verdicts under which it is sent, and the loop's   *)
(* check that a tool-call ID is used once.                                  *)
(*                                                                         *)
(* The loop keeps the IDs it has seen in memory; a resumed loop collects    *)
(* them again from the messages of its checkpoint.  A history is the set of *)
(* tool-call IDs in it and the set of its messages, each with its label     *)
(* (the highest of its parts) and its origin, the highest label of what it  *)
(* was made from.  What a model answers is labelled as the request says.    *)
(*                                                                         *)
(* A selection may fail for many reasons (no candidate is eligible, an      *)
(* approval is refused, nothing is left of the budget, the context ends):   *)
(* the run is over.  The verdict on one candidate does not depend on        *)
(* another's, so only those of the selected one are followed.               *)
(***************************************************************************)
EXTENDS Policy, Sequences, SequencesExt

CONSTANTS IDs,           \* IDs a model may give a call
          MaxTurns,      \* the model-call budget
          MaxBatch,      \* bound: calls in one response
          Compacting,    \* automatic compaction is on
          Candidates, Remote, \* models, and those outside the source zone
          Here,          \* the target of a tool: the source zone
          HasApprover,
          Requests,      \* what a caller asks for: labels of the request and of model output, the policy
          InitialClasses, ResultClasses \* labels of the first message and of tool results

ASSUME ConversationAssumption ==
  /\ MaxTurns \in Nat /\ MaxBatch \in Nat /\ Compacting \in BOOLEAN /\ HasApprover \in BOOLEAN
  /\ Remote \subseteq Candidates /\ Here \notin Candidates
  /\ Requests \subseteq [class : Classes, output : Classes, policy : {"baseline", "custom"}]
  /\ InitialClasses \subseteq Classes /\ ResultClasses \subseteq Classes

VARIABLES pc,        \* turn, compact, summary, place, send, respond, tools, down (crashed, resumable) or over
          turn, extra, \* the turn, and the summary calls made besides
          request,
          messages,  \* LoopResult.Messages
          selected,  \* the messages of the selection under way
          seen,      \* toolCallIDs
          saved,     \* messages of the last checkpoint
          placed,    \* the placement under way, with its verdicts
          sent,      \* the content of the request last sent to a model
          earlier,   \* a manifest evaluated before
          accepted,  \* history: IDs of every call the loop accepted
          reused     \* history: the ones accepted more than once

vars == <<pc, turn, extra, request, messages, selected, seen, saved, placed, sent, earlier, accepted, reused>>
loop == <<turn, request, seen, saved, accepted, reused>>

Histories == [ids : SUBSET IDs, parts : SUBSET [label : Classes, origin : Classes]]

Empty == [ids |-> {}, parts |-> {}]

Part(class) == [label |-> class, origin |-> class]

Highest(classes) == CHOOSE c \in classes : \A d \in classes : Rank(d) <= Rank(c)

\* modelManifest: labelled with the highest label in the content, and at least the request's.
ManifestOf(content) == Manifest(content, Highest({request.class} \cup {p.label : p \in content.parts}))

NoVerdict == FailClosed(Request(Manifest(Empty, "public"), "model", Here))

Nowhere == [candidate |-> Here, exec |-> NoVerdict, egress |-> NoVerdict, back |-> NoVerdict, approved |-> FALSE]

-----------------------------------------------------------------------------
\* Faulty variant: the IDs of earlier messages are forgotten.
RecallNothing(history) == {}

\* What a starting loop recalls of the messages it is given.
Recall(history) == history.ids

Init ==
  /\ pc = "turn" /\ turn = 1 /\ extra = 0
  /\ request \in Requests
  /\ messages \in [ids : SUBSET IDs, parts : {{Part(c)} : c \in InitialClasses}]
  /\ selected = Empty
  /\ seen = Recall(messages)
  /\ saved = Empty
  /\ placed = Nowhere /\ sent = Empty /\ earlier = NoVerdict.manifest
  /\ accepted = {} /\ reused = {}

\* Answers of the policy in use.
Answers(asked) ==
  IF request.policy = "baseline" THEN {Baseline(asked)}
  ELSE Arbitrary({asked.manifest, earlier}, {asked.scope} \cup [kind : {asked.scope.kind}, target : Candidates])

\* approve: no approver and secret content mean no.
MayApprove(class) == HasApprover /\ class # "secret"

\* The verdicts that may stand in the end: an approval turns its verdict into an allow.
Settled(verdict) ==
  IF RequiresApproval(verdict) /\ MayApprove(verdict.manifest.class)
  THEN {verdict, [verdict EXCEPT !.action = "allow"]} ELSE {verdict}

Execution(asked) == UNION {Settled(EvaluateExecutionPolicy(asked, a)) : a \in Answers(asked)}

\* Verdict and, as history, whether somebody approved.
Egress(asked) ==
  UNION {LET v == EvaluateDataEgressPolicy(asked, a)
         IN {[verdict |-> w, approved |-> w # v] : w \in Settled(v)} : a \in Answers(asked)}

Over == pc' = "over" /\ UNCHANGED <<turn, extra, request, messages, selected, seen, saved, placed, sent, earlier, accepted, reused>>

-----------------------------------------------------------------------------
Within == turn + extra <= MaxTurns

\* Messages above the request's label are left out of a summary.
Summarised(history) == {p \in history.parts : Rank(p.label) <= Rank(request.class)}

\* The text of the summary request, and of the summary.
Digested(history) ==
  [ids |-> {}, parts |-> {[label |-> request.class, origin |-> Highest({p.origin : p \in Summarised(history)})]}]

\* The loop's and the engine's limit on calls, and the size of the context.
SelectTurn ==
  /\ pc = "turn"
  /\ \/ ~Within /\ Over
     \/ /\ Within
        /\ pc' = "place" /\ selected' = messages
        /\ UNCHANGED <<loop, extra, messages, placed, sent, earlier>>
     \/ /\ Within /\ Compacting
        /\ turn + extra < MaxTurns /\ Summarised(messages) # {}
        /\ pc' = "compact" /\ selected' = Digested(messages)
        /\ UNCHANGED <<loop, extra, messages, placed, sent, earlier>>
     \/ Within /\ Compacting /\ Over

\* selectPlacement of some content: the verdicts on the candidate the router selects.
Placed(content) ==
  \E c \in Candidates :
    LET manifest == ManifestOf(content)
    IN \E exec \in Execution(Request(manifest, "model", c)), out \in Egress(Request(manifest, "out", c)) :
         /\ Allows(exec) /\ (c \in Remote => Allows(out.verdict))
         /\ placed' = [candidate |-> c, exec |-> exec,
                       egress |-> IF c \in Remote THEN out.verdict ELSE NoVerdict, back |-> NoVerdict,
                       approved |-> c \in Remote /\ out.approved]
         /\ earlier' = manifest

\* The summary call of prepareContext.
CallForSummary ==
  /\ pc = "compact"
  /\ \/ Over
     \/ /\ Placed(selected)
        /\ pc' = "summary" /\ sent' = selected /\ extra' = extra + 1
        /\ UNCHANGED <<loop, messages, selected>>

\* The way back of an answer, from a model in another zone.
Returned ==
  \/ placed.candidate \notin Remote /\ UNCHANGED placed
  \/ /\ placed.candidate \in Remote
     /\ \E back \in Egress(Request(Manifest(Empty, request.output), "back", placed.candidate)) :
          Allows(back.verdict) /\ placed' = [placed EXCEPT !.back = back.verdict]

\* The summary takes the place of the history, unless its label is above the request's.
TakeSummary ==
  /\ pc = "summary"
  /\ \/ Over
     \/ /\ Returned /\ Rank(request.output) <= Rank(request.class)
        /\ pc' = "place"
        /\ UNCHANGED <<loop, extra, messages, selected, sent, earlier>>

\* What policy sees is what the selection hands to the loop.
PlaceTurn ==
  /\ pc = "place"
  /\ \/ Over
     \/ /\ Placed(selected)
        /\ pc' = "send"
        /\ UNCHANGED <<loop, extra, messages, selected, sent>>

\* The loop takes over the selection's messages and sends them.
Send ==
  /\ pc = "send"
  /\ pc' = "respond"
  /\ messages' = selected /\ sent' = selected
  /\ UNCHANGED <<loop, extra, selected, placed, earlier>>

\* assistantMessage refuses an ID that was seen, in this response or before.
Duplicate(ids) == ~IsInjective(ids) \/ ToSet(ids) \cap seen # {}

\* A response with calls, or one that ends the loop.
Respond ==
  /\ pc = "respond"
  /\ \/ Over
     \/ /\ Returned
        /\ \E ids \in BoundedSeq(IDs, MaxBatch) \ {<<>>} :
             /\ ~Duplicate(ids)
             /\ pc' = "tools"
             /\ messages' = [ids |-> messages.ids \cup ToSet(ids), parts |-> messages.parts \cup {Part(request.output)}]
             /\ seen' = seen \cup ToSet(ids)
             /\ accepted' = accepted \cup ToSet(ids)
             /\ reused' = reused \cup (accepted \cap ToSet(ids))
        /\ UNCHANGED <<turn, extra, request, selected, saved, sent, earlier>>

\* Labels of results.  A call that fails before policy is asked (an undeclared tool, invalid input, a
\* denied sandbox) has the label of the request; a tool runs only if policy or an approval allows it.
Results ==
  {request.class} \cup
  {class \in ResultClasses :
     \E v \in Execution(Request(Manifest(Empty, request.output), "tool", Here)) : Allows(v)}

\* The tools run, or a denial ends the loop; the turn's checkpoint holds their results.
RunTools ==
  /\ pc = "tools"
  /\ \/ Over
     \/ /\ \E class \in Results : messages' = [messages EXCEPT !.parts = @ \cup {Part(class)}]
        /\ pc' = "turn" /\ turn' = turn + 1
        /\ saved' = messages'
        /\ selected' = Empty /\ placed' = Nowhere /\ sent' = Empty
        /\ UNCHANGED <<extra, request, seen, earlier, accepted, reused>>

\* Verdicts, placements and approvals leave the last checkpoint usable; a reservation does not.
Resumable == pc \in {"turn", "compact", "place"} /\ turn > 1 /\ placed = Nowhere

\* A crash loses the memory.  Only a workload with a usable checkpoint resumes.
Crash ==
  /\ pc \notin {"down", "over"}
  /\ pc' = IF Resumable THEN "down" ELSE "over"
  /\ messages' = Empty /\ seen' = {} /\ selected' = Empty /\ placed' = Nowhere /\ sent' = Empty
  /\ UNCHANGED <<turn, extra, request, saved, earlier, accepted, reused>>

Resume ==
  /\ pc = "down"
  /\ pc' = "turn"
  /\ messages' = saved
  /\ seen' = Recall(saved)
  /\ UNCHANGED <<turn, extra, request, selected, saved, placed, sent, earlier, accepted, reused>>

Next ==
  SelectTurn \/ CallForSummary \/ TakeSummary \/ PlaceTurn \/ Send \/ Respond \/ RunTools \/ Crash \/ Resume

Spec == Init /\ [][Next]_vars

-----------------------------------------------------------------------------
\* No two accepted calls of a workload share an ID.
UniqueToolCallIDs == reused = {}

\* As long as no summary was made a duplicate is refused, also when the first use of the ID lies before
\* a crash that the workload was resumed after.
UniqueUntilSummary == extra = 0 => UniqueToolCallIDs

\* A label covers what the content was made from: a summary cannot bring content into circulation under
\* a lower label than it had, since messages above the request's label are excluded from it.
LabelsCover ==
  \A h \in {messages, selected, saved, sent} : \A p \in h.parts : Rank(p.origin) <= Rank(p.label)

\* Secret content never reaches a model, whatever the policy answers, and not inside a summary either.
SecretStays == \A p \in sent.parts : p.origin # "secret"

\* A request goes out under an allow verdict for exactly the content that is sent, after a summary too,
\* and under a second one when it leaves the zone; what a model in another zone answers enters the
\* history, or a summary, under one for its way back.  A verdict for other content or another target
\* does not count.
SentAsEvaluated ==
  LET Covers(verdict, manifest, kind) == verdict = Verdict("allow", Request(manifest, kind, placed.candidate))
      away == placed.candidate \in Remote
  IN /\ pc \in {"summary", "respond"} => /\ Covers(placed.exec, ManifestOf(sent), "model")
                                         /\ away => Covers(placed.egress, ManifestOf(sent), "out")
     /\ pc \in {"tools", "place"} /\ away => Covers(placed.back, Manifest(Empty, request.output), "back")

\* Under the baseline policy content that is not public leaves the zone only with an approval.
BaselineKeepsZone ==
  pc \in {"summary", "respond"} /\ request.policy = "baseline" /\ placed.candidate \in Remote
    /\ (\E p \in sent.parts : p.origin # "public")
  => placed.approved
=============================================================================
