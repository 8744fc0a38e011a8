----------------------------- MODULE LabelProofs -----------------------------
(***************************************************************************)
(* Machine-checked proofs about the two places where content leaves under   *)
(* its label: what a loop sends to models, for any policy, candidates,      *)
(* labels, budget and tool-call IDs, and what observers are shown, for any  *)
(* number of slots, executions, emitters and records.                       *)
(***************************************************************************)
EXTENDS Conversation, Observation, FiniteSetTheorems, TLAPS

-----------------------------------------------------------------------------
(* The conversation.                                                       *)

(* The labels are ordered by their rank.                                   *)
LEMMA RankFacts ==
  /\ Rank("public") = 0 /\ Rank("internal") = 1 /\ Rank("confidential") = 2 /\ Rank("secret") = 3
  /\ \A c \in Classes : Rank(c) \in 0 .. 3
  /\ \A c, d \in Classes : Rank(c) = Rank(d) => c = d
<1>1. Rank("public") = 0 /\ Rank("internal") = 1 /\ Rank("confidential") = 2 /\ Rank("secret") = 3
  BY DEF Rank
<1> QED
  BY <1>1 DEF Classes

(* A set of labels has a highest one.                                      *)
LEMMA HighestFacts ==
  ASSUME NEW classes \in SUBSET Classes, classes # {}
  PROVE  Highest(classes) \in classes /\ \A d \in classes : Rank(d) <= Rank(Highest(classes))
<1>1. \E c \in classes : \A d \in classes : Rank(d) <= Rank(c)
  <2>1. CASE "secret" \in classes
    BY <2>1, RankFacts
  <2>2. CASE "secret" \notin classes /\ "confidential" \in classes
    BY <2>2, RankFacts DEF Classes
  <2>3. CASE "secret" \notin classes /\ "confidential" \notin classes /\ "internal" \in classes
    BY <2>3, RankFacts DEF Classes
  <2>4. CASE classes = {"public"}
    BY <2>4, RankFacts
  <2> QED
    BY <2>1, <2>2, <2>3, <2>4 DEF Classes
<1> QED
  BY <1>1 DEF Highest

(* A verdict that counts is about the request it was asked for.            *)
LEMMA CheckedFacts ==
  ASSUME NEW asked, NEW answer
  PROVE  \E action : Checked(asked, answer) = Verdict(action, asked)
BY DEF Checked, IsAbout, FailClosed, Verdict

(* So is one that an approval has turned into an allow.                    *)
LEMMA SettledFacts ==
  ASSUME NEW asked, NEW action, NEW settled \in Settled(Verdict(action, asked)), Allows(settled)
  PROVE  /\ settled = Verdict("allow", asked)
         /\ action # "allow" => action = "require_approval" /\ settled # Verdict(action, asked)
BY DEF Settled, Allows, RequiresApproval, Verdict

(* An execution verdict that allows is about its request, and a model is   *)
(* never allowed secret content.                                           *)
LEMMA ExecutionFacts ==
  ASSUME NEW asked, NEW exec \in Execution(asked), Allows(exec)
  PROVE  exec = Verdict("allow", asked) /\ ~KeptFromModels(asked)
<1>1. PICK answer \in Answers(asked) : exec \in Settled(EvaluateExecutionPolicy(asked, answer))
  BY DEF Execution
<1>2. PICK action : /\ EvaluateExecutionPolicy(asked, answer) = Verdict(action, asked)
                    /\ KeptFromModels(asked) => action = "deny"
  BY CheckedFacts DEF EvaluateExecutionPolicy, FailClosed
<1> QED
  BY <1>1, <1>2, SettledFacts

(* An egress verdict that allows is about its request; under the baseline  *)
(* policy content that is not public has been approved.                    *)
LEMMA EgressFacts ==
  ASSUME NEW asked, NEW out \in Egress(asked), Allows(out.verdict)
  PROVE  /\ out.verdict = Verdict("allow", asked)
         /\ request.policy = "baseline" /\ asked.scope.kind = "out" /\ asked.manifest.class # "public" => out.approved
<1>1. PICK answer \in Answers(asked) :
        \E w \in Settled(EvaluateDataEgressPolicy(asked, answer)) :
          out = [verdict |-> w, approved |-> w # EvaluateDataEgressPolicy(asked, answer)]
  BY DEF Egress
<1>2. PICK action : EvaluateDataEgressPolicy(asked, answer) = Verdict(action, asked)
  BY CheckedFacts DEF EvaluateDataEgressPolicy
<1>3. out.verdict = Verdict("allow", asked) /\ (action # "allow" => out.approved)
  <2>1. PICK w \in Settled(Verdict(action, asked)) : out = [verdict |-> w, approved |-> w # Verdict(action, asked)]
    BY <1>1, <1>2
  <2>2. out.verdict = w /\ (out.approved <=> w # Verdict(action, asked))
    BY <2>1
  <2>3. w = Verdict("allow", asked) /\ (action # "allow" => w # Verdict(action, asked))
    BY <2>2, SettledFacts
  <2> QED
    BY <2>2, <2>3
<1>4. ASSUME request.policy = "baseline", asked.scope.kind = "out", asked.manifest.class # "public"
      PROVE  action # "allow"
  <2>1. answer = Sound(BaselineEgress(asked), asked.manifest, asked.scope)
    BY <1>4 DEF Answers, Baseline
  <2>2. BaselineEgress(asked) # "allow"
    BY <1>4 DEF BaselineEgress
  <2>3. Verdict(action, asked).action = BaselineEgress(asked)
    BY <1>2, <2>1 DEF EvaluateDataEgressPolicy, Checked, Sound, IsAbout
  <2> QED
    BY <2>2, <2>3 DEF Verdict
<1> QED
  BY <1>3, <1>4

-----------------------------------------------------------------------------
\* What the verdicts of a placement say of some content.
Covered(content) ==
  /\ placed.exec = Verdict("allow", Request(ManifestOf(content), "model", placed.candidate))
  /\ placed.candidate \in Remote =>
       placed.egress = Verdict("allow", Request(ManifestOf(content), "out", placed.candidate))
  /\ ManifestOf(content).class # "secret"
  /\ request.policy = "baseline" /\ placed.candidate \in Remote /\ ManifestOf(content).class # "public" => placed.approved

(* A placement covers what was selected.                                   *)
LEMMA PlacedFacts ==
  ASSUME Placed(selected), UNCHANGED <<request, selected>>
  PROVE  Covered(selected)' /\ ManifestOf(selected).class # "secret"
<1> DEFINE manifest == ManifestOf(selected)
<1>1. PICK c \in Candidates :
        \E exec \in Execution(Request(manifest, "model", c)), out \in Egress(Request(manifest, "out", c)) :
          /\ Allows(exec) /\ (c \in Remote => Allows(out.verdict))
          /\ placed' = [candidate |-> c, exec |-> exec, egress |-> IF c \in Remote THEN out.verdict ELSE NoVerdict,
                        back |-> NoVerdict, approved |-> c \in Remote /\ out.approved]
  BY DEF Placed
<1>6. PICK exec \in Execution(Request(manifest, "model", c)), out \in Egress(Request(manifest, "out", c)) :
         /\ Allows(exec) /\ (c \in Remote => Allows(out.verdict))
         /\ placed' = [candidate |-> c, exec |-> exec, egress |-> IF c \in Remote THEN out.verdict ELSE NoVerdict,
                       back |-> NoVerdict, approved |-> c \in Remote /\ out.approved]
  BY <1>1
<1>2. exec = Verdict("allow", Request(manifest, "model", c)) /\ ~KeptFromModels(Request(manifest, "model", c))
  BY <1>6, ExecutionFacts
<1>3. c \in Remote => /\ out.verdict = Verdict("allow", Request(manifest, "out", c))
                      /\ request.policy = "baseline" /\ manifest.class # "public" => out.approved
  <2> SUFFICES ASSUME c \in Remote
               PROVE  /\ out.verdict = Verdict("allow", Request(manifest, "out", c))
                      /\ request.policy = "baseline" /\ manifest.class # "public" => out.approved
    OBVIOUS
  <2> DEFINE asked == Request(manifest, "out", c)
  <2>1. asked.scope.kind = "out" /\ asked.manifest = manifest
    BY DEF Request
  <2> HIDE DEF asked, manifest
  <2> QED
    BY <1>6, <2>1, EgressFacts DEF asked
<1>4. manifest.class # "secret"
  BY <1>2 DEF KeptFromModels, Request
<1>5. ManifestOf(selected)' = ManifestOf(selected)
  BY DEF ManifestOf
<1>7. /\ placed'.candidate = c /\ placed'.exec = exec
      /\ c \in Remote => placed'.egress = out.verdict
      /\ c \in Remote /\ out.approved => placed'.approved
  BY <1>6
<1>8. ManifestOf(selected)' = manifest
  BY <1>5
<1> HIDE DEF manifest
<1>9. /\ (placed.exec = Verdict("allow", Request(ManifestOf(selected), "model", placed.candidate)))'
      /\ c \in Remote => (placed.egress = Verdict("allow", Request(ManifestOf(selected), "out", placed.candidate)))'
  BY <1>2, <1>3, <1>7, <1>8 DEF Verdict, Request
<1>10. /\ ManifestOf(selected)'.class # "secret"
       /\ request'.policy = "baseline" /\ c \in Remote /\ ManifestOf(selected)'.class # "public" => placed'.approved
  BY <1>3, <1>4, <1>7, <1>8
<1> QED
  BY <1>4, <1>7, <1>9, <1>10 DEF Covered, manifest

-----------------------------------------------------------------------------
\* Types without the bound on calls.
ContentOK ==
  /\ request \in Requests
  /\ messages \in Histories /\ selected \in Histories /\ saved \in Histories /\ sent \in Histories

\* What is selected has been placed before it is sent.
PlacementInv ==
  /\ pc \in {"summary", "send", "respond"} => Covered(selected)
  /\ pc \in {"summary", "respond"} => sent = selected

\* A selection starts without a placement, and an answer from another zone was allowed back.
BackInv ==
  /\ placed = [candidate |-> placed.candidate, exec |-> placed.exec, egress |-> placed.egress,
               back |-> placed.back, approved |-> placed.approved]
  /\ pc \in {"turn", "compact", "down"} => placed = Nowhere
  /\ pc \in {"tools", "place"} /\ placed.candidate \in Remote =>
       placed.back = Verdict("allow", Request(Manifest(Empty, request.output), "back", placed.candidate))

ContentInv == ContentOK /\ LabelsCover /\ PlacementInv /\ BackInv /\ SecretStays

(* An answer that is taken from another zone has a verdict for its way     *)
(* back.                                                                   *)
LEMMA ReturnedFacts ==
  ASSUME BackInv, Returned, UNCHANGED request, pc' \in {"tools", "place"}
  PROVE  BackInv'
<1>1. CASE placed.candidate \notin Remote /\ UNCHANGED placed
  BY <1>1 DEF BackInv
<1>2. CASE placed.candidate \in Remote
  <2> DEFINE asked == Request(Manifest(Empty, request.output), "back", placed.candidate)
  <2>1. PICK back \in Egress(asked) : Allows(back.verdict) /\ placed' = [placed EXCEPT !.back = back.verdict]
    BY <1>2 DEF Returned
  <2>3. back.verdict = Verdict("allow", asked)
    BY <2>1, EgressFacts
  <2> HIDE DEF asked
  <2>4. placed' = [candidate |-> placed.candidate, exec |-> placed.exec, egress |-> placed.egress,
                   back |-> back.verdict, approved |-> placed.approved]
    BY <2>1 DEF BackInv
  <2>5. /\ placed'.candidate = placed.candidate /\ placed'.exec = placed.exec /\ placed'.egress = placed.egress
        /\ placed'.back = back.verdict /\ placed'.approved = placed.approved
    BY <2>4
  <2>6. placed'.back = Verdict("allow", Request(Manifest(Empty, request'.output), "back", placed'.candidate))
    BY <2>3, <2>5 DEF asked
  <2>7. placed' = [candidate |-> placed'.candidate, exec |-> placed'.exec, egress |-> placed'.egress,
                   back |-> placed'.back, approved |-> placed'.approved]
    BY <2>4, <2>5
  <2> QED
    BY <2>6, <2>7 DEF BackInv
<1> QED
  BY <1>1, <1>2 DEF Returned

(* Content whose manifest is not secret has no secret origin; and content  *)
(* of an origin that is not public has a manifest that is not.             *)
LEMMA ManifestFacts ==
  ASSUME ContentOK, NEW content \in Histories, \A p \in content.parts : Rank(p.origin) <= Rank(p.label),
         NEW p \in content.parts
  PROVE  /\ ManifestOf(content).class # "secret" => p.origin # "secret"
         /\ p.origin # "public" => ManifestOf(content).class # "public"
<1> DEFINE labels == {request.class} \cup {q.label : q \in content.parts}
<1>1. labels \in SUBSET Classes /\ p.label \in labels /\ p.origin \in Classes
  BY ConversationAssumption DEF ContentOK, Histories
<1>2. ManifestOf(content).class = Highest(labels)
  BY DEF ManifestOf, Manifest
<1> HIDE DEF labels
<1>3. Highest(labels) \in Classes /\ Rank(p.label) <= Rank(Highest(labels))
  BY <1>1, HighestFacts
<1>4. Rank(p.origin) <= Rank(Highest(labels))
  BY <1>1, <1>3, RankFacts
<1> QED
  BY <1>1, <1>2, <1>3, <1>4, RankFacts

(* The label of a summary covers what it was made from.                    *)
LEMMA DigestedFacts ==
  ASSUME ContentOK, NEW history \in Histories, \A p \in history.parts : Rank(p.origin) <= Rank(p.label),
         Summarised(history) # {}
  PROVE  Digested(history) \in Histories /\ \A p \in Digested(history).parts : Rank(p.origin) <= Rank(p.label)
<1> DEFINE origins == {p.origin : p \in Summarised(history)}
<1>1. origins \in SUBSET Classes /\ origins # {} /\ request.class \in Classes
  BY ConversationAssumption DEF Summarised, ContentOK, Histories
<1>2. \A o \in origins : Rank(o) <= Rank(request.class)
  <2> SUFFICES ASSUME NEW p \in Summarised(history) PROVE Rank(p.origin) <= Rank(request.class)
    OBVIOUS
  <2>1. p \in history.parts /\ p.origin \in Classes /\ p.label \in Classes /\ Rank(p.label) <= Rank(request.class)
    BY DEF Summarised, Histories
  <2> QED
    BY <1>1, <2>1, RankFacts
<1>3. Digested(history) = [ids |-> {}, parts |-> {[label |-> request.class, origin |-> Highest(origins)]}]
  BY DEF Digested
<1> HIDE DEF origins
<1>4. Highest(origins) \in origins
  BY <1>1, HighestFacts
<1> QED
  BY <1>1, <1>2, <1>3, <1>4 DEF Histories

(* Every step keeps the invariant.                                         *)
LEMMA ContentStep == ContentInv /\ [Next]_vars => ContentInv'
<1> SUFFICES ASSUME ContentInv, [Next]_vars PROVE ContentInv'
  OBVIOUS
<1> USE DEF ContentInv, loop
<1>1. ASSUME UNCHANGED <<request, messages, selected, saved, sent, placed>>,
             pc' = pc \/ pc' = "over"
      PROVE  ContentInv'
  <2>1. Covered(selected)' <=> Covered(selected)
    BY <1>1 DEF Covered, ManifestOf
  <2>2. BackInv'
    BY <1>1 DEF BackInv
  <2> QED
    BY <1>1, <2>1, <2>2 DEF ContentOK, LabelsCover, PlacementInv, SecretStays
<1>2. CASE UNCHANGED vars
  BY <1>1, <1>2 DEF vars
<1>3. CASE Over
  BY <1>1, <1>3 DEF Over
<1>4. CASE SelectTurn /\ ~Over
  <2>1. /\ UNCHANGED <<request, messages, saved, sent, placed>> /\ pc = "turn" /\ pc' \in {"place", "compact"}
        /\ selected' = messages \/ (Summarised(messages) # {} /\ selected' = Digested(messages))
    BY <1>4 DEF SelectTurn
  <2>2. selected' \in Histories /\ \A p \in selected'.parts : Rank(p.origin) <= Rank(p.label)
    BY <2>1, DigestedFacts DEF ContentOK, LabelsCover
  <2>3. BackInv'
    <3>1. placed = Nowhere /\ Nowhere.candidate = Here /\ Here \notin Remote
      BY <2>1, ConversationAssumption DEF BackInv, Nowhere
    <3> QED
      BY <2>1, <3>1 DEF BackInv
  <2> QED
    BY <2>1, <2>2, <2>3 DEF ContentOK, LabelsCover, PlacementInv, SecretStays
<1>5. ASSUME Placed(selected), UNCHANGED <<request, messages, selected, saved>>,
             (pc' = "summary" /\ sent' = selected) \/ (pc' = "send" /\ UNCHANGED sent)
      PROVE  ContentInv'
  <2>1. Covered(selected)' /\ ManifestOf(selected).class # "secret"
    BY <1>5, PlacedFacts
  <2>2. \A p \in selected.parts : p.origin # "secret"
    BY <2>1, ManifestFacts DEF ContentOK, LabelsCover
  <2>3. ContentOK' /\ LabelsCover' /\ SecretStays'
    BY <1>5, <2>2 DEF ContentOK, LabelsCover, SecretStays
  <2>4. BackInv'
    <3>1. PICK c, x, y, a : placed' = [candidate |-> c, exec |-> x, egress |-> y, back |-> NoVerdict, approved |-> a]
      BY <1>5 DEF Placed
    <3> QED
      BY <1>5, <3>1 DEF BackInv
  <2> QED
    BY <1>5, <2>1, <2>3, <2>4 DEF PlacementInv
<1>6. CASE Send
  <2>1. pc = "send" /\ pc' = "respond" /\ messages' = selected /\ sent' = selected
        /\ UNCHANGED <<request, selected, saved, placed>>
    BY <1>6 DEF Send
  <2>2. Covered(selected)' /\ Covered(selected)
    BY <2>1 DEF PlacementInv, Covered, ManifestOf
  <2>3. \A p \in selected.parts : p.origin # "secret"
    BY <2>2, ManifestFacts DEF Covered, ContentOK, LabelsCover
  <2>4. ContentOK' /\ LabelsCover' /\ SecretStays'
    BY <2>1, <2>3 DEF ContentOK, LabelsCover, SecretStays
  <2>5. BackInv'
    BY <2>1 DEF BackInv
  <2> QED
    BY <2>1, <2>2, <2>4, <2>5 DEF PlacementInv
<1>7. ASSUME UNCHANGED request, pc' \notin {"summary", "send", "respond"}, BackInv',
             \A h \in {messages', selected', saved', sent'} :
               h \in Histories /\ \A p \in h.parts : Rank(p.origin) <= Rank(p.label),
             sent' = sent \/ sent' = Empty
      PROVE  ContentInv'
  BY <1>7 DEF ContentOK, LabelsCover, PlacementInv, SecretStays, Empty
<1>8. \A class \in Classes, ids \in SUBSET IDs :
        LET h == [ids |-> messages.ids \cup ids, parts |-> messages.parts \cup {Part(class)}]
        IN h \in Histories /\ \A p \in h.parts : Rank(p.origin) <= Rank(p.label)
  BY RankFacts DEF ContentOK, LabelsCover, Histories, Part
<1>9. Empty \in Histories /\ Empty.parts = {}
  BY DEF Empty, Histories
<1>10. CASE Respond /\ ~Over
  <2>1. PICK ids \in BoundedSeq(IDs, MaxBatch) :
          messages' = [ids |-> messages.ids \cup ToSet(ids), parts |-> messages.parts \cup {Part(request.output)}]
    BY <1>10 DEF Respond
  <2>2. ToSet(ids) \in SUBSET IDs /\ request.output \in Classes
    BY ConversationAssumption DEF BoundedSeq, SeqOf, ToSet, ContentOK
  <2>3. messages' \in Histories /\ \A p \in messages'.parts : Rank(p.origin) <= Rank(p.label)
    BY <1>8, <2>1, <2>2
  <2>4. pc' = "tools" /\ UNCHANGED <<request, selected, saved, sent>>
    BY <1>10 DEF Respond
  <2>5. BackInv'
    BY <1>10, <2>4, ReturnedFacts DEF Respond
  <2> QED
    BY <1>7, <2>3, <2>4, <2>5 DEF ContentOK, LabelsCover
<1>16. ASSUME placed' = Nowhere, pc' \in {"turn", "down", "over"} PROVE BackInv'
  BY <1>16 DEF BackInv, Nowhere
<1>11. CASE RunTools /\ ~Over
  <2>1. PICK class \in Results : messages' = [messages EXCEPT !.parts = @ \cup {Part(class)}]
    BY <1>11 DEF RunTools
  <2>2. messages' = [ids |-> messages.ids \cup {}, parts |-> messages.parts \cup {Part(class)}]
    BY <2>1 DEF ContentOK, Histories
  <2>3. messages' \in Histories /\ \A p \in messages'.parts : Rank(p.origin) <= Rank(p.label)
    BY <1>8, <2>2, ConversationAssumption DEF Results, ContentOK
  <2>4. /\ pc' = "turn" /\ saved' = messages' /\ selected' = Empty /\ sent' = Empty
        /\ placed' = Nowhere /\ UNCHANGED request
    BY <1>11 DEF RunTools
  <2> QED
    BY <1>7, <1>9, <1>16, <2>3, <2>4
<1>12. CASE Crash
  BY <1>7, <1>9, <1>12, <1>16 DEF Crash, ContentOK, LabelsCover
<1>13. CASE Resume
  <2>1. BackInv'
    BY <1>13, <1>16 DEF Resume, BackInv
  <2> QED
    BY <1>7, <1>13, <2>1 DEF Resume, ContentOK, LabelsCover
<1>14. CASE TakeSummary
  <2>1. CASE ~Over
    <3>1. pc' = "place" /\ UNCHANGED <<request, messages, selected, saved, sent>> /\ Returned
      BY <1>14, <2>1 DEF TakeSummary
    <3>2. BackInv'
      BY <3>1, ReturnedFacts
    <3> QED
      BY <1>7, <3>1, <3>2 DEF ContentOK, LabelsCover
  <2> QED
    BY <1>3, <2>1
<1>15. CASE CallForSummary \/ PlaceTurn
  BY <1>3, <1>5, <1>15 DEF CallForSummary, PlaceTurn
<1> QED
  BY <1>2, <1>3, <1>4, <1>6, <1>10, <1>11, <1>12, <1>13, <1>14, <1>15 DEF Next

(* The invariant holds at the start.                                       *)
LEMMA ContentStart == Init => ContentInv
<1> SUFFICES ASSUME Init PROVE ContentInv
  OBVIOUS
<1>1. PICK ids \in SUBSET IDs, class \in InitialClasses : messages = [ids |-> ids, parts |-> {Part(class)}]
  BY DEF Init
<1>2. class \in Classes
  BY ConversationAssumption
<1>3. BackInv
  BY DEF Init, BackInv, Nowhere
<1>4. ContentOK /\ LabelsCover /\ PlacementInv /\ SecretStays
  BY <1>1, <1>2, RankFacts
     DEF Init, Part, Empty, ContentOK, Histories, LabelsCover, PlacementInv, SecretStays
<1> QED
  BY <1>3, <1>4 DEF ContentInv

(* Secret content never reaches a model, whatever the policy answers       *)
(* (EvaluateExecutionPolicy, compactionMessages).                          *)
THEOREM SecretAlwaysStays == Spec => []SecretStays
<1>1. ContentInv => SecretStays
  BY DEF ContentInv
<1> QED
  BY <1>1, ContentStart, ContentStep, PTL DEF Spec

(* A request goes out under allow verdicts for exactly its content and     *)
(* target (selectPlacement, SelectTurn, prepareContext).                   *)
THEOREM AlwaysSentAsEvaluated == Spec => []SentAsEvaluated
<1>1. ContentInv => SentAsEvaluated
  BY DEF ContentInv, PlacementInv, BackInv, Covered, SentAsEvaluated
<1> QED
  BY <1>1, ContentStart, ContentStep, PTL DEF Spec

(* Under the baseline policy content that is not public leaves the zone    *)
(* only with an approval (policy/baseline, EvaluateDataEgressPolicy).      *)
THEOREM BaselineAlwaysKeepsZone == Spec => []BaselineKeepsZone
<1>1. ContentInv => BaselineKeepsZone
  <2> SUFFICES ASSUME ContentInv, pc \in {"summary", "respond"}, request.policy = "baseline",
                      placed.candidate \in Remote, NEW p \in sent.parts, p.origin # "public"
               PROVE  placed.approved
    BY DEF BaselineKeepsZone
  <2>1. Covered(selected) /\ sent = selected
    BY DEF ContentInv, PlacementInv
  <2>2. ManifestOf(selected).class # "public"
    BY <2>1, ManifestFacts DEF ContentInv, ContentOK, LabelsCover
  <2> QED
    BY <2>1, <2>2 DEF Covered
<1> QED
  BY <1>1, ContentStart, ContentStep, PTL DEF Spec

-----------------------------------------------------------------------------
\* Until a summary is made every accepted ID is remembered: in memory, in the messages, and in
\* the checkpoint a resume would start from.
RememberedInv ==
  /\ extra \in Nat /\ turn \in Nat /\ turn > 0
  /\ pc = "summary" => extra > 0
  /\ pc = "down" => turn > 1
  /\ extra = 0 =>
       /\ reused = {}
       /\ pc \notin {"down", "over"} => accepted \subseteq seen /\ accepted \subseteq messages.ids
       /\ pc \in {"place", "send"} => accepted \subseteq selected.ids
       /\ pc \in {"turn", "compact", "place", "down"} /\ turn > 1 => accepted \subseteq saved.ids

(* Every step keeps the invariant.                                         *)
LEMMA RememberedStep == ContentInv /\ RememberedInv /\ [Next]_vars => RememberedInv'
<1> SUFFICES ASSUME ContentInv, RememberedInv, [Next]_vars PROVE RememberedInv'
  OBVIOUS
<1> USE DEF RememberedInv, loop
<1>1. CASE UNCHANGED vars
  BY <1>1 DEF vars
<1>2. CASE Over
  BY <1>2 DEF Over
<1>3. CASE SelectTurn /\ ~Over
  BY <1>3 DEF SelectTurn
<1>4. CASE CallForSummary /\ ~Over
  BY <1>4 DEF CallForSummary
<1>5. CASE (TakeSummary \/ PlaceTurn) /\ ~Over
  BY <1>5 DEF TakeSummary, PlaceTurn
<1>6. CASE Send
  BY <1>6 DEF Send
<1>7. CASE Respond /\ ~Over
  BY <1>7 DEF Respond, Duplicate
<1>8. CASE RunTools /\ ~Over
  <2>1. PICK class \in Results : messages' = [messages EXCEPT !.parts = @ \cup {Part(class)}]
    BY <1>8 DEF RunTools
  <2>2. messages'.ids = messages.ids
    BY <2>1 DEF ContentInv, ContentOK, Histories
  <2> QED
    BY <1>8, <2>2 DEF RunTools
<1>9. CASE Crash
  BY <1>9 DEF Crash, Resumable
<1>10. CASE Resume
  BY <1>10 DEF Resume, Recall
<1> QED
  BY <1>1, <1>2, <1>3, <1>4, <1>5, <1>6, <1>7, <1>8, <1>9, <1>10 DEF Next

(* Until a summary is made no tool-call ID is accepted twice, over crashes *)
(* and resumes (assistantMessage, loop.Run).                               *)
THEOREM IDsStayUniqueUntilSummary == Spec => []UniqueUntilSummary
<1>1. Init => RememberedInv
  BY DEF Init, RememberedInv
<1>2. RememberedInv => UniqueUntilSummary
  BY DEF RememberedInv, UniqueUntilSummary, UniqueToolCallIDs
<1> QED
  BY <1>1, <1>2, ContentStart, ContentStep, RememberedStep, PTL DEF Spec

-----------------------------------------------------------------------------
(* The observers.                                                          *)

\* Numbers in use have been taken from the sequence of their execution.
NumbersAreTaken ==
  /\ \A c \in callbacks : c.number <= sequence[c.run]
  /\ \A e \in Emitters : held[e] <= sequence[RunOf[e]] /\ (stage[e] # "work" => held[e] > 0)

\* The pool counts callbacks that the numbers keep apart.
Inv ==
  /\ TypeOK /\ NumbersAreTaken /\ NumbersAreUnique
  /\ IsFiniteSet(callbacks) /\ SlotsAreAccounted

(* What NewRecord lets through is a record with a valid label.             *)
LEMMA SafeRecords ==
  ASSUME NEW raw \in Raw, NEW record \in Safe(raw)
  PROVE  record \in Records
<1>1. Safe(raw) = NewRecord(raw)
  BY DEF Safe
<1> DEFINE label == Effective(raw.label)
<1>2. /\ label \in Classes
      /\ record = [label |-> label, content |-> raw.content /\ MayShow(label),
                   attrs |-> raw.attrs = "known" /\ MayShow(label)]
  BY <1>1 DEF NewRecord
<1> HIDE DEF label
<1> QED
  BY <1>2 DEF Records, Raw

(* A callback that takes the place of another leaves their number alone.   *)
LEMMA Replacement ==
  ASSUME Inv, NEW c \in callbacks, NEW d \in Callbacks, d.run = c.run, d.number = c.number,
         callbacks' = (callbacks \ {c}) \cup {d}
  PROVE  IsFiniteSet(callbacks') /\ Cardinality(callbacks') = Cardinality(callbacks)
<1>1. IsFiniteSet(callbacks \ {c}) /\ Cardinality(callbacks \ {c}) = Cardinality(callbacks) - 1
  BY FS_RemoveElement DEF Inv
<1>2. d \notin callbacks \ {c}
  BY DEF Inv, NumbersAreUnique
<1>3. /\ IsFiniteSet(callbacks')
      /\ Cardinality(callbacks') = Cardinality(callbacks \ {c}) + 1
  BY <1>1, <1>2, FS_AddElement
<1>4. Cardinality(callbacks) \in Nat
  BY FS_CardinalityType DEF Inv
<1> QED
  BY <1>1, <1>3, <1>4

(* So does the end of a context.                                           *)
LEMMA Cancellation ==
  ASSUME Inv, NEW r \in Runs, Cancel(r)
  PROVE  IsFiniteSet(callbacks') /\ Cardinality(callbacks') = Cardinality(callbacks)
<1> DEFINE Ended(c) == IF c.run = r /\ c.attached THEN [c EXCEPT !.late = TRUE] ELSE c
           f == [c \in callbacks |-> Ended(c)]
<1>1. callbacks' = {Ended(c) : c \in callbacks}
  BY DEF Cancel
<1>2. \A c \in callbacks : Ended(c).run = c.run /\ Ended(c).number = c.number
  BY DEF Inv, TypeOK, Callbacks
<1>3. \A c, d \in callbacks : Ended(c) = Ended(d) => c = d
  <2> HIDE DEF Ended
  <2> QED BY <1>2 DEF Inv, NumbersAreUnique
<1> HIDE DEF Ended
<1>4. f \in Bijection(callbacks, callbacks')
  BY <1>1, <1>3 DEF Bijection, Injection, Surjection, IsInjective
<1>5. ExistsBijection(callbacks, callbacks')
  BY <1>4 DEF ExistsBijection
<1> QED
  BY <1>5, FS_Bijection DEF Inv

(* A callback that ends leaves one slot and one callback less.             *)
LEMMA Ending ==
  ASSUME Inv, NEW c \in callbacks, Release(c)
  PROVE  slots' \in Nat /\ IsFiniteSet(callbacks') /\ SlotsAreAccounted'
<1>1. IsFiniteSet(callbacks \ {c}) /\ Cardinality(callbacks \ {c}) = Cardinality(callbacks) - 1
  BY FS_RemoveElement DEF Inv
<1>2. Cardinality(callbacks \ {c}) \in Nat
  BY <1>1, FS_CardinalityType
<1>3. slots = Cardinality(callbacks) /\ slots <= Slots /\ slots \in Nat /\ Slots \in Nat
  BY ObservationAssumption DEF Inv, SlotsAreAccounted, TypeOK
<1> QED
  BY <1>1, <1>2, <1>3 DEF Release, SlotsAreAccounted

(* A new callback takes a slot of its own: its number is not in use.       *)
LEMMA Beginning ==
  ASSUME Inv, NEW e \in Emitters, stage[e] = "emit", NEW record \in Records, Acquire(e, record)
  PROVE  /\ slots' \in Nat /\ callbacks' \subseteq Callbacks
         /\ IsFiniteSet(callbacks') /\ SlotsAreAccounted'
<1>1. CASE UNCHANGED <<slots, callbacks>>
  BY <1>1 DEF Inv, TypeOK, SlotsAreAccounted
<1>2. CASE slots < Slots /\ ~UNCHANGED <<slots, callbacks>>
  <2> DEFINE new == [run |-> RunOf[e], number |-> held[e], attached |-> e \notin Engine,
                     record |-> record, at |-> "spawned", late |-> ContextDone(e)]
  <2>1. slots' = slots + 1 /\ callbacks' = callbacks \cup {new}
    BY <1>2 DEF Acquire
  <2>2. new \in Callbacks
    <3>1. held[e] \in 1 .. MaxRecords
      BY ObservationAssumption DEF Inv, TypeOK, NumbersAreTaken
    <3>2. ContextDone(e) \in BOOLEAN
      BY DEF ContextDone
    <3> QED
      BY <3>1, <3>2, ObservationAssumption DEF Callbacks
  <2>3. new \notin callbacks
    BY DEF Inv, NumbersAreUnique
  <2> HIDE DEF new
  <2>4. IsFiniteSet(callbacks') /\ Cardinality(callbacks') = Cardinality(callbacks) + 1
    BY <2>1, <2>3, FS_AddElement DEF Inv
  <2> QED
    BY <1>2, <2>1, <2>2, <2>4, ObservationAssumption DEF Inv, TypeOK, SlotsAreAccounted
<1> QED
  BY <1>1, <1>2 DEF Acquire

(* The invariant holds at the start.                                       *)
LEMMA InvInit == ObserveInit => Inv
BY FS_EmptySet, ObservationAssumption
   DEF ObserveInit, Inv, TypeOK, NumbersAreTaken, NumbersAreUnique, SlotsAreAccounted

(* Every step keeps the invariant.                                         *)
LEMMA InvStep == Inv /\ [ObserveNext]_observation => Inv'
<1> SUFFICES ASSUME Inv, [ObserveNext]_observation PROVE Inv'
  OBVIOUS
<1> USE ObservationAssumption
<1>1. CASE UNCHANGED observation
  BY <1>1 DEF observation, Inv, TypeOK, NumbersAreTaken, NumbersAreUnique, SlotsAreAccounted
<1>2. ASSUME NEW e \in Emitters, Number(e) PROVE Inv'
  <2>1. TypeOK' /\ IsFiniteSet(callbacks') /\ SlotsAreAccounted'
    BY <1>2 DEF Number, Take, Inv, TypeOK, SlotsAreAccounted
  <2>2. NumbersAreTaken'
    BY <1>2 DEF Number, Take, Inv, TypeOK, NumbersAreTaken, Callbacks
  <2>3. NumbersAreUnique'
    BY <1>2 DEF Number, Take, Inv, TypeOK, NumbersAreTaken, NumbersAreUnique, Callbacks
  <2> QED
    BY <2>1, <2>2, <2>3 DEF Inv
<1>3. ASSUME NEW e \in Emitters, Check(e) PROVE Inv'
  BY <1>3 DEF Check, Inv, TypeOK, NumbersAreTaken, NumbersAreUnique, SlotsAreAccounted
<1>4. ASSUME NEW e \in Emitters, Emit(e) PROVE Inv'
  <2>1. CASE UNCHANGED <<slots, callbacks>>
    BY <1>4, <2>1 DEF Emit, Inv, TypeOK, NumbersAreTaken, NumbersAreUnique, SlotsAreAccounted
  <2>2. ASSUME NEW raw \in Handed(e), NEW record \in Safe(raw), Acquire(e, record),
               ~UNCHANGED <<slots, callbacks>>
        PROVE  Inv'
    <3>1. record \in Records
      BY SafeRecords DEF Handed
    <3>2. stage[e] = "emit" /\ stage' = [stage EXCEPT ![e] = "work"] /\ UNCHANGED <<sequence, held, cancelled>>
      BY <1>4 DEF Emit
    <3>3. /\ slots' \in Nat /\ callbacks' \subseteq Callbacks
          /\ IsFiniteSet(callbacks') /\ SlotsAreAccounted'
      BY <2>2, <3>1, <3>2, Beginning
    <3>4. TypeOK'
      BY <3>2, <3>3 DEF Inv, TypeOK
    <3>5. PICK new : callbacks' = callbacks \cup {new} /\ new.run = RunOf[e] /\ new.number = held[e]
      <4> DEFINE n == [run |-> RunOf[e], number |-> held[e], attached |-> e \notin Engine,
                       record |-> record, at |-> "spawned", late |-> ContextDone(e)]
      <4>1. callbacks' = callbacks \cup {n}
        BY <2>2 DEF Acquire
      <4>2. n.run = RunOf[e] /\ n.number = held[e]
        OBVIOUS
      <4> QED
        BY <4>1, <4>2
    <3>6. NumbersAreTaken'
      BY <3>2, <3>5 DEF Inv, TypeOK, NumbersAreTaken
    <3>7. NumbersAreUnique'
      BY <3>2, <3>5 DEF Inv, TypeOK, NumbersAreUnique
    <3> QED
      BY <3>3, <3>4, <3>6, <3>7 DEF Inv
  <2> QED
    BY <1>4, <2>1, <2>2 DEF Emit
<1>5. ASSUME NEW r \in Runs, Cancel(r) PROVE Inv'
  <2>1. IsFiniteSet(callbacks') /\ Cardinality(callbacks') = Cardinality(callbacks)
    BY <1>5, Cancellation
  <2> DEFINE Ended(c) == IF c.run = r /\ c.attached THEN [c EXCEPT !.late = TRUE] ELSE c
  <2>6. \A c \in callbacks : Ended(c).run = c.run /\ Ended(c).number = c.number
    BY DEF Inv, TypeOK, Callbacks
  <2>7. callbacks' = {Ended(c) : c \in callbacks}
    BY <1>5 DEF Cancel
  <2>8. \A c \in callbacks : Ended(c) \in Callbacks
    BY DEF Inv, TypeOK, Callbacks
  <2> HIDE DEF Ended
  <2>2. TypeOK'
    BY <1>5, <2>7, <2>8 DEF Cancel, Inv, TypeOK
  <2>3. \A d \in callbacks' : \E c \in callbacks : d.run = c.run /\ d.number = c.number /\ d = Ended(c)
    BY <2>6, <2>7
  <2>4. NumbersAreTaken'
    BY <1>5, <2>3 DEF Cancel, Inv, NumbersAreTaken
  <2>5. NumbersAreUnique'
    BY <1>5, <2>3 DEF Cancel, Inv, NumbersAreUnique
  <2> QED
    BY <1>5, <2>1, <2>2, <2>4, <2>5 DEF Cancel, Inv, SlotsAreAccounted
<1>6. ASSUME NEW c \in callbacks, NEW d \in Callbacks, d.run = c.run, d.number = c.number,
             callbacks' = (callbacks \ {c}) \cup {d}, UNCHANGED <<slots, sequence, stage, held, cancelled>>
      PROVE  Inv'
  <2>1. IsFiniteSet(callbacks') /\ Cardinality(callbacks') = Cardinality(callbacks)
    BY <1>6, Replacement
  <2>2. NumbersAreTaken'
    BY Zenon, <1>6 DEF Inv, NumbersAreTaken
  <2>3. NumbersAreUnique'
    <3>1. \A b \in callbacks' : b = d \/ (b \in callbacks /\ b # c)
      BY Zenon, <1>6
    <3>2. \A b \in callbacks : b.run = c.run /\ b.number = c.number => b = c
      BY Zenon DEF Inv, NumbersAreUnique
    <3>3. \A a, b \in callbacks' : a.run = b.run /\ a.number = b.number => a = b
      <4>1. \A a, b \in callbacks : a.run = b.run /\ a.number = b.number => a = b
        BY Zenon DEF Inv, NumbersAreUnique
      <4> QED
        BY d.run = c.run, d.number = c.number, <3>1, <3>2, <4>1
    <3>4. \A b \in callbacks' : \E a \in callbacks : b.run = a.run /\ b.number = a.number
      BY Zenon, <1>6, <3>1
    <3>5. stage' = stage /\ held' = held
      BY Zenon, <1>6
    <3>6. \A f \in Emitters : stage[f] \in {"check", "emit"} =>
            /\ \A a \in callbacks : a.run = RunOf[f] => a.number # held[f]
            /\ \A g \in Emitters \ {f} : stage[g] \in {"check", "emit"} /\ RunOf[g] = RunOf[f] => held[g] # held[f]
      BY Zenon DEF Inv, NumbersAreUnique
    <3>7. \A f \in Emitters : stage[f] \in {"check", "emit"} =>
            \A b \in callbacks' : b.run = RunOf[f] => b.number # held[f]
      BY Zenon, <3>4, <3>6
    <3> QED
      BY Zenon, <3>3, <3>5, <3>6, <3>7 DEF NumbersAreUnique
  <2> QED
    BY <1>6, <2>1, <2>2, <2>3 DEF Inv, TypeOK, SlotsAreAccounted
<1>7. ASSUME NEW c \in callbacks, Expire(c) PROVE Inv'
  <2> DEFINE d == [c EXCEPT !.late = TRUE]
  <2>1. d \in Callbacks /\ d.run = c.run /\ d.number = c.number
    BY DEF Inv, TypeOK, Callbacks
  <2> QED
    BY <1>6, <1>7, <2>1 DEF Expire
<1>8. ASSUME NEW c \in callbacks, Release(c), UNCHANGED <<sequence, stage, held, cancelled>> PROVE Inv'
  <2>1. slots' \in Nat /\ IsFiniteSet(callbacks') /\ SlotsAreAccounted'
    BY <1>8, Ending
  <2>2. callbacks' \subseteq callbacks
    BY <1>8 DEF Release
  <2> QED
    BY <1>8, <2>1, <2>2 DEF Inv, TypeOK, NumbersAreTaken, NumbersAreUnique
<1>9. ASSUME NEW c \in callbacks, Start(c) \/ Return(c) PROVE Inv'
  <2> DEFINE d == [c EXCEPT !.at = "observing"]
  <2>1. d \in Callbacks /\ d.run = c.run /\ d.number = c.number
    BY DEF Inv, TypeOK, Callbacks
  <2> QED
    BY <1>6, <1>8, <1>9, <2>1 DEF Start, Return
<1> QED
  BY <1>1, <1>2, <1>3, <1>4, <1>5, <1>7, <1>9 DEF ObserveNext

-----------------------------------------------------------------------------
(* The tokens of the pool are the callbacks in flight, at most Slots of    *)
(* them, whatever the observers do (Emit and its deferred function).       *)
THEOREM SlotsStayAccounted == ObserveSpec => []SlotsAreAccounted
<1>2. Inv => SlotsAreAccounted
  BY DEF Inv
<1> QED
  BY <1>2, InvInit, InvStep, PTL DEF ObserveSpec

(* No two records of an execution carry the same number                    *)
(* (observationSequence.Add in engineRun.observe).                         *)
THEOREM NumbersStayUnique == ObserveSpec => []NumbersAreUnique
<1>2. Inv => NumbersAreUnique
  BY DEF Inv
<1> QED
  BY <1>2, InvInit, InvStep, PTL DEF ObserveSpec

(* A cancelled context ends the observations that were given it, also when *)
(* it is cancelled between Emit's check and the derivation of the          *)
(* observer's context.                                                     *)
LEMMA CancellationReachesObservers == ObserveSpec => []CancelReachesObservers
<1>1. ObserveInit => CancelReachesObservers
  BY DEF ObserveInit, CancelReachesObservers
<1>2. Inv /\ CancelReachesObservers /\ [ObserveNext]_observation => CancelReachesObservers'
  <2> SUFFICES ASSUME Inv, CancelReachesObservers, [ObserveNext]_observation PROVE CancelReachesObservers'
    OBVIOUS
  <2>1. CASE UNCHANGED observation
    BY <2>1 DEF observation, CancelReachesObservers
  <2>2. ASSUME NEW e \in Emitters, Number(e) \/ Check(e) PROVE CancelReachesObservers'
    BY <2>2 DEF Number, Check, CancelReachesObservers
  <2>3. ASSUME NEW e \in Emitters, Emit(e) PROVE CancelReachesObservers'
    <3>1. CASE UNCHANGED callbacks
      BY <2>3, <3>1 DEF Emit, CancelReachesObservers
    <3>2. cancelled' = cancelled
      BY Zenon, <2>3 DEF Emit
    <3>3. ASSUME NEW record, Acquire(e, record) PROVE CancelReachesObservers'
      <4>1. PICK new : new = [run |-> RunOf[e], number |-> held[e], attached |-> e \notin Engine,
                              record |-> record, at |-> "spawned", late |-> ContextDone(e)]
        BY Zenon
      <4>2. \A d \in callbacks' : d \in callbacks \/ d = new
        BY Zenon, <3>3, <4>1 DEF Acquire
      <4>3. new.attached /\ new.run \in cancelled => new.late
        BY <4>1 DEF ContextDone
      <4> QED
        BY Zenon, <3>2, <4>2, <4>3 DEF CancelReachesObservers
    <3> QED
      BY <2>3, <3>1, <3>3 DEF Emit
  <2>4. ASSUME NEW r \in Runs, Cancel(r) PROVE CancelReachesObservers'
    <3> SUFFICES ASSUME NEW d \in callbacks', d.attached, d.run \in cancelled' PROVE d.late
      BY DEF CancelReachesObservers
    <3>1. PICK c \in callbacks : d = IF c.run = r /\ c.attached THEN [c EXCEPT !.late = TRUE] ELSE c
      BY <2>4 DEF Cancel
    <3>2. c \in Callbacks
      BY DEF Inv, TypeOK
    <3> QED
      BY <2>4, <3>1, <3>2 DEF Cancel, Callbacks, CancelReachesObservers
  <2>5. ASSUME NEW c \in callbacks, Expire(c) \/ Start(c) \/ Return(c) PROVE CancelReachesObservers'
    BY <2>5 DEF Expire, Start, Return, Release, Inv, TypeOK, Callbacks, CancelReachesObservers
  <2> QED
    BY <2>1, <2>2, <2>3, <2>4, <2>5 DEF ObserveNext
<1> QED
  BY <1>1, <1>2, InvInit, InvStep, PTL DEF ObserveSpec

(* No observer is called with a record whose context is cancelled: a new   *)
(* call begins with the check of a context that the cancellation has ended *)
(* (Emit and its goroutine).                                               *)
THEOREM CancelledStaysUnseen == ObserveSpec => CancelledIsNotShown
<1> DEFINE Known(c) == \E d \in callbacks : d.run = c.run /\ d.number = c.number /\ d.at = "observing"
           Unseen == \A c \in callbacks' : c.at = "observing" /\ c.attached /\ c.run \in cancelled => Known(c)
<1>1. Inv /\ CancelReachesObservers /\ [ObserveNext]_observation => [Unseen]_observation
  <2> SUFFICES ASSUME Inv, CancelReachesObservers, ObserveNext,
                      NEW c \in callbacks', c.at = "observing", c.attached, c.run \in cancelled
               PROVE  Known(c)
    BY Zenon
  <2>1. CASE c \in callbacks
    BY <2>1
  <2>2. ASSUME NEW e \in Emitters, Number(e) \/ Check(e) PROVE Known(c)
    BY <2>1, <2>2 DEF Number, Check
  <2>3. ASSUME NEW e \in Emitters, Emit(e) PROVE Known(c)
    <3>1. ASSUME NEW record, Acquire(e, record) PROVE c \in callbacks
      <4>1. PICK new : new = [run |-> RunOf[e], number |-> held[e], attached |-> e \notin Engine,
                              record |-> record, at |-> "spawned", late |-> ContextDone(e)]
        BY Zenon
      <4>2. c \in callbacks \/ c = new
        BY Zenon, <3>1, <4>1 DEF Acquire
      <4>3. new.at = "spawned"
        BY <4>1
      <4> QED
        BY <4>2, <4>3
    <3> QED
      BY <2>1, <2>3, <3>1 DEF Emit
  <2>4. ASSUME NEW r \in Runs, Cancel(r) PROVE Known(c)
    <3>1. PICK d \in callbacks : c = IF d.run = r /\ d.attached THEN [d EXCEPT !.late = TRUE] ELSE d
      BY <2>4 DEF Cancel
    <3>2. d \in Callbacks
      BY DEF Inv, TypeOK
    <3> QED
      BY <3>1, <3>2 DEF Callbacks
  <2>5. ASSUME NEW b \in callbacks, Expire(b) \/ Return(b) PROVE Known(c)
    BY <2>5 DEF Expire, Return, Release, Inv, TypeOK, Callbacks
  <2>6. ASSUME NEW b \in callbacks, Start(b) PROVE Known(c)
    <3>1. b \in Callbacks
      BY DEF Inv, TypeOK
    <3>2. c \in callbacks \/ (~b.late /\ c = [b EXCEPT !.at = "observing"])
      BY <2>6 DEF Start, Release
    <3>3. ~b.late => ~(b.attached /\ b.run \in cancelled)
      BY DEF CancelReachesObservers
    <3> QED
      BY <2>1, <3>1, <3>2, <3>3 DEF Callbacks
  <2> QED
    BY <2>2, <2>3, <2>4, <2>5, <2>6 DEF ObserveNext
<1>2. ObserveSpec => []Inv
  BY InvInit, InvStep, PTL DEF ObserveSpec
<1> QED
  BY <1>1, <1>2, CancellationReachesObservers, PTL DEF ObserveSpec, CancelledIsNotShown
=============================================================================
