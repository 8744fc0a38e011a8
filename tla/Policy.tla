------------------------------- MODULE Policy -------------------------------
(***************************************************************************)
(* Policy evaluation: EvaluateExecutionPolicy and EvaluateDataEgressPolicy, *)
(* and the baseline policy.                                                *)
(*                                                                         *)
(* A manifest is its content and the label of the whole (the engine's       *)
(* manifests have one item); its digest is the manifest itself.  A scope is *)
(* what a verdict is bound to: the kind of access, "model", "tool", "out"   *)
(* (content leaves for a model's zone) or "back" (its answer returns), and  *)
(* the target.  A policy may answer anything; an answer that is not sound   *)
(* stands for a missing policy, an error or a verdict that fails            *)
(* PolicyVerdict.Validate.                                                 *)
(***************************************************************************)
EXTENDS Classification

PolicyActions == {"allow", "deny", "require_approval", "transform", "redact"}

Manifest(content, class) == [content |-> content, class |-> class]

Request(manifest, kind, target) == [manifest |-> manifest, scope |-> [kind |-> kind, target |-> target]]

Verdict(action, request) == [action |-> action, manifest |-> request.manifest, scope |-> request.scope]

Unsound == [sound |-> FALSE]

Sound(action, manifest, scope) == [sound |-> TRUE, action |-> action, manifest |-> manifest, scope |-> scope]

Allows(verdict) == verdict.action = "allow"

RequiresApproval(verdict) == verdict.action = "require_approval"

\* failClosedVerdict
FailClosed(request) == Verdict("deny", request)

\* Faulty variant: a verdict on other content counts.
IsAboutScope(answer, request) == answer.scope = request.scope

\* A verdict counts for the manifest and the scope it was given for.
IsAbout(answer, request) == answer.manifest = request.manifest /\ answer.scope = request.scope

\* The part both evaluations share: what the policy answered, or a denial.
Checked(request, answer) ==
  IF answer.sound /\ IsAbout(answer, request)
  THEN [action |-> answer.action, manifest |-> answer.manifest, scope |-> answer.scope] ELSE FailClosed(request)

\* Faulty variant: the policy is asked about secret content too.
KeptFromModelsNot(request) == FALSE

\* Secret content is denied to models before the policy is asked.
KeptFromModels(request) == request.scope.kind = "model" /\ request.manifest.class = "secret"

EvaluateExecutionPolicy(request, answer) ==
  IF KeptFromModels(request) THEN FailClosed(request) ELSE Checked(request, answer)

EvaluateDataEgressPolicy(request, answer) == Checked(request, answer)

-----------------------------------------------------------------------------
(* The baseline policy (policy/baseline).                                  *)

BaselineExecution(request) ==
  CASE request.manifest.class = "secret" -> "deny"
    [] request.scope.kind = "model" -> "allow"
    [] OTHER -> "require_approval"

\* Faulty variant: internal content crosses zones freely.
BaselineEgressLax(request) ==
  CASE request.manifest.class \in {"public", "internal"} -> "allow"
    [] request.manifest.class = "secret" -> "deny"
    [] OTHER -> "require_approval"

\* Between two zones; within one zone everything is allowed, and the engine does not ask.
BaselineEgress(request) ==
  CASE request.manifest.class = "public" -> "allow"
    [] request.manifest.class = "secret" -> "deny"
    [] OTHER -> "require_approval"

Baseline(request) ==
  Sound(IF request.scope.kind \in {"model", "tool"} THEN BaselineExecution(request) ELSE BaselineEgress(request),
        request.manifest, request.scope)

\* A policy that answers as it likes, also with a verdict it gave for an earlier manifest or another scope.
Arbitrary(manifests, scopes) ==
  {Unsound} \cup {Sound(action, m, s) : action \in PolicyActions, m \in manifests, s \in scopes}
=============================================================================
