------------------------------ MODULE FileTool ------------------------------
(***************************************************************************)
(* The write and edit tools on one file: the handler and the confinement of *)
(* SandboxedTool, composed with what the helper process of each call does   *)
(* to the root, step by step, until it exits or is killed.                  *)
(*                                                                         *)
(* A text is the set of calls whose text it holds, and whether it is whole. *)
(* A write's text is its own; an edit's is the text it has read with its    *)
(* own in the place of the match.  The name of a temporary file is random   *)
(* and never the name of another; what another program does to the root is  *)
(* left out.  A file that is open keeps its text when its name is renamed   *)
(* over, so opening and reading it are one step.                           *)
(***************************************************************************)
EXTENDS SandboxedTool

CONSTANT Edits  \* the calls that edit; the others write

ASSUME FileAssumption == Edits \subseteq Calls /\ Helped

VARIABLES file,    \* the target: absent, a link, a directory or a text
          helper,  \* where the helper process of each call is
          text,    \* the text it is going to write
          temp,    \* its temporary file: none, part or whole
          changed  \* history: calls that replaced the file

files == <<file, helper, text, temp, changed>>

Untouched(kind) == [kind |-> kind, whole |-> TRUE, of |-> {}]

FileInit ==
  /\ Init
  /\ file \in {Untouched(kind) : kind \in {"absent", "link", "directory", "regular"}}
  /\ helper = [c \in Calls |-> "off"]
  /\ text = [c \in Calls |-> {}]
  /\ temp = [c \in Calls |-> "none"]
  /\ changed = {}

At(c, step) == pc[c] = "running" /\ helper[c] = step

Step(c, next) == helper' = [helper EXCEPT ![c] = next]

\* The operation ends without having replaced anything.
Refuse(c) == Step(c, "refused") /\ UNCHANGED <<file, text, temp, changed>>

-----------------------------------------------------------------------------
\* Lstat and Stat: links are refused; so is input that cannot be decoded, or text above the bound.
Look(c) ==
  /\ At(c, "look")
  /\ \/ Refuse(c)
     \/ /\ file.kind # "link"
        /\ Step(c, IF c \in Edits THEN "load" ELSE "create")
        /\ text' = [text EXCEPT ![c] = {c}]
        /\ UNCHANGED <<file, temp, changed>>

\* An edit reads the file, which must have exactly one match.
Load(c) ==
  /\ At(c, "load")
  /\ \/ Refuse(c)
     \/ /\ file.kind = "regular"
        /\ Step(c, "create")
        /\ text' = [text EXCEPT ![c] = file.of \cup {c}]
        /\ UNCHANGED <<file, temp, changed>>

\* A new temporary file in the parent directory.
Create(c) ==
  /\ At(c, "create")
  /\ \/ Refuse(c)
     \/ /\ Step(c, "fill")
        /\ temp' = [temp EXCEPT ![c] = "part"]
        /\ UNCHANGED <<file, text, changed>>

\* Faulty variant: errors of the write are not looked at.
FilledAnyway(c) ==
  /\ Step(c, "rename")
  /\ temp' = [temp EXCEPT ![c] = "whole"] \/ UNCHANGED temp

\* Write, sync and close; any of them may fail.
Filled(c) ==
  \/ Step(c, "rename") /\ temp' = [temp EXCEPT ![c] = "whole"]
  \/ Step(c, "remove_failed") /\ UNCHANGED temp

Fill(c) ==
  /\ At(c, "fill")
  /\ Filled(c)
  /\ UNCHANGED <<file, text, changed>>

RenameFailed(c) == Step(c, "remove_failed")

\* The rename replaces the file at once, whatever it is by now but a directory.
Rename(c) ==
  /\ At(c, "rename")
  /\ \/ /\ file.kind # "directory"
        /\ file' = [kind |-> "regular", whole |-> temp[c] = "whole", of |-> text[c]]
        /\ temp' = [temp EXCEPT ![c] = "none"]
        /\ changed' = changed \cup {c}
        /\ Step(c, "remove")
     \/ RenameFailed(c) /\ UNCHANGED <<file, temp, changed>>
  /\ UNCHANGED text

\* The deferred removal: of nothing, after a rename.  Its error is not looked at.
Remove(c) ==
  /\ \/ /\ At(c, "remove") \/ At(c, "remove_failed")
        /\ temp' = [temp EXCEPT ![c] = "none"]
        /\ Step(c, IF helper[c] = "remove" THEN "ok" ELSE "refused")
     \/ At(c, "remove_failed") /\ Step(c, "unremoved") /\ UNCHANGED temp
  /\ UNCHANGED <<file, text, changed>>

-----------------------------------------------------------------------------
\* The process starts with the helper's first step.
StartHelper(c) == Start(c) /\ Step(c, "look") /\ UNCHANGED <<file, text, temp, changed>>

\* The helper exits when its operation is over: with a failure after a refusal, or when it
\* cannot write its output.
ExitHelper(c) ==
  /\ helper[c] \in {"ok", "refused", "unremoved"}
  /\ Exit(c)
  /\ helper[c] # "ok" => outcome'[c].failed
  /\ UNCHANGED files

\* A killed process leaves everything as it is.
KillHelper(c) == Kill(c) /\ Step(c, "killed") /\ UNCHANGED <<file, text, temp, changed>>

\* What the helper's output says of a success.  It is the helper's JSON and nothing else, which
\* the handler can decode.
Says(c) == IF helper[c] = "ok" THEN "returned_partial" ELSE "returned_whole"

ResultHelper(c) ==
  /\ Result(c)
  /\ ~outcome[c].failed => pc'[c] = Says(c)
  /\ UNCHANGED files

Handling(c) ==
  \/ Prepare(c) \/ BeginEstablish(c) \/ Probe(c) \/ Establish(c)
  \/ EnterRun(c) \/ NotStarted(c) \/ Report(c) \/ End(c)

Helping(c) == Look(c) \/ Load(c) \/ Create(c) \/ Fill(c) \/ Rename(c) \/ Remove(c)

FileNext ==
  \/ \E c \in Calls :
       \/ Handling(c) /\ UNCHANGED files
       \/ Helping(c) /\ UNCHANGED vars
       \/ StartHelper(c) \/ ExitHelper(c) \/ KillHelper(c) \/ ResultHelper(c)
  \/ \E k \in Closers : (CloseHandler(k) \/ Shut(k) \/ TearDown(k) \/ GiveUp(k)) /\ UNCHANGED files

FileSpec == FileInit /\ [][FileNext]_<<vars, files>>

\* The fairness of SandboxedTool, of the composed steps.
FairFileSpec ==
  /\ FileSpec
  /\ \A c \in Calls :
       /\ WF_<<vars, files>>(KillHelper(c))
       /\ WF_<<vars, files>>((NotStarted(c) /\ UNCHANGED files) \/ StartHelper(c))
  /\ \A k \in Closers :
       /\ WF_<<vars, files>>(CloseHandler(k) /\ UNCHANGED files)
       /\ WF_<<vars, files>>(Shut(k) /\ UNCHANGED files)
       /\ WF_<<vars, files>>(TearDown(k) /\ UNCHANGED files)

-----------------------------------------------------------------------------
\* Whenever helpers are killed or fail, the target is a whole text that calls have put there, and a
\* temporary file is left only by a helper that was killed, could not remove it or is still at work
\* ("Write/edit replace regular files atomically").
RootIsSound ==
  /\ file.whole /\ file.of \subseteq changed
  /\ \A c \in Calls : temp[c] # "none" => helper[c] \in {"killed", "unremoved"} \/ pc[c] = "running"

\* A call that has returned told what it did: that a process ran in its record, and that it replaced the
\* file in its output, unless the store refuses the record; a call killed right after the rename, too.
EffectsAreTold ==
  /\ EffectsAreReported
  /\ \A c \in changed : pc[c] # "returned_whole" /\ (pc[c] = "returned_error" => c \in Unwritable)
=============================================================================
