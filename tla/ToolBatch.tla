----------------------------- MODULE ToolBatch -----------------------------
(***************************************************************************)
(* The tool calls of one response: tool_started records, executeBatch with *)
(* engineToolHandler.Execute around each handler, tool_completed records,  *)
(* the tool message and the turn checkpoint.                               *)
(*                                                                         *)
(* In a parallel batch every call has a goroutine of its own (run[e].tool  *)
(* is its position) and their appends interleave on the engine's one       *)
(* sequence; in a sequential batch call i starts when call i - 1 is done.  *)
(***************************************************************************)
EXTENDS ModelTurn

(* tool_started of every call is committed before any call runs.  They run *)
(* in parallel if the request allows it and every called tool is safe.     *)
StartTool(e) ==
    LET r == run[e]
    IN /\ r.pc = "tool_start"
       /\ \E safe \in BOOLEAN :
            Emit(e, "tool_started",
               IF r.idx < r.ncalls THEN [r EXCEPT !.idx = @ + 1]
               ELSE [r EXCEPT !.pc = "tools", !.idx = 0, !.parallel = Parallel /\ safe,
                              !.tool = [i \in 1..MaxBatch |-> IF i <= r.ncalls THEN "ready" ELSE "none"]])
       /\ Planned(e, [plan[e] EXCEPT ![Tool(r.idx)] = "intended"])
       /\ UNCHANGED <<world, resumes>>

(* Goroutine i of engine e moves from one position to the next.            *)
At(e, i, position) == run[e].pc = "tools" /\ i <= run[e].ncalls /\ run[e].tool[i] = position
Move(r, i, position) == [r EXCEPT !.tool[i] = position]
Done(r, i) == Move(r, i, "done")

(* engineToolHandler.Execute gives up and stops the whole run.             *)
StopRun(r, i) == Stopped(Done(r, i))

\* Faulty variant: a call that gives up does not report to its batch.
GiveUpSilently(e, i) == Local(e, run[e]) /\ UNCHANGED unplaced

GiveUp(e, i) == Local(e, Done(run[e], i)) /\ UNCHANGED unplaced

(* A sequential batch looks at the context before each call and gives the  *)
(* rest up; an undeclared tool or invalid input is done at once.           *)
MayBegin(e, i) ==
    /\ At(e, i, "ready")
    /\ ~run[e].parallel => /\ \A j \in 1..i - 1 : run[e].tool[j] = "done"
                           /\ Live(e)

BeginTool(e, i) ==
    /\ MayBegin(e, i)
    /\ \E position \in {"prepare", "done"} : Local(e, Move(run[e], i, position))
    /\ UNCHANGED unplaced

(* PrepareSandbox: an established sandbox is reused, else the outcome of   *)
(* establishing it is recorded.                                            *)
PrepareTool(e, i) ==
    LET r == run[e]
    IN /\ At(e, i, "prepare")
       /\ \/ Local(e, Move(r, i, "policy"))
          \/ Local(e, Done(r, i))
          \/ /\ Sandboxed
             /\ \E next \in {Move(r, i, "policy"), Done(r, i)} :      \* established, denied
                    Write(e, <<Record("sandbox", r)>>, FALSE, next, StopRun(r, i))
       /\ UNCHANGED unplaced

\* Faulty variant: a denied call is executed.
AfterToolVerdictIgnored(r, i, v) == Move(r, i, IF v = "approve" THEN "approve" ELSE "execute")

(* The execution verdict on the call.  A denial stops the run.             *)
AfterToolVerdict(r, i, v) ==
    CASE v = "allow" -> Move(r, i, "execute")
      [] v = "approve" -> Move(r, i, "approve")
      [] v = "deny" -> StopRun(r, i)

EvaluateTool(e, i) ==
    LET r == run[e]
    IN /\ At(e, i, "policy")
       /\ \/ ~Live(e) /\ GiveUp(e, i)
          \/ /\ Live(e)
             /\ \E v \in Verdicts :
                    Write(e, <<PolicyRecord(r, <<"tool", i>>, v)>>, FALSE,
                          AfterToolVerdict(r, i, v), StopRun(r, i))
             /\ UNCHANGED unplaced

ApproveTool(e, i) ==
    LET r == run[e]
    IN /\ At(e, i, "approve")
       /\ \/ Local(e, StopRun(r, i))        \* no approver, or secret content
          \/ /\ HasApprover
             /\ \E granted \in ApproverSays(e) :
                    Write(e, <<ApprovalRecord(r, "tool", granted)>>, TRUE,
                          IF granted THEN Move(r, i, "grant") ELSE StopRun(r, i), StopRun(r, i))
       /\ UNCHANGED unplaced

GrantTool(e, i) ==
    LET r == run[e]
    IN /\ At(e, i, "grant")
       /\ Write(e, <<PolicyRecord(r, <<"tool", i>>, "allow")>>, FALSE,
                Move(r, i, "execute"), StopRun(r, i))
       /\ UNCHANGED unplaced

(* The tool runs.  A handler may also refuse before it has any effect; a   *)
(* sandboxed one reports what it did.                                      *)
ExecuteTool(e, i) ==
    LET r == run[e]
    IN /\ At(e, i, "execute")
       /\ \/ GiveUp(e, i)
          \/ /\ Local(e, Move(r, i, IF Sandboxed THEN "report" ELSE "done"))
             /\ plan' = [plan EXCEPT ![e][Tool(i)] = "performed"]
             /\ performed' = performed \cup {<<r.turn, Tool(i)>>}
             /\ repeated' = repeated \cup (performed \cap {<<r.turn, Tool(i)>>})
             /\ UNCHANGED <<calls, spent, resumes>>

ReportTool(e, i) ==
    /\ At(e, i, "report")
    /\ Write(e, <<Record("sandbox", run[e])>>, TRUE, Done(run[e], i), StopRun(run[e], i))
    /\ UNCHANGED unplaced

-----------------------------------------------------------------------------
Finished(r) == {i \in 1..r.ncalls : r.tool[i] = "done"}

\* Faulty variant: the last result is dropped.
EndBatchShort(r, n, failed) ==
    [r EXCEPT !.pc = "completed", !.idx = 1, !.nres = IF n > 0 THEN n - 1 ELSE 0, !.batchErr = failed,
              !.parallel = FALSE]

(* End of executeBatch with n results.                                     *)
EndBatch(r, n, failed) ==
    [r EXCEPT !.pc = "completed", !.idx = 1, !.nres = n, !.batchErr = failed, !.parallel = FALSE]

(* All calls are done.  A parallel batch now finalizes its results, unless *)
(* the context has ended: then it fails with all of them.                  *)
JoinBatch(e) ==
    LET r == run[e]
    IN /\ r.pc = "tools"
       /\ Finished(r) = 1..r.ncalls
       /\ \/ ~r.parallel /\ Local(e, EndBatch(r, r.ncalls, FALSE))
          \/ r.parallel /\ Live(e) /\ Local(e, [r EXCEPT !.pc = "finalize"])
          \/ r.parallel /\ ~Live(e) /\ Local(e, EndBatch(r, r.ncalls, TRUE))
       /\ UNCHANGED unplaced

(* A context that ends while results are finalized cuts the rest off.      *)
FinalizeBatch(e) ==
    LET r == run[e]
    IN /\ r.pc = "finalize"
       /\ \/ Local(e, EndBatch(r, r.ncalls, FALSE))
          \/ ~Live(e) /\ \E n \in 0..r.ncalls - 1 : Local(e, EndBatch(r, n, TRUE))
       /\ UNCHANGED unplaced

(* A sequential batch stops between two calls when the context has ended.  *)
CutBatch(e) ==
    LET r == run[e]
    IN /\ r.pc = "tools"
       /\ ~r.parallel /\ ~Live(e)
       /\ \A i \in 1..r.ncalls : r.tool[i] \in {"ready", "done"}
       /\ Finished(r) # 1..r.ncalls
       /\ Local(e, EndBatch(r, Cardinality(Finished(r)), TRUE))
       /\ UNCHANGED unplaced

(* tool_completed of every result, in call order, on the loop's context.   *)
CompleteTool(e) ==
    LET r == run[e]
    IN /\ r.pc = "completed"
       /\ r.idx <= r.nres
       /\ Emit(e, "tool_completed", [r EXCEPT !.idx = @ + 1])
       /\ UNCHANGED unplaced

CompleteBatch(e) ==
    LET r == run[e]
    IN /\ r.pc = "completed"
       /\ r.idx > r.nres
       /\ \/ r.batchErr /\ Abort(e)
          \/ ~r.batchErr /\ Local(e, [r EXCEPT !.pc = "tool_message"]) /\ UNCHANGED unplaced

(* The ordered tool message.  A tool output may still not form a valid one.*)
AppendToolMessage(e) ==
    /\ run[e].pc = "tool_message"
    /\ \/ Abort(e)
       \/ Emit(e, "tool_message", [run[e] EXCEPT !.pc = "checkpoint"]) /\ UNCHANGED unplaced

(* The checkpoint that ends the turn.                                      *)
NextTurn(r) == [Fresh(r) EXCEPT !.pc = "turn", !.turn = @ + 1, !.bound = Zero, !.used = Zero]

CommitCheckpoint(e) ==
    /\ run[e].pc = "checkpoint"
    /\ Emit(e, "checkpoint", NextTurn(run[e]))
    /\ Planned(e, NoPlan)
    /\ UNCHANGED <<world, resumes>>

ToolStep(e) ==
    \/ StartTool(e) \/ JoinBatch(e) \/ FinalizeBatch(e) \/ CutBatch(e) \/ CompleteTool(e) \/ CompleteBatch(e)
    \/ AppendToolMessage(e) \/ CommitCheckpoint(e)
    \/ \E i \in 1..MaxBatch :
        \/ BeginTool(e, i) \/ PrepareTool(e, i) \/ EvaluateTool(e, i) \/ ApproveTool(e, i)
        \/ GrantTool(e, i) \/ ExecuteTool(e, i) \/ ReportTool(e, i)
=============================================================================
