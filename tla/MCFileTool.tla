----------------------------- MODULE MCFileTool -----------------------------
(* A call that writes, one that edits, and two goroutines that close.      *)
EXTENDS FileTool

CONSTANTS x, y, k, l

MCCalls == {x, y}
MCEdits == {y}
MCClosers == {k, l}
=============================================================================
