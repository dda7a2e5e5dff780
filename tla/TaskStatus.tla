----------------------------- MODULE TaskStatus -----------------------------
(***************************************************************************)
(* The status contract shared by the runtime, the subagent, the            *)
(* orchestrator and the gateway: internal/memory/task_status.go and the    *)
(* three places that derive a status from an error.                        *)
(*                                                                         *)
(* An error is what the classifiers look at: the context error it wraps,   *)
(* and which of the phrases they search for occur in its lower-cased text. *)
(***************************************************************************)

TaskStatuses ==
  {"pending", "running", "success", "failed", "rejected", "timeout", "cancelled"}

\* ToLower(TrimSpace(_)) on status strings: a few spellings that are not
\* already folded stand for all of them.
Fold(status) ==
  CASE status \in {" success ", "Success"}  -> "success"
    [] status \in {"TIMEOUT", "Timeout "}   -> "timeout"
    [] OTHER                                -> status

NormalizeTaskStatus(status) ==
  IF Fold(status) \in TaskStatuses THEN Fold(status) ELSE "failed"

IsTerminalTaskStatus(status) ==
  NormalizeTaskStatus(status) \notin {"pending", "running"}

IsSuccessfulTaskStatus(status) == NormalizeTaskStatus(status) = "success"

-----------------------------------------------------------------------------
(* Errors and what each layer makes of them *)

Phrases ==
  {"exceeded max turns", "approval gate required", "approval rejected", "timeout"}

Error == [wraps : {"nothing", "canceled", "deadline"}, text : SUBSET Phrases]

\* A nil error.
Nil == [wraps |-> "nil", text |-> {}]

Canceled == [wraps |-> "canceled", text |-> {}]

TextError(phrases) == [wraps |-> "nothing", text |-> phrases]

\* Mutant of ClassifyTerminalError: a timeout is announced as an error.
ClassifyTimeoutAsError(err) ==
  CASE err.wraps = "canceled"                   -> <<"cancelled", "cancelled">>
    [] err.wraps = "deadline"                   -> <<"timeout", "timeout">>
    [] err.wraps \notin {"canceled", "deadline"} ->
         IF "timeout" \in err.text THEN <<"timeout", "error">>
         ELSE <<"error", "error">>

\* llm.classifyTerminalError: FinalResult.Status and the event to emit.
ClassifyTerminalError(err) ==
  CASE err.wraps = "canceled"                   -> <<"cancelled", "cancelled">>
    [] err.wraps = "deadline"                   -> <<"timeout", "timeout">>
    [] err.wraps \notin {"canceled", "deadline"} ->
         IF err.text \cap {"exceeded max turns", "approval gate required"} # {}
           THEN <<"failed", "error">>
         ELSE IF "timeout" \in err.text THEN <<"timeout", "timeout">>
         ELSE <<"error", "error">>

\* cmd/subagent runtimeTaskResultStatus; "" is an empty FinalResult.Status.
RuntimeTaskResultStatus(runtimeStatus, err) ==
  IF runtimeStatus # "" THEN NormalizeTaskStatus(runtimeStatus)
  ELSE IF err # Nil THEN "failed" ELSE "success"

\* gateway taskStatusForError and taskStatusForResult.
TaskStatusForError(err) ==
  CASE err = Nil                          -> "success"
    [] err.wraps = "canceled"             -> "cancelled"
    [] err.wraps = "deadline"             -> "timeout"
    [] err.wraps = "nothing"              ->
         IF "approval rejected" \in err.text THEN "rejected"
         ELSE IF "timeout" \in err.text THEN "timeout"
         ELSE "failed"

TaskStatusForResult(runtimeStatus, err) ==
  IF runtimeStatus # "" THEN NormalizeTaskStatus(runtimeStatus)
  ELSE TaskStatusForError(err)
=============================================================================
