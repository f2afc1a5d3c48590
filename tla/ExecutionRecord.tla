--------------------------- MODULE ExecutionRecord ---------------------------
(***************************************************************************)
(* The two durable values the engine works on, and the pure functions the  *)
(* engine applies to them: the Execution record (agent/execution.go) and   *)
(* the canonical messages of a conversation (agent/conversation.go).       *)
(*                                                                         *)
(* A call ID stands for a tool call: its name, its input and its           *)
(* idempotency key are functions of it.  The ToolBatch pointer of the      *)
(* record is flattened: calls = {} is a nil ToolBatch, claim = {} a nil    *)
(* Resolution, pause.kind = "none" a nil Pause.  A conversation revision   *)
(* and its last sequence number grow together and only by Append, so one   *)
(* number, the length of the log, stands for both cursors.                 *)
(***************************************************************************)
EXTENDS Naturals, Sequences

CONSTANTS Calls,          \* provider call IDs
          ReplaySafe,     \* calls of tools declared replay-safe
          NeedsApproval,  \* calls of tools that need a human decision
          AsksHuman       \* calls of tools that pause for human input

ASSUME ToolAssumption == /\ ReplaySafe \subseteq Calls
                         /\ NeedsApproval \subseteq Calls
                         /\ AsksHuman \subseteq Calls

(* "Failed" stands for ExecutionFailed and ExecutionCanceled: which of the *)
(* two an error means is decided by the error value alone.                 *)
Terminal == {"Completed", "Failed"}
Status == {"Running", "Paused"} \cup Terminal
Phase == {"Model", "Tools", "Paused", "Done"}
CallStatus == {"none", "Planned", "Ready", "InFlight", "Completed"}
Decision == {"none", "allow", "deny"}

Pause == [kind : {"none", "approval", "human"}, calls : SUBSET Calls]
NoPause == [kind |-> "none", calls |-> {}]

Execution ==
  [version : Nat,                      \* CAS token, 0 before Create
   status : Status, phase : Phase, iteration : Nat,
   cursor : Nat,                       \* Revision / LastSequence
   start : Nat,                        \* StartLastSequence
   pause : Pause, pending : Pause,     \* Pause, PendingPause
   calls : SUBSET Calls,               \* ToolBatch.Calls
   st : [Calls -> CallStatus],         \* ToolExecution.Status
   approval : [Calls -> Decision],     \* ToolExecution.Approval
   useAt : Nat,                        \* ToolUseLastSequence
   claim : SUBSET (Calls \X BOOLEAN)]  \* Resolution: call, succeeded

NoExecution ==
  [version |-> 0, status |-> "Running", phase |-> "Model", iteration |-> 0,
   cursor |-> 0, start |-> 0, pause |-> NoPause, pending |-> NoPause,
   calls |-> {}, st |-> [c \in Calls |-> "none"],
   approval |-> [c \in Calls |-> "none"], useAt |-> 0, claim |-> {}]

-----------------------------------------------------------------------------
(* Messages: who speaks and which tool blocks they carry.                  *)

Message == [kind : {"user", "text", "use", "result", "resolved"},
            calls : SUBSET Calls,      \* ToolUse or ToolResult blocks
            bad : SUBSET Calls]        \* ToolResult blocks with IsError

UserMsg == [kind |-> "user", calls |-> {}, bad |-> {}]
TextMsg == [kind |-> "text", calls |-> {}, bad |-> {}]
UseMsg(T) == [kind |-> "use", calls |-> T, bad |-> {}]
ResultMsg(T, B) == [kind |-> "result", calls |-> T, bad |-> B]
ResolvedMsg(c, B) == [kind |-> "resolved", calls |-> {c}, bad |-> B]
ResultKind == {"result", "resolved"}   \* by the tool, by manual resolution

(* Call IDs with a ToolUse (a ToolResult) block in messages.               *)
UsesIn(msgs) == UNION {msgs[i].calls : i \in {j \in DOMAIN msgs : msgs[j].kind = "use"}}
ResultsIn(msgs) == UNION {msgs[i].calls : i \in {j \in DOMAIN msgs : msgs[j].kind \in ResultKind}}

(* activeToolBatch: messages start with exactly the batch's ToolUse turn   *)
(* and continue only with results of its calls, none of them twice.        *)
ActiveBatch(msgs, ex) ==
  /\ msgs # <<>>
  /\ msgs[1].kind = "use"
  /\ msgs[1].calls = ex.calls
  /\ \A i \in 2..Len(msgs) :
       /\ msgs[i].kind \in ResultKind
       /\ msgs[i].calls \subseteq ex.calls
       /\ \A j \in 2..(i - 1) : msgs[i].calls \cap msgs[j].calls = {}

(* activeToolBatchFromMessages: the suffix that starts at the last turn    *)
(* whose ToolUse blocks are the batch, <<>> when there is none.            *)
ActiveSuffix(msgs, ex) ==
  LET turns == {i \in DOMAIN msgs : msgs[i].kind = "use" /\ msgs[i].calls = ex.calls}
  IN IF turns = {} THEN <<>>
     ELSE SubSeq(msgs, CHOOSE i \in turns : \A j \in turns : j <= i, Len(msgs))

-----------------------------------------------------------------------------
(* The changes a Save carries, one per closure passed to persistExecution  *)
(* and one per record literal the engine builds.                           *)

(* planToolBatch *)
PlanBatch(ex, T, iter, at) ==
  [ex EXCEPT !.calls = T, !.phase = "Tools", !.iteration = iter, !.cursor = at,
             !.st = [c \in Calls |-> IF c \in T THEN "Planned" ELSE "none"],
             !.approval = [c \in Calls |-> "none"], !.useAt = 0, !.claim = {}]

(* markToolBatchReady *)
MarkReady(ex, at) ==
  [ex EXCEPT !.cursor = at, !.useAt = at,
             !.st = [c \in Calls |-> IF c \in ex.calls THEN "Ready" ELSE ex.st[c]]]

SetStatus(ex, c, s) == [ex EXCEPT !.st[c] = s]

(* Fault: the batch is dropped as soon as one call has completed.          *)
CompleteCallsAny(ex, T, at) ==
  IF ex.calls \cap T = {} THEN [ex EXCEPT !.cursor = at]
  ELSE [ex EXCEPT !.cursor = at, !.phase = "Model", !.calls = {},
                  !.st = NoExecution.st, !.approval = NoExecution.approval,
                  !.useAt = 0, !.claim = {}]

(* removeToolCalls: complete the calls and, when none is left, drop the    *)
(* batch and return to the model.                                          *)
CompleteCalls(ex, T, at) ==
  LET st == [c \in Calls |-> IF c \in ex.calls \cap T THEN "Completed" ELSE ex.st[c]]
  IN IF ex.calls = {} THEN [ex EXCEPT !.cursor = at]
     ELSE IF \A c \in ex.calls : st[c] = "Completed"
     THEN [ex EXCEPT !.cursor = at, !.phase = "Model", !.calls = {},
                     !.st = NoExecution.st, !.approval = NoExecution.approval,
                     !.useAt = 0, !.claim = {}]
     ELSE [ex EXCEPT !.cursor = at, !.st = st]

(* finishResolutionClaim *)
ResolveCall(ex, c, at) == [CompleteCalls(ex, {c}, at) EXCEPT !.claim = {}]

(* persistApprovalDecisions *)
RecordDecisions(ex, T, decision) ==
  [ex EXCEPT !.approval = [c \in Calls |-> IF c \in T THEN decision[c] ELSE ex.approval[c]]]

(* interrupt and pauseRecoveredExecution *)
RecordPause(ex, pause, at, iter) ==
  [ex EXCEPT !.status = "Paused", !.phase = "Paused", !.cursor = at,
             !.iteration = iter, !.pause = pause, !.pending = NoPause]

(* RecoverExecution on a record with a PendingPause *)
ProjectPause(ex) ==
  [ex EXCEPT !.status = "Paused", !.phase = "Paused",
             !.pause = ex.pending, !.pending = NoPause]

(* Fault: the claim writes a phase no reader knows.                        *)
ClaimResumeUnknownPhase(ex) ==
  [ex EXCEPT !.status = "Running", !.phase = "Resuming", !.pause = NoPause]

(* execute: claim a paused record for a resume *)
ClaimResume(ex) ==
  [ex EXCEPT !.status = "Running", !.phase = "Tools", !.pause = NoPause]

(* finalizeExecution *)
Finalize(ex, status, at, iter) ==
  [ex EXCEPT !.status = status, !.phase = "Done", !.cursor = at,
             !.iteration = iter, !.pause = NoPause]
=============================================================================
