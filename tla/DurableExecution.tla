-------------------------- MODULE DurableExecution --------------------------
(***************************************************************************)
(* One durable execution of an Agent and everything that may act on it:    *)
(* the invocation that creates it (Invoke), later Resume, RecoverExecution *)
(* and ReconcileToolExecution calls, each run by a worker of some process, *)
(* over two stores that share no transaction: the ExecutionStore record,   *)
(* saved by compare-and-swap on its version, and the ConversationStore     *)
(* log, appended by compare-and-swap on its revision.  agent/engine.go,    *)
(* agent/tool_batch.go, agent/tool_exec.go.                                *)
(*                                                                         *)
(* Every store call is one step.  A store call may succeed, be refused by  *)
(* its compare-and-swap, fail without effect, or take effect and lose its  *)
(* acknowledgement; a process may crash between any two steps.  Work that  *)
(* touches no store is part of the step before or after it.                *)
(***************************************************************************)
EXTENDS ExecutionRecord

CONSTANTS Workers,        \* goroutines that call the Agent API
          ProcessOf,      \* the process (one Agent value) each runs in
          MaxIterations,  \* WithMaxIterations
          TextChoices,    \* does the model speak before its tool calls?
          MaxOps,         \* bound: API calls started
          MaxFaults,      \* bound: crashes and failed store calls
          MaxForeign      \* bound: appends by other executions

ASSUME BoundAssumption == /\ MaxIterations \in Nat /\ TextChoices \subseteq BOOLEAN
                          /\ MaxOps \in Nat /\ MaxFaults \in Nat /\ MaxForeign \in Nat
                          /\ DOMAIN ProcessOf = Workers

VARIABLES exec,      \* the stored Execution
          log,       \* the stored conversation
          run,       \* run state of each worker
          started,   \* handler starts of each call
          retries,   \* Retry resolutions of each call
          granted,   \* calls a human allowed on a claimed resume
          ops, faults, foreign

vars == <<exec, log, run, started, retries, granted, ops, faults, foreign>>
history == <<started, retries, granted>>

Outcome == {"none", "todo", "claimed", "ok", "err", "human",
            "pending", "unknown", "coordination"}

(* The run struct and the locals of the functions on its stack.            *)
Idle == [op |-> "idle", pc |-> "idle",
         held |-> FALSE,                      \* holds the conversation lock
         ex |-> NoExecution,                  \* r.execution
         at |-> 0,                            \* r.revision, r.lastSequence
         iteration |-> 0,
         delta |-> <<>>,                      \* messages[r.persistedCount:]
         tools |-> {}, text |-> FALSE,        \* the model response
         out |-> [c \in Calls |-> "none"],    \* outcomes of executeBatch
         done |-> {}, failed |-> FALSE,       \* definitive calls, batch error
         pause |-> NoPause,                   \* interrupt to expose or resume
         from |-> 0,                          \* cursor of the resumed interrupt
         answer |-> [c \in Calls |-> "none"], \* decisions of the response
         target |-> {},                       \* resolution of Reconcile
         end |-> "Failed"]                    \* status finalizeExecution writes

Init == /\ exec = NoExecution
        /\ log = <<>>
        /\ run = [w \in Workers |-> Idle]
        /\ started = [c \in Calls |-> 0]
        /\ retries = [c \in Calls |-> 0]
        /\ granted = {}
        /\ ops = 0 /\ faults = 0 /\ foreign = 0

-----------------------------------------------------------------------------
(* Store calls.                                                            *)

Goto(r, pc) == [r EXCEPT !.pc = pc]
Set(w, r) == run' = [run EXCEPT ![w] = r]

(* Fault: a Save that leaves the version as it was.                        *)
StoredUnversioned(next) == next

(* The record a Save stores and returns.                                   *)
Stored(next) == [next EXCEPT !.version = @ + 1]

(* Fault: the last writer wins.                                            *)
SaveBlindly(w, next, good, bad) ==
  /\ exec' = [next EXCEPT !.version = exec.version + 1]
  /\ Set(w, IF good.pc = "idle" THEN Idle ELSE [good EXCEPT !.ex = exec'])
  /\ UNCHANGED <<log, ops, foreign, faults>>

(* executionStore.Save(next, next.Version) by w, which continues as good   *)
(* with the returned record, or as bad on any error.                       *)
Save(w, next, good, bad) ==
  /\ UNCHANGED <<log, ops, foreign>>
  /\ \/ /\ exec.version = next.version
        /\ exec' = Stored(next)
        /\ Set(w, IF good.pc = "idle" THEN Idle ELSE [good EXCEPT !.ex = Stored(next)])
        /\ UNCHANGED faults
     \/ /\ exec.version # next.version
        /\ Set(w, bad)
        /\ UNCHANGED <<exec, faults>>
     \/ /\ faults < MaxFaults
        /\ faults' = faults + 1
        /\ exec' \in {exec} \cup (IF exec.version = next.version THEN {Stored(next)} ELSE {})
        /\ Set(w, bad)

(* Fault: an Append that ignores the expected revision.                    *)
SaveConversationBlindly(w, r, good, bad) ==
  /\ log' = log \o r.delta
  /\ Set(w, IF good.pc = "idle" THEN Idle ELSE [good EXCEPT !.at = Len(log'), !.delta = <<>>])
  /\ UNCHANGED <<exec, ops, faults, foreign, history>>

(* saveConversation: append the delta of run r at revision r.at; an empty  *)
(* delta is no store call.                                                 *)
SaveConversation(w, r, good, bad) ==
  /\ UNCHANGED <<exec, ops, foreign, history>>
  /\ \/ /\ r.delta = <<>> \/ r.at = Len(log)
        /\ log' = log \o r.delta
        /\ Set(w, IF good.pc = "idle" THEN Idle
                  ELSE [good EXCEPT !.at = r.at + Len(r.delta), !.delta = <<>>])
        /\ UNCHANGED faults
     \/ /\ r.delta # <<>> /\ r.at # Len(log)
        /\ Set(w, bad)
        /\ UNCHANGED <<log, faults>>
     \/ /\ faults < MaxFaults
        /\ faults' = faults + 1
        /\ r.delta # <<>>
        /\ log' \in {log} \cup (IF r.at = Len(log) THEN {log \o r.delta} ELSE {})
        /\ Set(w, bad)

(* A read, or work that touches no store, moves w to r.                    *)
Step(w, r) == Set(w, r) /\ UNCHANGED <<exec, log, ops, faults, foreign, history>>

(* A read that fails moves w to bad.                                       *)
ReadFails(w, bad) ==
  /\ faults < MaxFaults
  /\ faults' = faults + 1
  /\ Set(w, bad)
  /\ UNCHANGED <<exec, log, ops, foreign, history>>

LockFree(w) == \A v \in Workers : ProcessOf[v] = ProcessOf[w] => ~run[v].held

(* Faults: the record is finalized with its batch; the lock is not freed.  *)
ReturnAlwaysFinal(r, status) ==
  [Idle EXCEPT !.op = r.op, !.pc = "finalize", !.held = TRUE, !.ex = r.ex,
               !.at = r.at, !.iteration = r.iteration, !.end = status]
ReturnKeepingLock(r, status) == [Idle EXCEPT !.held = TRUE]

(* lifecycle returns: finalizeExecution unless an incomplete batch must    *)
(* stay with recovery.  RecoverExecution and Reconcile just return.        *)
Return(r, status) ==
  IF r.op \in {"invoke", "resume"} /\ r.ex.calls = {}
  THEN [Idle EXCEPT !.op = r.op, !.pc = "finalize", !.held = TRUE, !.ex = r.ex,
                    !.at = r.at, !.iteration = r.iteration, !.end = status]
  ELSE Idle
Fail(r) == Return(r, "Failed")

Canonical(r) == SubSeq(log, 1, r.at) \o r.delta

-----------------------------------------------------------------------------
(* Invoke: execute, lifecycle, prepareTurnMessages, loopTurn.              *)

Begin(w) == run[w].op = "idle" /\ ops < MaxOps /\ ops' = ops + 1

(* lifecycle of a fresh invocation: lock the conversation, Create.         *)
Create(w) ==
  /\ Begin(w) /\ LockFree(w)
  /\ exec.version = 0
  /\ UNCHANGED <<log, foreign, history>>
  /\ \/ /\ exec' = [NoExecution EXCEPT !.version = 1]
        /\ Set(w, [Idle EXCEPT !.op = "invoke", !.pc = "prepare", !.held = TRUE, !.ex = exec'])
        /\ UNCHANGED faults
     \/ /\ faults < MaxFaults /\ faults' = faults + 1   \* acknowledgement lost
        /\ exec' = [NoExecution EXCEPT !.version = 1]
        /\ UNCHANGED run

(* prepareTurnMessages: input guardrails and LoadAfter.                    *)
PrepareTurn(w) ==
  LET r == run[w] IN
  /\ r.pc = "prepare"
  /\ \/ Step(w, [r EXCEPT !.pc = "startCursor", !.at = Len(log)])
     \/ Step(w, Fail(r))

(* persistExecutionStartCursor, then the user message joins the turn.      *)
PersistStartCursor(w) ==
  LET r == run[w] IN
  /\ r.pc = "startCursor"
  /\ Save(w, [r.ex EXCEPT !.start = r.at],
          [r EXCEPT !.pc = "model", !.delta = <<UserMsg>>], Fail(r))
  /\ UNCHANGED history

(* From the prepared turn, or a finished batch, to the model's response:   *)
(* retrieval, attachments, configuration, cancellation and the iteration   *)
(* limit may end the run; then the context manager and callProvider.  The  *)
(* model answers or asks for calls, possibly with text before them.        *)
ModelCall(w) ==
  LET r == run[w]
      next == [r EXCEPT !.pc = "progress", !.iteration = @ + 1]
  IN /\ r.pc = "model"
     /\ \/ Step(w, Fail(r))
        \/ /\ r.iteration < MaxIterations
           /\ \/ Step(w, Fail(next))
              \/ \E T \in SUBSET Calls, text \in TextChoices :
                   Step(w, [next EXCEPT !.tools = T, !.text = text])

(* persistRuntimeProgress, then the token budget, then answer or tools:    *)
(* a durable tool turn saves what precedes it, text in its own turn.       *)
AfterTurn(r) ==
  IF r.delta # <<>> THEN Goto(r, "saveTurn")
  ELSE IF r.text THEN [r EXCEPT !.pc = "saveTurn", !.text = FALSE, !.delta = <<TextMsg>>]
  ELSE Goto(r, "plan")

PersistProgress(w) ==
  LET r == run[w]
      next == [r.ex EXCEPT !.iteration = r.iteration]
      overBudget == Fail([r EXCEPT !.ex = Stored(next)])
  IN /\ r.pc = "progress"
     /\ \E good \in {IF r.tools = {} THEN Goto(r, "answer") ELSE AfterTurn(r), overBudget} :
          Save(w, next, good, Fail(r))
     /\ UNCHANGED history

SaveTurn(w) ==
  LET r == run[w] IN
  /\ r.pc = "saveTurn"
  /\ SaveConversation(w, r, AfterTurn([r EXCEPT !.delta = <<>>]), Fail(r))

(* Final answer: output guardrails, cancellation, one append of the rest   *)
(* of the turn, Completed.                                                 *)
Answer(w) ==
  LET r == run[w]
      last == [r EXCEPT !.delta = IF r.text THEN Append(@, TextMsg) ELSE @]
  IN /\ r.pc = "answer"
     /\ \/ Step(w, Fail(r))
        \/ SaveConversation(w, last, Return(r, "Completed"), Fail(r))

(* Fault: only the turns after the record's cursor are searched.           *)
PriorToolUsesSinceCursor(w) ==
  LET r == run[w]
      reused == r.tools \cap UsesIn(SubSeq(log, r.at + 1, Len(log)))
  IN /\ r.pc = "plan"
     /\ Step(w, IF r.ex.calls # {} \/ reused # {} THEN Fail(r) ELSE Goto(r, "planSave"))

(* planToolBatch: no batch may be open, and no call ID may be used twice   *)
(* in the transcript since the execution began; then the batch is stored.  *)
PriorToolUses(w) ==
  LET r == run[w]
      reused == r.tools \cap UsesIn(SubSeq(log, r.ex.start + 1, Len(log)))
  IN /\ r.pc = "plan"
     /\ \/ Step(w, IF r.ex.calls # {} \/ reused # {} THEN Fail(r) ELSE Goto(r, "planSave"))
        \/ ReadFails(w, Fail(r))

(* Fault: the batch is made ready before its ToolUse turn is appended.     *)
PlanToolBatchEarly(w) ==
  LET r == run[w] IN
  /\ r.pc = "planSave"
  /\ Save(w, PlanBatch(r.ex, r.tools, r.iteration, r.at),
          [r EXCEPT !.pc = "markReady", !.delta = <<UseMsg(r.tools)>>], Fail(r))
  /\ UNCHANGED history

PlanToolBatch(w) ==
  LET r == run[w] IN
  /\ r.pc = "planSave"
  /\ Save(w, PlanBatch(r.ex, r.tools, r.iteration, r.at),
          [r EXCEPT !.pc = "appendUse", !.delta = <<UseMsg(r.tools)>>], Fail(r))
  /\ UNCHANGED history

(* The ToolUse turn of a planned batch, appended by its invocation or by   *)
(* recoverToolUses.                                                        *)
AppendToolUse(w) ==
  LET r == run[w] IN
  /\ r.pc = "appendUse"
  /\ SaveConversation(w, r, Goto(r, "markReady"), Fail(r))

MarkToolBatchReady(w) ==
  LET r == run[w] IN
  /\ r.pc = "markReady"
  /\ Save(w, MarkReady(r.ex, r.at),
          Goto(r, IF r.op = "recover" THEN "inspect" ELSE "dispatch"), Fail(r))
  /\ UNCHANGED history

(* finalizeExecution runs detached from cancellation; its error is joined  *)
(* to the result and nothing retries it.                                   *)
FinalizeExecution(w) ==
  LET r == run[w] IN
  /\ r.pc = "finalize"
  /\ Save(w, Finalize(r.ex, r.end, r.at, r.iteration), Idle, Idle)
  /\ UNCHANGED history

-----------------------------------------------------------------------------
(* toolBatchCoordinator.run: prepareToolBatch, executeBatch, commit.       *)

(* executeBatch starts: every call not yet completed is to be run.         *)
StartBatch(r) ==
  [r EXCEPT !.pc = "exec",
            !.out = [c \in Calls |-> IF c \in r.ex.calls /\ r.ex.st[c] # "Completed"
                                     THEN "todo" ELSE "none"]]

(* Fault: the error of a batch with an unknown outcome is dropped.         *)
AfterBatchIgnoringErrors(r) ==
  CASE r.pause.kind # "none" -> Goto(r, "pause")
    [] r.op = "recover"      -> Idle
    [] OTHER                 -> Goto(r, "model")

(* What the caller of the coordinator does with its result.                *)
AfterBatch(r) ==
  CASE r.failed                 -> Fail(r)
    [] r.pause.kind # "none"    -> Goto(r, "pause")
    [] r.op = "recover"         -> Idle
    [] OTHER                    -> Goto(r, "model")

(* prepareToolBatch: find the batch in the transcript, acknowledge results *)
(* already canonical, keep the calls that remain.                          *)
Dispatch(w) ==
  LET r == run[w]
      active == ActiveSuffix(Canonical(r), r.ex)
      found == ResultsIn(active)
      next == CompleteCalls(r.ex, found, r.at)
      rest == [r EXCEPT !.ex = next]
  IN /\ r.pc = "dispatch"
     /\ \/ (r.ex.calls = {} \/ ~ActiveBatch(active, r.ex)) /\ Step(w, Fail(r))
        \/ /\ r.ex.calls # {} /\ ActiveBatch(active, r.ex)
           /\ \/ found = {} /\ Step(w, StartBatch(r))
              \/ /\ found # {}
                 /\ Save(w, next, IF next.calls = {} THEN AfterBatch(rest) ELSE StartBatch(rest),
                         Fail(r))
                 /\ UNCHANGED history

(* executeBatch with nil decisions runs the approval-configured calls      *)
(* through the pipeline first and lets siblings run only if none pends.    *)
Preflight(r) == \A c \in r.ex.calls : r.ex.approval[c] = "none"
Blocked(r, c) == /\ Preflight(r) /\ c \notin NeedsApproval
                 /\ \E a \in NeedsApproval : r.out[a] \in {"todo", "pending"}
MayRun(r, c) == r.pc = "exec" /\ r.out[c] = "todo" /\ ~Blocked(r, c)
SetOut(r, c, o) == [r EXCEPT !.out[c] = o]

(* executeCall up to the approval gate: unknown tool, human denial, RBAC,  *)
(* schema, guard or cancellation give a definitive error with no handler.  *)
RejectCall(w, c) == MayRun(run[w], c) /\ Step(w, SetOut(run[w], c, "err"))

ApprovalGate(w, c) ==
  /\ MayRun(run[w], c)
  /\ c \in NeedsApproval /\ run[w].ex.approval[c] = "none"
  /\ Step(w, SetOut(run[w], c, "pending"))

(* Fault: only an explicit denial stops the call.                          *)
AllowedUnlessDenied(r, c) == r.ex.approval[c] # "deny"

(* The gates of executeCall before the claim.                              *)
Allowed(r, c) == /\ r.ex.approval[c] # "deny"
                 /\ c \in NeedsApproval => r.ex.approval[c] = "allow"

(* beginToolExecution: the durable claim before the handler.               *)
MayClaim(r, c) == \/ r.ex.st[c] = "Ready"
                  \/ r.ex.st[c] = "InFlight" /\ r.op = "recover" /\ c \in ReplaySafe

BeginToolExecution(w, c) ==
  LET r == run[w] IN
  /\ MayRun(r, c) /\ Allowed(r, c)
  /\ \/ /\ MayClaim(r, c)
        /\ Save(w, SetStatus(r.ex, c, "InFlight"), SetOut(r, c, "claimed"),
                SetOut(r, c, "coordination"))
        /\ UNCHANGED history
     \/ /\ ~MayClaim(r, c)
        /\ Step(w, SetOut(r, c, IF r.ex.st[c] = "InFlight" THEN "unknown" ELSE "coordination"))

(* The handler: it may succeed, fail, or not know whether it took effect.  *)
RunHandler(w, c) ==
  LET r == run[w] IN
  /\ r.pc = "exec" /\ r.out[c] = "claimed"
  /\ started' = [started EXCEPT ![c] = @ + 1]
  /\ \E o \in {"err", "unknown", IF c \in AsksHuman THEN "human" ELSE "ok"} :
       Set(w, SetOut(r, c, o))
  /\ UNCHANGED <<exec, log, ops, faults, foreign, retries, granted>>

(* All calls have an outcome: coordination loss commits nothing; an        *)
(* unknown outcome commits its definitive siblings and fails; human input  *)
(* turns pending approvals into definitive errors; else pause or commit.   *)
Collect(w) ==
  LET r == run[w]
      Having(O) == {c \in Calls : r.out[c] \in O}
      human == Having({"human"}) # {}
      bad == Having({"err"}) \cup (IF human THEN Having({"pending"}) ELSE {})
      done == Having({"ok", "human"}) \cup bad
      pend == Having({"pending"})
      msgs == IF done = {} THEN r.delta ELSE Append(r.delta, ResultMsg(done, bad))
      next == [r EXCEPT !.out = Idle.out, !.done = done, !.delta = msgs]
  IN /\ r.pc = "exec"
     /\ \A c \in Calls : r.out[c] # "claimed" /\ ~MayRun(r, c)
     /\ Step(w,
          IF Having({"coordination"}) # {} THEN Fail(r)
          ELSE IF Having({"unknown"}) # {} THEN
            IF done = {} THEN Fail(r) ELSE [next EXCEPT !.pc = "commit", !.failed = TRUE]
          ELSE IF human THEN
            [next EXCEPT !.pc = "pendingPause", !.pause = [kind |-> "human", calls |-> {}]]
          ELSE IF pend # {} THEN
            [next EXCEPT !.pc = "pendingPause", !.pause = [kind |-> "approval", calls |-> pend]]
          ELSE Goto(next, "commit"))

PersistPendingPause(w) ==
  LET r == run[w]
      next == [r.ex EXCEPT !.pending = r.pause, !.iteration = r.iteration]
  IN /\ r.pc = "pendingPause"
     /\ Save(w, next, IF r.done = {} THEN AfterBatch(r) ELSE Goto(r, "commit"), Fail(r))
     /\ UNCHANGED history

(* Fault: the record acknowledges results whose append failed.             *)
CommitResultsAnyway(w) ==
  LET r == run[w] IN
  /\ r.pc = "commit"
  /\ SaveConversation(w, r, Goto(r, "acknowledge"), Goto(r, "acknowledge"))

(* commitToolResults: the results become canonical, then the record        *)
(* acknowledges them.                                                      *)
CommitResults(w) ==
  LET r == run[w] IN
  /\ r.pc = "commit"
  /\ SaveConversation(w, r, Goto(r, "acknowledge"), Fail(r))

AcknowledgeResults(w) ==
  LET r == run[w]
      next == CompleteCalls(r.ex, r.done, r.at)
  IN /\ r.pc = "acknowledge"
     /\ Save(w, next, AfterBatch([r EXCEPT !.ex = next, !.done = {}]), Fail(r))
     /\ UNCHANGED history

(* interrupt and pauseRecoveredExecution: the final pause transition.  An  *)
(* invocation checks cancellation first; after the Save, acknowledged or   *)
(* not, the interrupt is exposed and nothing finalizes the record.         *)
PauseExecution(w) ==
  LET r == run[w] IN
  /\ r.pc = "pause"
  /\ \/ r.op # "recover" /\ Step(w, Fail(r))
     \/ /\ Save(w, RecordPause(r.ex, r.pause, r.at, r.iteration), Idle, Idle)
        /\ UNCHANGED history

-----------------------------------------------------------------------------
(* Resume: execute claims the pause before the conversation lock is taken, *)
(* lifecycle loads the record again, resumeTurn checks the transcript.     *)

(* Load and validate; a caller that holds another version gets a conflict  *)
(* and changes nothing.                                                    *)
LoadPaused(w) ==
  /\ Begin(w)
  /\ exec.status = "Paused" /\ exec.pause.kind # "none"
  /\ \E answer \in [exec.pause.calls -> {"allow", "deny"}] :
       Set(w, [Idle EXCEPT !.op = "resume", !.pc = "claim", !.ex = exec,
                           !.pause = exec.pause, !.from = exec.cursor,
                           !.answer = [c \in Calls |-> IF c \in exec.pause.calls
                                                       THEN answer[c] ELSE "none"]])
  /\ UNCHANGED <<exec, log, faults, foreign, history>>

(* History: the calls a human has allowed on a resume that won its claim.  *)
ClaimPause(w) ==
  LET r == run[w] IN
  /\ r.pc = "claim"
  /\ Save(w, ClaimResume(r.ex), Goto(r, "reload"), Idle)
  /\ granted' = IF exec' = exec THEN granted
                ELSE granted \cup {c \in Calls : r.answer[c] = "allow"}
  /\ UNCHANGED <<started, retries>>

(* lifecycle with executionResume: the record is loaded whatever it is.    *)
ReloadClaimed(w) ==
  LET r == run[w] IN
  /\ r.pc = "reload" /\ LockFree(w)
  /\ \/ Step(w, [r EXCEPT !.pc = "rejoin", !.held = TRUE, !.ex = exec,
                          !.iteration = exec.iteration])
     \/ ReadFails(w, Idle)

(* resumeTurn: LoadAfter, revision check, guardrails, user message.        *)
Rejoin(w) ==
  LET r == run[w]
      next == [r EXCEPT !.at = Len(log)]
  IN /\ r.pc = "rejoin"
     /\ \/ Step(w, Fail(r))   \* a read fails, or the log is not at the cursor
        \/ /\ Len(log) = r.from
           /\ \/ Step(w, Fail(next))
              \/ Step(w, IF r.pause.kind = "human"
                         THEN [next EXCEPT !.pc = "model", !.delta = <<UserMsg>>, !.pause = NoPause]
                         ELSE Goto(next, "decide"))

(* persistApprovalDecisions, then approvalResumeBatch rebuilds the batch.  *)
Decide(w) ==
  LET r == run[w]
      clean == [r EXCEPT !.pause = NoPause]
  IN /\ r.pc = "decide"
     /\ \/ ~(r.pause.calls \subseteq r.ex.calls) /\ Step(w, Fail(clean))
        \/ /\ r.pause.calls \subseteq r.ex.calls
           /\ Save(w, RecordDecisions(r.ex, r.pause.calls, r.answer),
                   Goto(clean, "dispatch"), Fail(clean))
           /\ UNCHANGED history

-----------------------------------------------------------------------------
(* RecoverExecution.                                                       *)

(* Load: a PendingPause is projected whatever the status; otherwise only a *)
(* running record with an open batch is recovered.  Other records return.  *)
Recoverable(ex) == ex.status = "Running" /\ ex.phase = "Tools" /\ ex.calls # {}

LoadForRecovery(w) ==
  /\ Begin(w)
  /\ exec.version > 0
  /\ exec.pending.kind # "none" \/ Recoverable(exec)
  /\ Set(w, [Idle EXCEPT !.op = "recover", !.ex = exec, !.iteration = exec.iteration,
                         !.pc = IF exec.pending.kind # "none" THEN "project" ELSE "recover"])
  /\ UNCHANGED <<exec, log, faults, foreign, history>>

ProjectPendingPause(w) ==
  /\ run[w].pc = "project"
  /\ Save(w, ProjectPause(run[w].ex), Idle, Idle)
  /\ UNCHANGED history

(* Lock, LoadAfter the active boundary, recoverToolUses.                   *)
AllPlanned(ex) == \A c \in ex.calls : ex.st[c] = "Planned"
AfterToolUse(ex) == IF ex.useAt > 0 THEN ex.useAt ELSE ex.cursor   \* fault: off by one
After(ex) == IF ex.useAt > 0 THEN ex.useAt - 1 ELSE ex.cursor
Boundary(r) == SubSeq(log, After(r.ex) + 1, r.at) \o r.delta

LoadBoundary(w) ==
  LET r == [run[w] EXCEPT !.at = Len(log), !.held = TRUE]
      msgs == Boundary(r)
  IN /\ run[w].pc = "recover" /\ LockFree(w)
     /\ \/ Step(w, CASE ~AllPlanned(r.ex)         -> Goto(r, "inspect")
                     [] msgs = <<>>               -> [r EXCEPT !.pc = "appendUse",
                                                               !.delta = <<UseMsg(r.ex.calls)>>]
                     [] ActiveBatch(msgs, r.ex)   -> Goto(r, "markReady")
                     [] OTHER                     -> Idle)
        \/ ReadFails(w, Idle)

(* The rest of RecoverExecution, decided on the loaded messages: finish a  *)
(* manual resolution, acknowledge canonical results, refuse an uncertain   *)
(* unsafe call before any handler runs, or dispatch what is left.          *)
Uncertain(ex) == \E c \in ex.calls : ex.st[c] = "InFlight" /\ c \notin ReplaySafe
CheckUncertain(r) == IF Uncertain(r.ex) THEN Idle ELSE Goto(r, "dispatch")

Inspect(w) ==
  LET r == run[w]
      found == ResultsIn(Boundary(r))
      next == CompleteCalls(r.ex, found, r.at)
  IN /\ r.pc = "inspect"
     /\ \/ r.ex.claim # {} /\ Step(w, Goto(r, "resolve"))
        \/ r.ex.claim = {} /\ ~ActiveBatch(Boundary(r), r.ex) /\ Step(w, Idle)
        \/ /\ r.ex.claim = {} /\ ActiveBatch(Boundary(r), r.ex)
           /\ \/ found = {} /\ Step(w, CheckUncertain(r))
              \/ /\ found # {}
                 /\ Save(w, next, IF next.calls = {} THEN Idle
                                  ELSE CheckUncertain([r EXCEPT !.ex = next]), Idle)
                 /\ UNCHANGED history

-----------------------------------------------------------------------------
(* ReconcileToolExecution: no conversation lock; the version the caller    *)
(* inspected must be current and the call in flight.                       *)
LoadForReconcile(w) ==
  /\ Begin(w)
  /\ exec.calls # {} /\ exec.claim = {}
  /\ \E c \in exec.calls, succeeded \in BOOLEAN, pc \in {"retry", "resolution"} :
       /\ exec.st[c] = "InFlight"
       /\ pc = "retry" => succeeded
       /\ Set(w, [Idle EXCEPT !.op = "reconcile", !.pc = pc, !.ex = exec,
                              !.target = {<<c, succeeded>>}])
  /\ UNCHANGED <<exec, log, faults, foreign, history>>

RetryCall(w) ==
  /\ run[w].pc = "retry"
  /\ \E t \in run[w].target :
       /\ Save(w, SetStatus(run[w].ex, t[1], "Ready"), Idle, Idle)
       /\ retries' = IF exec' = exec THEN retries ELSE [retries EXCEPT ![t[1]] = @ + 1]
  /\ UNCHANGED <<started, granted>>

ClaimResolution(w) ==
  LET r == run[w] IN
  /\ r.pc = "resolution"
  /\ Save(w, [r.ex EXCEPT !.claim = r.target], Goto(r, "loadResolution"), Idle)
  /\ UNCHANGED history

LoadResolution(w) ==
  LET r == run[w] IN
  /\ r.pc = "loadResolution"
  /\ \/ Step(w, IF r.ex.useAt = 0 THEN Idle ELSE [r EXCEPT !.pc = "resolve", !.at = Len(log)])
     \/ ReadFails(w, Idle)

(* finishResolutionClaim: a result already canonical must equal the        *)
(* claimed one (a tool's output may happen to); otherwise the claimed      *)
(* result is appended; then the call completes.                            *)
ResolveClaim(w, r, c, bad) ==
  LET msgs == Boundary(r)
      Found(kind) == \E i \in DOMAIN msgs : msgs[i].kind = kind /\ c \in msgs[i].calls
                                             /\ msgs[i].bad \cap {c} = bad
  IN \/ /\ ~ActiveBatch(msgs, r.ex) \/ (c \in ResultsIn(msgs) /\ ~Found("resolved"))
        /\ Step(w, Idle)
     \/ /\ ActiveBatch(msgs, r.ex)
        /\ Found("resolved") \/ Found("result")
        /\ Step(w, Goto(r, "resolved"))
     \/ /\ ActiveBatch(msgs, r.ex)
        /\ c \notin ResultsIn(msgs)
        /\ SaveConversation(w, [r EXCEPT !.delta = <<ResolvedMsg(c, bad)>>],
                            Goto(r, "resolved"), Idle)

Resolve(w) ==
  /\ run[w].pc = "resolve"
  /\ \E t \in run[w].ex.claim : ResolveClaim(w, run[w], t[1], IF t[2] THEN {} ELSE {t[1]})

AcknowledgeResolution(w) ==
  LET r == run[w] IN
  /\ r.pc = "resolved"
  /\ \E t \in r.ex.claim :
       LET next == ResolveCall(r.ex, t[1], r.at)
       IN Save(w, next, IF r.op = "reconcile" \/ next.calls = {} THEN Idle ELSE Goto(r, "inspect"),
               Idle)
  /\ UNCHANGED history

-----------------------------------------------------------------------------
(* The environment.                                                        *)

(* A process dies: its workers, their locals and its locks are gone.       *)
Crash(p) ==
  /\ faults < MaxFaults
  /\ \E w \in Workers : ProcessOf[w] = p /\ run[w].op # "idle"
  /\ faults' = faults + 1
  /\ run' = [w \in Workers |-> IF ProcessOf[w] = p THEN Idle ELSE run[w]]
  /\ UNCHANGED <<exec, log, ops, foreign, history>>

(* Another execution, in a process of its own, adds a turn.                *)
ForeignAppend ==
  /\ foreign < MaxForeign
  /\ foreign' = foreign + 1
  /\ log' = Append(log, UserMsg)
  /\ UNCHANGED <<exec, run, ops, faults, history>>

InvokeStep(w) ==
  \/ PrepareTurn(w) \/ PersistStartCursor(w) \/ ModelCall(w) \/ PersistProgress(w)
  \/ SaveTurn(w) \/ Answer(w) \/ PriorToolUses(w) \/ PlanToolBatch(w)
  \/ AppendToolUse(w) \/ MarkToolBatchReady(w) \/ FinalizeExecution(w)

BatchStep(w) ==
  \/ Dispatch(w) \/ Collect(w) \/ PersistPendingPause(w) \/ CommitResults(w)
  \/ AcknowledgeResults(w) \/ PauseExecution(w)
  \/ \E c \in Calls : RejectCall(w, c) \/ ApprovalGate(w, c)
                      \/ BeginToolExecution(w, c) \/ RunHandler(w, c)

ResumeStep(w) == ClaimPause(w) \/ ReloadClaimed(w) \/ Rejoin(w) \/ Decide(w)
RecoverStep(w) == ProjectPendingPause(w) \/ LoadBoundary(w) \/ Inspect(w)
ReconcileStep(w) == \/ RetryCall(w) \/ ClaimResolution(w) \/ LoadResolution(w)
                    \/ Resolve(w) \/ AcknowledgeResolution(w)

Start(w) == Create(w) \/ LoadPaused(w) \/ LoadForRecovery(w) \/ LoadForReconcile(w)
Work(w) == \/ InvokeStep(w) \/ BatchStep(w) \/ ResumeStep(w)
           \/ RecoverStep(w) \/ ReconcileStep(w)

Next == \/ \E w \in Workers : Start(w) \/ Work(w)
        \/ \E p \in {ProcessOf[w] : w \in Workers} : Crash(p)
        \/ ForeignAppend

Spec == Init /\ [][Next]_vars

(* A running goroutine is eventually scheduled and every call it makes     *)
(* returns; nobody is obliged to start an API call or to crash.            *)
FairSpec == Spec /\ \A w \in Workers : WF_vars(Work(w))

-----------------------------------------------------------------------------
(* Properties.                                                             *)

Place == {"idle", "prepare", "startCursor", "model", "progress", "saveTurn", "answer",
          "plan", "planSave", "appendUse", "markReady", "finalize", "dispatch", "exec",
          "pendingPause", "commit", "acknowledge", "pause", "claim", "reload", "rejoin",
          "decide", "project", "recover", "inspect", "retry", "resolution",
          "loadResolution", "resolve", "resolved"}

Run == [op : {"idle", "invoke", "resume", "recover", "reconcile"}, pc : Place,
        held : BOOLEAN, ex : Execution, at : Nat, iteration : Nat,
        delta : Seq(Message), tools : SUBSET Calls, text : BOOLEAN,
        out : [Calls -> Outcome], done : SUBSET Calls, failed : BOOLEAN,
        pause : Pause, from : Nat, answer : [Calls -> Decision],
        target : SUBSET (Calls \X BOOLEAN), end : Terminal]

(* Every variable holds a value of the shape its Go type allows.           *)
TypeOK == /\ exec \in Execution
          /\ log \in Seq(Message)
          /\ run \in [Workers -> Run]
          /\ started \in [Calls -> Nat]
          /\ retries \in [Calls -> Nat]
          /\ granted \subseteq Calls
          /\ ops \in Nat /\ faults \in Nat /\ foreign \in Nat

(* A worker whose copy carries the stored version carries the stored       *)
(* record: what it saves is an edit of the current record, never a revival *)
(* of a stale one (persistExecution after a lost acknowledgement or a      *)
(* competing Resume, Recover or Reconcile).                                *)
CopiesAreFenced ==
  \A w \in Workers : /\ run[w].ex.version <= exec.version
                     /\ run[w].ex.version = exec.version => run[w].ex = exec

(* The transcript never holds two results for one call, however many       *)
(* workers, replays and manual resolutions raced to append one.            *)
OneResultPerCall ==
  \A i, j \in DOMAIN log :
    i # j /\ {log[i].kind, log[j].kind} \subseteq ResultKind
      => log[i].calls \cap log[j].calls = {}

(* A call ID, hence an idempotency key, belongs to one ToolUse turn, and a *)
(* result never precedes its ToolUse.                                      *)
OneUsePerCall ==
  \A i, j \in DOMAIN log :
    /\ i # j /\ log[i].kind = "use" /\ log[j].kind = "use" => log[i].calls \cap log[j].calls = {}
    /\ log[i].kind \in ResultKind => log[i].calls \subseteq UsesIn(SubSeq(log, 1, i - 1))

(* The handler of a tool that is not replay-safe starts at most once, plus *)
(* once per Retry resolution, over all workers, crashes and recoveries.    *)
UnsafeStartsOnce ==
  \A c \in Calls \ ReplaySafe : started[c] <= 1 + retries[c]

(* No handler starts before its ToolUse turn is canonical.                 *)
HandlerAfterToolUse == \A c \in Calls : started[c] > 0 => c \in UsesIn(log)

(* The handler of an approval-required tool starts only after a human      *)
(* allowed that call on a resume whose claim was stored.                   *)
ApprovedBeforeStart == \A c \in NeedsApproval : started[c] > 0 => c \in granted

(* The record never runs ahead of the transcript: past Planned, the        *)
(* batch's ToolUse turn is at its recorded sequence, and a Completed call  *)
(* has a canonical result.                                                 *)
RecordBehindTranscript ==
  \A c \in exec.calls :
    /\ exec.st[c] # "Planned" => exec.useAt \in DOMAIN log /\ log[exec.useAt] = UseMsg(exec.calls)
    /\ exec.st[c] = "Completed" => c \in ResultsIn(log)

(* A batch leaves the record only when every one of its calls has a        *)
(* canonical result.                                                       *)
BatchDroppedWhenCanonical ==
  [][exec.calls # {} /\ exec'.calls # exec.calls => exec.calls \subseteq ResultsIn(log)]_vars

(* An execution becomes terminal only when no batch is open in its record: *)
(* finalizeExecution leaves an open one to RecoverExecution and            *)
(* ReconcileToolExecution.                                                 *)
TerminalLeavesNoBatch ==
  [][exec.status \notin Terminal /\ exec'.status \in Terminal
       => exec.calls = {} /\ exec'.calls = {}]_vars

(* An answer is stored only on a record its resume moved to Running, never *)
(* on a later pause of the same call: resumeTurn after the claim.          *)
AnswerFitsPause ==
  [][exec'.calls = exec.calls /\ exec'.approval # exec.approval => exec.status = "Running"]_vars

(* A claimed manual resolution can be finished: no contrary result of its  *)
(* call is canonical.  finishResolutionClaim refuses one that is, for      *)
(* ever, and ReconcileToolExecution refuses a second resolution.           *)
ClaimCanFinish ==
  \A t \in exec.claim, i \in DOMAIN log :
    log[i].kind = "result" /\ t[1] \in log[i].calls => (t[1] \in log[i].bad <=> ~t[2])

(* The record of an execution that never pauses does not change once it is *)
(* terminal, whichever stale workers and recoveries are still running.     *)
TerminalIsFinal == [][exec.status \in Terminal => exec' = exec]_vars

(* A model request carries a result for every ToolUse of its history.      *)
ModelSeesNoOpenToolUse ==
  \A w \in Workers : run[w].pc = "model" =>
    UsesIn(Canonical(run[w])) \subseteq ResultsIn(Canonical(run[w]))

(* A pause for human input is stored with its batch resolved, so that its  *)
(* resume can call the model: persistPendingPause across a crash.          *)
HumanPauseIsResumable ==
  exec.status = "Paused" /\ exec.pause.kind = "human" => exec.calls = {}

(* Every API call returns: nobody waits for ever for the conversation lock *)
(* or in the model and tool loop.                                          *)
CallsReturn == \A w \in Workers : run[w].op # "idle" ~> run[w].op = "idle"

(* A RecoverExecution that nothing disturbs finishes the boundary: it      *)
(* clears the batch, pauses it, or leaves a call whose outcome is unknown. *)
Alone(w) == /\ ops = MaxOps /\ faults = MaxFaults /\ foreign = 0
            /\ \A v \in Workers \ {w} : run[v].op = "idle"
Finished == \/ exec.calls = {} \/ exec.status = "Paused"
            \/ \E c \in exec.calls : exec.st[c] = "InFlight"
RecoveryFinishes ==
  \A w \in Workers :
    Alone(w) /\ run[w].pc = "recover" /\ run[w].ex = exec /\ exec.claim = {} /\ ~Uncertain(exec)
      ~> run[w].op = "idle" /\ Finished
=============================================================================
