----------------------- MODULE DurableExecutionTypes ------------------------
(***************************************************************************)
(* TypeOK is an invariant of DurableExecution.  The record edits and the   *)
(* store calls are typed first, then the actions, group by group.          *)
(***************************************************************************)
EXTENDS DurableExecution, TLAPS

-----------------------------------------------------------------------------
(* What the record and run transitions return.                             *)

LEMMA NoExecutionType == NoExecution \in Execution
BY DEF NoExecution, Execution, NoPause, Pause, Status, Phase, CallStatus, Decision, Terminal

LEMMA IdleType == Idle \in Run
BY NoExecutionType DEF Idle, Run, Place, Outcome, NoPause, Pause, Decision, Terminal

LEMMA StoredType == ASSUME NEW next \in Execution PROVE Stored(next) \in Execution
BY DEF Stored, Execution

LEMMA ReturnType ==
  ASSUME NEW r \in Run, NEW status \in Terminal
  PROVE  Return(r, status) \in Run
<1> DEFINE i == Idle
<1>1. i \in Run
  BY IdleType
<1>2. "finalize" \in Place
  BY DEF Place
<1> HIDE DEF i
<1>3. [i EXCEPT !.op = r.op, !.pc = "finalize", !.held = TRUE, !.ex = r.ex,
                !.at = r.at, !.iteration = r.iteration, !.end = status] \in Run
  BY Zenon, <1>1, <1>2 DEF Run
<1> QED
  BY <1>1, <1>3 DEF Return, i

LEMMA FailType == ASSUME NEW r \in Run PROVE Fail(r) \in Run
BY ReturnType DEF Fail, Terminal

LEMMA GotoType == ASSUME NEW r \in Run, NEW pc \in Place PROVE Goto(r, pc) \in Run
BY DEF Goto, Run

LEMMA CursorType ==
  ASSUME NEW r \in Run, NEW at \in Nat, NEW d \in Seq(Message)
  PROVE  [r EXCEPT !.at = at, !.delta = d] \in Run
BY Zenon DEF Run

LEMMA SetOutType ==
  ASSUME NEW r \in Run, NEW c \in Calls, NEW o \in Outcome
  PROVE  SetOut(r, c, o) \in Run
BY Zenon DEF SetOut, Run

LEMMA PlanBatchType ==
  ASSUME NEW ex \in Execution, NEW T \in SUBSET Calls, NEW iter \in Nat, NEW at \in Nat
  PROVE  PlanBatch(ex, T, iter, at) \in Execution
BY DEF PlanBatch, Execution, Phase, CallStatus, Decision

LEMMA MarkReadyType ==
  ASSUME NEW ex \in Execution, NEW at \in Nat
  PROVE  MarkReady(ex, at) \in Execution
BY DEF MarkReady, Execution, CallStatus

LEMMA SetStatusType ==
  ASSUME NEW ex \in Execution, NEW c \in Calls, NEW s \in CallStatus
  PROVE  SetStatus(ex, c, s) \in Execution
BY DEF SetStatus, Execution

LEMMA CompleteCallsType ==
  ASSUME NEW ex \in Execution, NEW T, NEW at \in Nat
  PROVE  CompleteCalls(ex, T, at) \in Execution
BY Zenon, NoExecutionType DEF CompleteCalls, Execution, Phase, CallStatus, Decision

LEMMA ResolveCallType ==
  ASSUME NEW ex \in Execution, NEW c, NEW at \in Nat
  PROVE  ResolveCall(ex, c, at) \in Execution
BY SMTT(30), CompleteCallsType DEF ResolveCall, Execution

LEMMA RecordDecisionsType ==
  ASSUME NEW ex \in Execution, NEW T, NEW d \in [Calls -> Decision]
  PROVE  RecordDecisions(ex, T, d) \in Execution
BY DEF RecordDecisions, Execution

LEMMA RecordPauseType ==
  ASSUME NEW ex \in Execution, NEW p \in Pause, NEW at \in Nat, NEW iter \in Nat
  PROVE  RecordPause(ex, p, at, iter) \in Execution
BY Zenon, NoExecutionType DEF RecordPause, Execution, NoExecution, Status, Phase

LEMMA ProjectPauseType == ASSUME NEW ex \in Execution PROVE ProjectPause(ex) \in Execution
BY Zenon, NoExecutionType DEF ProjectPause, Execution, NoExecution, Status, Phase

LEMMA ClaimResumeType == ASSUME NEW ex \in Execution PROVE ClaimResume(ex) \in Execution
BY Zenon, NoExecutionType DEF ClaimResume, Execution, NoExecution, Status, Phase

LEMMA FinalizeType ==
  ASSUME NEW ex \in Execution, NEW s \in Terminal, NEW at \in Nat, NEW iter \in Nat
  PROVE  Finalize(ex, s, at, iter) \in Execution
BY Zenon, NoExecutionType DEF Finalize, Execution, NoExecution, Status, Phase

LEMMA AfterBatchType == ASSUME NEW r \in Run PROVE AfterBatch(r) \in Run
BY FailType, GotoType, IdleType DEF AfterBatch, Place

LEMMA StartBatchType == ASSUME NEW r \in Run PROVE StartBatch(r) \in Run
<1> DEFINE out == [c \in Calls |-> IF c \in r.ex.calls /\ r.ex.st[c] # "Completed"
                                   THEN "todo" ELSE "none"]
<1>1. out \in [Calls -> Outcome] /\ "exec" \in Place
  BY DEF Outcome, Place
<1> HIDE DEF out
<1>2. [r EXCEPT !.pc = "exec", !.out = out] \in Run
  BY Zenon, <1>1 DEF Run
<1> QED
  BY <1>2 DEF StartBatch, out

LEMMA MessageType ==
  /\ UserMsg \in Message /\ TextMsg \in Message
  /\ \A T \in SUBSET Calls : UseMsg(T) \in Message
  /\ \A T, B \in SUBSET Calls : ResultMsg(T, B) \in Message
  /\ \A c \in Calls, B \in SUBSET Calls : ResolvedMsg(c, B) \in Message
BY DEF Message, UserMsg, TextMsg, UseMsg, ResultMsg, ResolvedMsg

LEMMA AfterTurnType == ASSUME NEW r \in Run PROVE AfterTurn(r) \in Run
<1> DEFINE d == <<TextMsg>>
<1>1. d \in Seq(Message)
  BY DEF Message, TextMsg
<1>2. "saveTurn" \in Place /\ "plan" \in Place
  BY DEF Place
<1> HIDE DEF d
<1>3. [r EXCEPT !.pc = "saveTurn", !.text = FALSE, !.delta = d] \in Run
  BY Zenon, <1>1, <1>2 DEF Run
<1> QED
  BY <1>2, <1>3, GotoType DEF AfterTurn, d

-----------------------------------------------------------------------------
(* What a store call keeps.                                                *)

LEMMA SetType ==
  ASSUME run \in [Workers -> Run], NEW w \in Workers, NEW r \in Run, Set(w, r)
  PROVE  run' \in [Workers -> Run]
BY DEF Set

LEMMA SaveKeeps ==
  ASSUME TypeOK, NEW w \in Workers, NEW next \in Execution, NEW good \in Run, NEW bad \in Run,
         Save(w, next, good, bad)
  PROVE  exec' \in Execution /\ run' \in [Workers -> Run] /\ faults' \in Nat
<1>1. Stored(next) \in Execution
  BY StoredType
<1>2. [good EXCEPT !.ex = Stored(next)] \in Run
  BY Zenon, <1>1 DEF Run
<1> QED
  BY SMTT(30), <1>1, <1>2, IdleType, BoundAssumption DEF TypeOK, Save, Set

LEMMA SaveType ==
  ASSUME TypeOK, NEW w \in Workers, NEW next \in Execution, NEW good \in Run, NEW bad \in Run,
         Save(w, next, good, bad), UNCHANGED history
  PROVE  TypeOK'
BY SMTT(30), SaveKeeps DEF TypeOK, Save, history

LEMMA SaveConversationType ==
  ASSUME TypeOK, NEW w \in Workers, NEW r \in Run, NEW good \in Run, NEW bad \in Run,
         SaveConversation(w, r, good, bad)
  PROVE  TypeOK'
<1>1. r.delta \in Seq(Message) /\ r.at \in Nat /\ Len(r.delta) \in Nat
  BY DEF Run
<1>2. log \o r.delta \in Seq(Message)
  BY <1>1 DEF TypeOK
<1>3. [good EXCEPT !.at = r.at + Len(r.delta), !.delta = <<>>] \in Run
  <2>1. r.at + Len(r.delta) \in Nat /\ <<>> \in Seq(Message)
    BY <1>1
  <2> QED
    BY Zenon, <2>1, CursorType
<1> DEFINE ok == [good EXCEPT !.at = r.at + Len(r.delta), !.delta = <<>>]
           longer == log \o r.delta
<1>4. log' \in Seq(Message)
  <2>1. log' \in {log, longer}
    BY DEF SaveConversation
  <2> QED
    BY Zenon, <1>2, <2>1 DEF TypeOK
<1>5. run' \in [Workers -> Run]
  <2>1. \E x \in {ok, Idle, bad} : Set(w, x)
    BY DEF SaveConversation
  <2> HIDE DEF ok
  <2> QED
    BY <1>3, <2>1, IdleType DEF TypeOK, Set, ok
<1>6. faults' \in Nat
  BY DEF SaveConversation, TypeOK
<1> QED
  BY <1>4, <1>5, <1>6 DEF TypeOK, SaveConversation, history

LEMMA StepType ==
  ASSUME TypeOK, NEW w \in Workers, NEW r \in Run, Step(w, r)
  PROVE  TypeOK'
BY SetType DEF TypeOK, Step, history

LEMMA ReadFailsType ==
  ASSUME TypeOK, NEW w \in Workers, NEW bad \in Run, ReadFails(w, bad)
  PROVE  TypeOK'
BY SetType DEF TypeOK, ReadFails, history

-----------------------------------------------------------------------------
(* TypeOK, one lemma per group of actions.                                 *)

LEMMA RunFields ==
  ASSUME NEW r \in Run
  PROVE  /\ r.ex \in Execution /\ r.at \in Nat /\ r.iteration \in Nat
         /\ r.delta \in Seq(Message) /\ r.tools \in SUBSET Calls /\ r.done \in SUBSET Calls
         /\ r.out \in [Calls -> Outcome] /\ r.pause \in Pause /\ r.end \in Terminal
         /\ r.answer \in [Calls -> Decision] /\ r.target \in SUBSET (Calls \X BOOLEAN)
BY DEF Run

LEMMA ExecutionFields ==
  ASSUME NEW e \in Execution
  PROVE  /\ e.version \in Nat /\ e.iteration \in Nat /\ e.cursor \in Nat /\ e.useAt \in Nat
         /\ e.pause \in Pause /\ e.pending \in Pause /\ e.calls \in SUBSET Calls
         /\ e.st \in [Calls -> CallStatus] /\ e.approval \in [Calls -> Decision]
         /\ e.claim \in SUBSET (Calls \X BOOLEAN)
BY DEF Execution

LEMMA LogLength == TypeOK => Len(log) \in Nat
BY DEF TypeOK

LEMMA StartTypes ==
  ASSUME TypeOK, NEW w \in Workers, Start(w)
  PROVE  TypeOK'
<1> USE DEF TypeOK
<1> DEFINE i == Idle
<1>i. i \in Run
  BY IdleType
<1>p. \A pc \in {"prepare", "claim", "project", "recover", "retry", "resolution"} : pc \in Place
  BY DEF Place
<1>1. CASE Create(w)
  <2> DEFINE e == [NoExecution EXCEPT !.version = 1]
  <2>1. e \in Execution
    BY Zenon, NoExecutionType DEF Execution
  <2> HIDE DEF e, i
  <2>2. [i EXCEPT !.op = "invoke", !.pc = "prepare", !.held = TRUE, !.ex = e] \in Run
    BY Zenon, <2>1, <1>i, <1>p DEF Run
  <2>3. exec' = e /\ faults' \in Nat /\ ops' \in Nat
    BY <1>1 DEF Create, Begin, e
  <2>4. run' \in [Workers -> Run]
    BY Zenon, <1>1, <2>2, <2>3 DEF Create, Set, i
  <2> QED
    BY <1>1, <2>1, <2>3, <2>4 DEF Create, history
<1>2. CASE LoadPaused(w)
  <2>1. PICK answer \in [exec.pause.calls -> {"allow", "deny"}] :
          Set(w, [Idle EXCEPT !.op = "resume", !.pc = "claim", !.ex = exec,
                              !.pause = exec.pause, !.from = exec.cursor,
                              !.answer = [c \in Calls |-> IF c \in exec.pause.calls
                                                          THEN answer[c] ELSE "none"]])
    BY Zenon, <1>2 DEF LoadPaused
  <2> DEFINE d == [c \in Calls |-> IF c \in exec.pause.calls THEN answer[c] ELSE "none"]
  <2>2. d \in [Calls -> Decision]
    BY DEF Decision
  <2>3. exec.pause \in Pause /\ exec.cursor \in Nat
    BY ExecutionFields
  <2> HIDE DEF d, i
  <2>4. [i EXCEPT !.op = "resume", !.pc = "claim", !.ex = exec, !.pause = exec.pause,
                  !.from = exec.cursor, !.answer = d] \in Run
    BY Zenon, <2>2, <2>3, <1>i, <1>p DEF Run
  <2>5. run' \in [Workers -> Run]
    BY <2>1, <2>4 DEF Set, d, i
  <2> QED
    BY <1>2, <2>5 DEF LoadPaused, Begin, history
<1>3. CASE LoadForRecovery(w)
  <2>1. exec.iteration \in Nat
    BY ExecutionFields
  <2> HIDE DEF i
  <2>2. \A pc \in {"project", "recover"} :
          [i EXCEPT !.op = "recover", !.ex = exec, !.iteration = exec.iteration, !.pc = pc] \in Run
    BY ZenonT(60), <2>1, <1>i, <1>p DEF Run
  <2>3. run' \in [Workers -> Run]
    BY Zenon, <1>3, <2>2 DEF LoadForRecovery, Set, i
  <2> QED
    BY <1>3, <2>3 DEF LoadForRecovery, Begin, history
<1>4. CASE LoadForReconcile(w)
  <2>1. PICK c \in exec.calls, succeeded \in BOOLEAN, pc \in {"retry", "resolution"} :
          Set(w, [Idle EXCEPT !.op = "reconcile", !.pc = pc, !.ex = exec,
                              !.target = {<<c, succeeded>>}])
    BY Zenon, <1>4 DEF LoadForReconcile
  <2> DEFINE t == {<<c, succeeded>>}
  <2>2. t \in SUBSET (Calls \X BOOLEAN)
    BY ExecutionFields
  <2> HIDE DEF t, i
  <2>3. [i EXCEPT !.op = "reconcile", !.pc = pc, !.ex = exec, !.target = t] \in Run
    BY ZenonT(60), <2>2, <1>i, <1>p DEF Run
  <2>4. run' \in [Workers -> Run]
    BY <2>1, <2>3 DEF Set, t, i
  <2> QED
    BY <1>4, <2>4 DEF LoadForReconcile, Begin, history
<1> QED
  BY <1>1, <1>2, <1>3, <1>4 DEF Start

LEMMA InvokeTypes ==
  ASSUME TypeOK, NEW w \in Workers, InvokeStep(w)
  PROVE  TypeOK'
<1> DEFINE r == run[w]
<1>r. r \in Run
  BY DEF TypeOK
<1>f. /\ r.ex \in Execution /\ r.at \in Nat /\ r.iteration \in Nat /\ r.delta \in Seq(Message)
      /\ r.tools \in SUBSET Calls /\ r.end \in Terminal
  BY <1>r, RunFields
<1>l. Len(log) \in Nat
  BY LogLength
<1>b. Fail(r) \in Run
  BY <1>r, FailType
<1>p. \A pc \in {"startCursor", "model", "progress", "answer", "plan", "planSave", "appendUse",
                 "markReady", "inspect", "dispatch"} : pc \in Place
  BY DEF Place
<1> HIDE DEF r
<1>1. CASE PrepareTurn(w)
  <2>1. [r EXCEPT !.pc = "startCursor", !.at = Len(log)] \in Run
    BY Zenon, <1>r, <1>l, <1>p DEF Run
  <2> QED
    BY <1>1, <1>b, <2>1, StepType DEF PrepareTurn, r
<1>2. CASE PersistStartCursor(w)
  <2> DEFINE d == <<UserMsg>>
  <2>1. [r.ex EXCEPT !.start = r.at] \in Execution
    BY Zenon, <1>f DEF Execution
  <2>2. d \in Seq(Message)
    BY DEF UserMsg, Message
  <2> HIDE DEF d
  <2>3. [r EXCEPT !.pc = "model", !.delta = d] \in Run
    BY Zenon, <1>r, <1>p, <2>2 DEF Run
  <2> QED
    BY <1>2, <1>b, <2>1, <2>3, SaveType DEF PersistStartCursor, r, d
<1>3. CASE ModelCall(w)
  <2> DEFINE next == [r EXCEPT !.pc = "progress", !.iteration = @ + 1]
  <2>1. next \in Run
    <3> DEFINE n == r.iteration + 1
    <3>1. n \in Nat
      BY <1>f
    <3> HIDE DEF n
    <3>2. [r EXCEPT !.pc = "progress", !.iteration = n] \in Run
      BY Zenon, <1>r, <1>p, <3>1 DEF Run
    <3> QED
      BY <3>2 DEF n
  <2> HIDE DEF next
  <2>2. Fail(next) \in Run
    BY <2>1, FailType
  <2>3. \A T \in SUBSET Calls, text \in TextChoices : [next EXCEPT !.tools = T, !.text = text] \in Run
    BY Zenon, <2>1, BoundAssumption DEF Run
  <2>4. \/ Step(w, Fail(r)) \/ Step(w, Fail(next))
        \/ \E T \in SUBSET Calls, text \in TextChoices :
             Step(w, [next EXCEPT !.tools = T, !.text = text])
    BY <1>3, Zenon DEF ModelCall, r, next
  <2> QED
    BY Zenon, <1>b, <2>2, <2>3, <2>4, StepType
<1>4. CASE PersistProgress(w)
  <2> DEFINE next == [r.ex EXCEPT !.iteration = r.iteration]
  <2>1. next \in Execution
    BY Zenon, <1>f DEF Execution
  <2> HIDE DEF next
  <2>2. Stored(next) \in Execution
    BY <2>1, StoredType
  <2>3. [r EXCEPT !.ex = Stored(next)] \in Run
    BY <1>r, <2>2 DEF Run
  <2>4. /\ Fail([r EXCEPT !.ex = Stored(next)]) \in Run
        /\ Goto(r, "answer") \in Run /\ AfterTurn(r) \in Run
    BY Zenon, <1>r, <1>p, <2>3, FailType, GotoType, AfterTurnType
  <2>5. \E good \in Run : Save(w, next, good, Fail(r))
    BY <1>4, <2>4 DEF PersistProgress, r, next
  <2> QED
    BY <1>4, <1>b, <2>1, <2>5, SaveType DEF PersistProgress
<1>5. CASE SaveTurn(w)
  <2> DEFINE d == <<>>
  <2>1. d \in Seq(Message)
    OBVIOUS
  <2> HIDE DEF d
  <2>2. [r EXCEPT !.delta = d] \in Run
    BY Zenon, <1>r, <2>1 DEF Run
  <2> QED
    BY <1>5, <1>r, <1>b, <2>2, AfterTurnType, SaveConversationType DEF SaveTurn, r, d
<1>6. CASE Answer(w)
  <2> DEFINE d == IF r.text THEN Append(r.delta, TextMsg) ELSE r.delta
  <2>1. d \in Seq(Message)
    <3>1. TextMsg \in Message
      BY MessageType
    <3> QED
      BY <1>f, <3>1
  <2> HIDE DEF d
  <2>2. [r EXCEPT !.delta = d] \in Run
    BY Zenon, <1>r, <2>1 DEF Run
  <2>3. Return(r, "Completed") \in Run
    BY <1>r, ReturnType DEF Terminal
  <2>4. \/ Step(w, Fail(r))
        \/ SaveConversation(w, [r EXCEPT !.delta = d], Return(r, "Completed"), Fail(r))
    BY <1>6 DEF Answer, r, d
  <2> QED
    BY <1>b, <2>2, <2>3, <2>4, StepType, SaveConversationType
<1>7. CASE PriorToolUses(w)
  <2>1. Goto(r, "planSave") \in Run
    BY <1>r, <1>p, GotoType
  <2>2. \E x \in Run : Step(w, x) \/ ReadFails(w, x)
    BY <1>7, <1>b, <2>1 DEF PriorToolUses, r
  <2> QED
    BY <2>2, StepType, ReadFailsType
<1>8. CASE PlanToolBatch(w)
  <2> DEFINE d == <<UseMsg(r.tools)>>
  <2>1. PlanBatch(r.ex, r.tools, r.iteration, r.at) \in Execution
    BY <1>f, PlanBatchType
  <2>2. d \in Seq(Message)
    BY <1>f DEF UseMsg, Message
  <2> HIDE DEF d
  <2>3. [r EXCEPT !.pc = "appendUse", !.delta = d] \in Run
    BY Zenon, <1>r, <1>p, <2>2 DEF Run
  <2> QED
    BY <1>8, <1>b, <2>1, <2>3, SaveType DEF PlanToolBatch, r, d
<1>9. CASE AppendToolUse(w)
  <2>1. Goto(r, "markReady") \in Run
    BY <1>r, <1>p, GotoType
  <2> QED
    BY <1>9, <1>r, <1>b, <2>1, SaveConversationType DEF AppendToolUse, r
<1>10. CASE MarkToolBatchReady(w)
  <2>1. MarkReady(r.ex, r.at) \in Execution
    BY <1>f, MarkReadyType
  <2>2. Goto(r, "inspect") \in Run /\ Goto(r, "dispatch") \in Run
    BY <1>r, <1>p, GotoType
  <2>3. Goto(r, IF r.op = "recover" THEN "inspect" ELSE "dispatch") \in Run
    BY <2>2
  <2> QED
    BY <1>10, <1>b, <2>1, <2>3, SaveType DEF MarkToolBatchReady, r
<1>11. CASE FinalizeExecution(w)
  <2>1. Finalize(r.ex, r.end, r.at, r.iteration) \in Execution
    BY <1>f, FinalizeType
  <2> QED
    BY <1>11, <2>1, IdleType, SaveType DEF FinalizeExecution, r
<1> QED
  BY <1>1, <1>2, <1>3, <1>4, <1>5, <1>6, <1>7, <1>8, <1>9, <1>10, <1>11 DEF InvokeStep

LEMMA BatchTypes ==
  ASSUME TypeOK, NEW w \in Workers, BatchStep(w)
  PROVE  TypeOK'
<1> DEFINE r == run[w]
<1>r. r \in Run
  BY DEF TypeOK
<1>f. /\ r.ex \in Execution /\ r.at \in Nat /\ r.iteration \in Nat /\ r.delta \in Seq(Message)
      /\ r.done \in SUBSET Calls /\ r.out \in [Calls -> Outcome] /\ r.pause \in Pause
  BY <1>r, RunFields
<1>b. Fail(r) \in Run
  BY <1>r, FailType
<1>p. \A pc \in {"exec", "commit", "pendingPause", "acknowledge"} : pc \in Place
  BY DEF Place
<1>o. \A c \in Calls, o \in {"claimed", "ok", "err", "human", "pending", "unknown", "coordination"} :
        SetOut(r, c, o) \in Run
  BY Zenon, <1>r, SetOutType DEF Outcome
<1> HIDE DEF r
<1>1. CASE Dispatch(w)
  <2> DEFINE found == ResultsIn(ActiveSuffix(Canonical(r), r.ex))
             next == CompleteCalls(r.ex, found, r.at)
             rest == [r EXCEPT !.ex = next]
  <2>1. next \in Execution
    BY <1>f, CompleteCallsType
  <2> HIDE DEF next
  <2>2. rest \in Run
    BY <1>r, <2>1 DEF Run
  <2> HIDE DEF found, rest
  <2>3. AfterBatch(rest) \in Run /\ StartBatch(rest) \in Run /\ StartBatch(r) \in Run
    BY <1>r, <2>2, AfterBatchType, StartBatchType
  <2>4. \/ Step(w, Fail(r)) \/ Step(w, StartBatch(r))
        \/ /\ Save(w, next, IF next.calls = {} THEN AfterBatch(rest) ELSE StartBatch(rest), Fail(r))
           /\ UNCHANGED history
    BY <1>1 DEF Dispatch, r, found, next, rest
  <2>5. (IF next.calls = {} THEN AfterBatch(rest) ELSE StartBatch(rest)) \in Run
    BY <2>3
  <2> QED
    BY <1>b, <2>1, <2>3, <2>4, <2>5, StepType, SaveType
<1>2. CASE Collect(w)
  <2> DEFINE Having(O) == {c \in Calls : r.out[c] \in O}
             human == Having({"human"}) # {}
             bad == Having({"err"}) \cup (IF human THEN Having({"pending"}) ELSE {})
             done == Having({"ok", "human"}) \cup bad
             pend == Having({"pending"})
             msgs == IF done = {} THEN r.delta ELSE Append(r.delta, ResultMsg(done, bad))
             out == Idle.out
             next == [r EXCEPT !.out = out, !.done = done, !.delta = msgs]
  <2>1. done \in SUBSET Calls /\ bad \in SUBSET Calls /\ pend \in SUBSET Calls
    OBVIOUS
  <2>2. out \in [Calls -> Outcome]
    BY IdleType, RunFields
  <2> HIDE DEF done, bad, pend, out
  <2>3. msgs \in Seq(Message)
    <3>1. ResultMsg(done, bad) \in Message
      BY <2>1, MessageType
    <3> QED
      BY <1>f, <3>1
  <2> HIDE DEF msgs
  <2>4. next \in Run
    BY Zenon, <1>r, <2>1, <2>2, <2>3 DEF Run
  <2> HIDE DEF next
  <2>5. [next EXCEPT !.pc = "commit", !.failed = TRUE] \in Run /\ Goto(next, "commit") \in Run
    BY ZenonT(60), <1>p, <2>4, GotoType DEF Run
  <2>6. \A k \in {"human", "approval"} : \A T \in {{}, pend} :
          [next EXCEPT !.pc = "pendingPause", !.pause = [kind |-> k, calls |-> T]] \in Run
    <3>1. \A k \in {"human", "approval"} : \A T \in {{}, pend} : [kind |-> k, calls |-> T] \in Pause
      BY <2>1 DEF Pause
    <3>2. \A q \in Pause : [next EXCEPT !.pc = "pendingPause", !.pause = q] \in Run
      BY Zenon, <1>p, <2>4 DEF Run
    <3> QED
      BY Zenon, <3>1, <3>2
  <2>7. \/ Step(w, Fail(r)) \/ Step(w, [next EXCEPT !.pc = "commit", !.failed = TRUE])
        \/ Step(w, [next EXCEPT !.pc = "pendingPause", !.pause = [kind |-> "human", calls |-> {}]])
        \/ Step(w, [next EXCEPT !.pc = "pendingPause", !.pause = [kind |-> "approval", calls |-> pend]])
        \/ Step(w, Goto(next, "commit"))
    BY Zenon, <1>2 DEF Collect, r, next, msgs, out, done, bad, pend
  <2> QED
    BY <1>b, <2>5, <2>6, <2>7, StepType
<1>3. CASE PersistPendingPause(w)
  <2>1. [r.ex EXCEPT !.pending = r.pause, !.iteration = r.iteration] \in Execution
    BY Zenon, <1>f DEF Execution
  <2>2. (IF r.done = {} THEN AfterBatch(r) ELSE Goto(r, "commit")) \in Run
    BY <1>r, <1>p, AfterBatchType, GotoType
  <2> QED
    BY <1>3, <1>b, <2>1, <2>2, SaveType DEF PersistPendingPause, r
<1>4. CASE CommitResults(w)
  <2>1. Goto(r, "acknowledge") \in Run
    BY <1>r, <1>p, GotoType
  <2> QED
    BY <1>4, <1>r, <1>b, <2>1, SaveConversationType DEF CommitResults, r
<1>5. CASE AcknowledgeResults(w)
  <2> DEFINE next == CompleteCalls(r.ex, r.done, r.at)
             rest == [r EXCEPT !.ex = next, !.done = {}]
  <2>1. next \in Execution
    BY <1>f, CompleteCallsType
  <2> HIDE DEF next
  <2>2. rest \in Run
    BY Zenon, <1>r, <2>1 DEF Run
  <2> HIDE DEF rest
  <2>3. AfterBatch(rest) \in Run
    BY <2>2, AfterBatchType
  <2> QED
    BY <1>5, <1>b, <2>1, <2>3, SaveType DEF AcknowledgeResults, r, next, rest
<1>6. CASE PauseExecution(w)
  <2>1. RecordPause(r.ex, r.pause, r.at, r.iteration) \in Execution
    BY <1>f, RecordPauseType
  <2> QED
    BY <1>6, <1>b, <2>1, IdleType, StepType, SaveType DEF PauseExecution, r
<1>7. ASSUME NEW c \in Calls, RejectCall(w, c) \/ ApprovalGate(w, c)
      PROVE  TypeOK'
  BY <1>7, <1>o, StepType DEF RejectCall, ApprovalGate, r
<1>8. ASSUME NEW c \in Calls, BeginToolExecution(w, c)
      PROVE  TypeOK'
  <2>1. SetStatus(r.ex, c, "InFlight") \in Execution
    BY <1>f, SetStatusType DEF CallStatus
  <2>2. \/ /\ Save(w, SetStatus(r.ex, c, "InFlight"), SetOut(r, c, "claimed"),
                   SetOut(r, c, "coordination"))
           /\ UNCHANGED history
        \/ Step(w, SetOut(r, c, "unknown")) \/ Step(w, SetOut(r, c, "coordination"))
    BY <1>8 DEF BeginToolExecution, r
  <2> QED
    BY <1>o, <2>1, <2>2, StepType, SaveType
<1>9. ASSUME NEW c \in Calls, RunHandler(w, c)
      PROVE  TypeOK'
  <2>1. run' \in [Workers -> Run]
    BY <1>9, <1>o, SetType DEF RunHandler, r, TypeOK
  <2>2. started' \in [Calls -> Nat]
    BY <1>9 DEF RunHandler, TypeOK
  <2> QED
    BY <1>9, <2>1, <2>2 DEF RunHandler, TypeOK
<1> QED
  BY <1>1, <1>2, <1>3, <1>4, <1>5, <1>6, <1>7, <1>8, <1>9 DEF BatchStep

LEMMA ResumeTypes ==
  ASSUME TypeOK, NEW w \in Workers, ResumeStep(w)
  PROVE  TypeOK'
<1> DEFINE r == run[w]
<1>r. r \in Run
  BY DEF TypeOK
<1>f. r.ex \in Execution /\ r.pause \in Pause /\ r.answer \in [Calls -> Decision]
  BY <1>r, RunFields
<1>l. Len(log) \in Nat
  BY LogLength
<1>b. Fail(r) \in Run
  BY <1>r, FailType
<1>n. NoPause \in Pause
  BY DEF NoPause, Pause
<1>p. \A pc \in {"reload", "rejoin", "model", "decide", "dispatch"} : pc \in Place
  BY DEF Place
<1> HIDE DEF r
<1>1. CASE ClaimPause(w)
  <2>1. ClaimResume(r.ex) \in Execution
    BY <1>f, ClaimResumeType
  <2>2. Goto(r, "reload") \in Run
    BY <1>r, <1>p, GotoType
  <2>3. exec' \in Execution /\ run' \in [Workers -> Run] /\ faults' \in Nat
    BY <1>1, <2>1, <2>2, IdleType, SaveKeeps DEF ClaimPause, r
  <2>4. granted' \subseteq Calls
    BY <1>1 DEF ClaimPause, TypeOK
  <2> QED
    BY <1>1, <2>3, <2>4 DEF ClaimPause, Save, TypeOK
<1>2. CASE ReloadClaimed(w)
  <2>1. exec \in Execution /\ exec.iteration \in Nat
    BY ExecutionFields DEF TypeOK
  <2>2. [r EXCEPT !.pc = "rejoin", !.held = TRUE, !.ex = exec, !.iteration = exec.iteration] \in Run
    BY Zenon, <1>r, <1>p, <2>1 DEF Run
  <2> QED
    BY <1>2, <2>2, IdleType, StepType, ReadFailsType DEF ReloadClaimed, r
<1>3. CASE Rejoin(w)
  <2> DEFINE next == [r EXCEPT !.at = Len(log)]
             d == <<UserMsg>>
  <2>1. next \in Run
    BY Zenon, <1>r, <1>l DEF Run
  <2>2. d \in Seq(Message)
    BY DEF UserMsg, Message
  <2> HIDE DEF next, d
  <2>3. [next EXCEPT !.pc = "model", !.delta = d, !.pause = NoPause] \in Run
    BY Zenon, <1>n, <1>p, <2>1, <2>2 DEF Run
  <2>4. Fail(next) \in Run /\ Goto(next, "decide") \in Run
    BY <1>p, <2>1, FailType, GotoType
  <2>5. \/ Step(w, Fail(r)) \/ Step(w, Fail(next)) \/ Step(w, Goto(next, "decide"))
        \/ Step(w, [next EXCEPT !.pc = "model", !.delta = d, !.pause = NoPause])
    BY <1>3 DEF Rejoin, r, next, d
  <2> QED
    BY <1>b, <2>3, <2>4, <2>5, StepType
<1>4. CASE Decide(w)
  <2> DEFINE clean == [r EXCEPT !.pause = NoPause]
  <2>1. clean \in Run
    BY <1>r, <1>n DEF Run
  <2> HIDE DEF clean
  <2>2. Fail(clean) \in Run /\ Goto(clean, "dispatch") \in Run
    BY <1>p, <2>1, FailType, GotoType
  <2>3. RecordDecisions(r.ex, r.pause.calls, r.answer) \in Execution
    BY <1>f, RecordDecisionsType
  <2>4. \/ Step(w, Fail(clean))
        \/ /\ Save(w, RecordDecisions(r.ex, r.pause.calls, r.answer),
                   Goto(clean, "dispatch"), Fail(clean))
           /\ UNCHANGED history
    BY <1>4 DEF Decide, r, clean
  <2> QED
    BY <2>2, <2>3, <2>4, StepType, SaveType
<1> QED
  BY <1>1, <1>2, <1>3, <1>4 DEF ResumeStep

LEMMA RecoverTypes ==
  ASSUME TypeOK, NEW w \in Workers, RecoverStep(w)
  PROVE  TypeOK'
<1> DEFINE r == run[w]
<1>r. r \in Run
  BY DEF TypeOK
<1>f. r.ex \in Execution /\ r.at \in Nat
  BY <1>r, RunFields
<1>p. \A pc \in {"inspect", "appendUse", "markReady", "resolve", "dispatch"} : pc \in Place
  BY DEF Place
<1> HIDE DEF r
<1>1. CASE ProjectPendingPause(w)
  BY <1>1, <1>f, ProjectPauseType, IdleType, SaveType DEF ProjectPendingPause, r
<1>2. CASE LoadBoundary(w)
  <2> DEFINE q == [r EXCEPT !.at = Len(log), !.held = TRUE]
             d == <<UseMsg(q.ex.calls)>>
  <2>1. q \in Run
    BY Zenon, <1>r, LogLength DEF Run
  <2> HIDE DEF q
  <2>2. d \in Seq(Message)
    <3>1. q.ex.calls \in SUBSET Calls
      BY <2>1, RunFields, ExecutionFields
    <3> QED
      BY <3>1, MessageType
  <2> HIDE DEF d
  <2>3. [q EXCEPT !.pc = "appendUse", !.delta = d] \in Run
    BY Zenon, <1>p, <2>1, <2>2 DEF Run
  <2>4. Goto(q, "inspect") \in Run /\ Goto(q, "markReady") \in Run
    BY <1>p, <2>1, GotoType
  <2>5. \/ Step(w, Goto(q, "inspect")) \/ Step(w, Goto(q, "markReady")) \/ Step(w, Idle)
        \/ Step(w, [q EXCEPT !.pc = "appendUse", !.delta = d]) \/ ReadFails(w, Idle)
    BY <1>2 DEF LoadBoundary, r, q, d
  <2> QED
    BY <2>3, <2>4, <2>5, IdleType, StepType, ReadFailsType
<1>3. CASE Inspect(w)
  <2> DEFINE next == CompleteCalls(r.ex, ResultsIn(Boundary(r)), r.at)
             rest == [r EXCEPT !.ex = next]
  <2>1. next \in Execution
    BY <1>f, CompleteCallsType
  <2> HIDE DEF next
  <2>2. rest \in Run
    BY <1>r, <2>1 DEF Run
  <2> HIDE DEF rest
  <2>3. Goto(r, "resolve") \in Run /\ CheckUncertain(r) \in Run /\ CheckUncertain(rest) \in Run
    BY <1>r, <1>p, <2>2, GotoType, IdleType DEF CheckUncertain
  <2>4. (IF next.calls = {} THEN Idle ELSE CheckUncertain(rest)) \in Run
    BY <2>3, IdleType
  <2>5. \/ Step(w, Goto(r, "resolve")) \/ Step(w, Idle) \/ Step(w, CheckUncertain(r))
        \/ /\ Save(w, next, IF next.calls = {} THEN Idle ELSE CheckUncertain(rest), Idle)
           /\ UNCHANGED history
    BY <1>3 DEF Inspect, r, next, rest
  <2> QED
    BY <2>1, <2>3, <2>4, <2>5, IdleType, StepType, SaveType
<1> QED
  BY <1>1, <1>2, <1>3 DEF RecoverStep

LEMMA ReconcileTypes ==
  ASSUME TypeOK, NEW w \in Workers, ReconcileStep(w)
  PROVE  TypeOK'
<1> DEFINE r == run[w]
<1>r. r \in Run
  BY DEF TypeOK
<1>f. r.ex \in Execution /\ r.at \in Nat /\ r.target \in SUBSET (Calls \X BOOLEAN)
  BY <1>r, RunFields
<1>p. \A pc \in {"loadResolution", "resolve", "resolved", "inspect"} : pc \in Place
  BY DEF Place
<1> HIDE DEF r
<1>1. CASE RetryCall(w)
  <2>1. PICK t \in r.target :
          /\ Save(w, SetStatus(r.ex, t[1], "Ready"), Idle, Idle)
          /\ retries' = IF exec' = exec THEN retries ELSE [retries EXCEPT ![t[1]] = @ + 1]
    BY <1>1 DEF RetryCall, r
  <2> DEFINE next == SetStatus(r.ex, t[1], "Ready")
  <2>2. next \in Execution
    BY <1>f, SetStatusType DEF CallStatus
  <2>3. exec' \in Execution /\ run' \in [Workers -> Run] /\ faults' \in Nat
    BY <2>1, <2>2, IdleType, SaveKeeps
  <2>4. retries' \in [Calls -> Nat]
    BY <2>1, <1>f DEF TypeOK
  <2> QED
    BY <1>1, <2>1, <2>3, <2>4 DEF RetryCall, Save, TypeOK
<1>2. CASE ClaimResolution(w)
  <2>1. [r.ex EXCEPT !.claim = r.target] \in Execution
    BY <1>f DEF Execution
  <2> QED
    BY SMTT(30), <1>2, <1>r, <1>p, <2>1, GotoType, IdleType, SaveType DEF ClaimResolution, r
<1>3. CASE LoadResolution(w)
  <2>1. [r EXCEPT !.pc = "resolve", !.at = Len(log)] \in Run
    BY Zenon, <1>r, <1>p, LogLength DEF Run
  <2> QED
    BY <1>3, <2>1, IdleType, StepType, ReadFailsType DEF LoadResolution, r
<1>4. CASE Resolve(w)
  <2>1. PICK t \in r.ex.claim : ResolveClaim(w, r, t[1], IF t[2] THEN {} ELSE {t[1]})
    BY Zenon, <1>4 DEF Resolve, r
  <2> DEFINE bad == IF t[2] THEN {} ELSE {t[1]}
             d == <<ResolvedMsg(t[1], bad)>>
  <2>2. t[1] \in Calls /\ bad \in SUBSET Calls
    <3>1. r.ex.claim \in SUBSET (Calls \X BOOLEAN)
      BY <1>f, ExecutionFields
    <3>2. t[1] \in Calls
      BY <3>1
    <3> QED
      BY <3>2
  <2> HIDE DEF bad
  <2>3. d \in Seq(Message)
    <3>1. ResolvedMsg(t[1], bad) \in Message
      BY <2>2, MessageType
    <3> QED
      BY <3>1
  <2> HIDE DEF d
  <2>4. [r EXCEPT !.delta = d] \in Run
    BY SMTT(30), <1>r, <2>3 DEF Run
  <2>5. \/ Step(w, Idle) \/ Step(w, Goto(r, "resolved"))
        \/ SaveConversation(w, [r EXCEPT !.delta = d], Goto(r, "resolved"), Idle)
    BY <2>1 DEF ResolveClaim, d, bad
  <2>6. Goto(r, "resolved") \in Run
    BY <1>r, <1>p, GotoType
  <2> QED
    BY <2>4, <2>5, <2>6, IdleType, StepType, SaveConversationType
<1>5. CASE AcknowledgeResolution(w)
  <2>1. PICK t \in r.ex.claim :
          LET next == ResolveCall(r.ex, t[1], r.at)
          IN Save(w, next, IF r.op = "reconcile" \/ next.calls = {} THEN Idle
                           ELSE Goto(r, "inspect"), Idle)
    BY SMTT(30), <1>5 DEF AcknowledgeResolution, r
  <2> DEFINE next == ResolveCall(r.ex, t[1], r.at)
  <2>2. next \in Execution
    BY <1>f, ResolveCallType
  <2>3. (IF r.op = "reconcile" \/ next.calls = {} THEN Idle ELSE Goto(r, "inspect")) \in Run
    BY <1>r, <1>p, GotoType, IdleType
  <2> QED
    BY <1>5, <2>1, <2>2, <2>3, IdleType, SaveType DEF AcknowledgeResolution
<1> QED
  BY <1>1, <1>2, <1>3, <1>4, <1>5 DEF ReconcileStep

LEMMA CrashTypes ==
  ASSUME TypeOK, NEW p, Crash(p)
  PROVE  TypeOK'
BY IdleType DEF TypeOK, Crash, history

LEMMA ForeignTypes == TypeOK /\ ForeignAppend => TypeOK'
<1> SUFFICES ASSUME TypeOK, ForeignAppend PROVE TypeOK'
  OBVIOUS
<1>1. log' \in Seq(Message)
  BY MessageType DEF TypeOK, ForeignAppend
<1> QED
  BY <1>1 DEF TypeOK, ForeignAppend, history

LEMMA TypeStep == TypeOK /\ [Next]_vars => TypeOK'
<1> SUFFICES ASSUME TypeOK, [Next]_vars PROVE TypeOK'
  OBVIOUS
<1>1. CASE UNCHANGED vars
  BY <1>1 DEF vars, TypeOK
<1>2. ASSUME NEW w \in Workers, Start(w) \/ Work(w) PROVE TypeOK'
  BY <1>2, StartTypes, InvokeTypes, BatchTypes, ResumeTypes, RecoverTypes, ReconcileTypes DEF Work
<1> QED
  BY <1>1, <1>2, CrashTypes, ForeignTypes DEF Next

(* Every value the engine stores, sends or keeps in a run has the shape    *)
(* its Go type declares, whatever the tools, workers, crashes and bounds.  *)
THEOREM TypeSafety == Spec => []TypeOK
<1>1. Init => TypeOK
  BY NoExecutionType, IdleType DEF Init, TypeOK
<1> QED
  BY <1>1, TypeStep, PTL DEF Spec
=============================================================================
