----------------------- MODULE DurableExecutionSafety -----------------------
(***************************************************************************)
(* CopiesAreFenced, TerminalLeavesNoBatch and ApprovedBeforeStart hold of  *)
(* DurableExecution.  WorkShape bounds what any step of a worker does to   *)
(* the record and to the worker; each property then has its own inductive  *)
(* invariant.                                                              *)
(***************************************************************************)
EXTENDS DurableExecutionTypes

-----------------------------------------------------------------------------
(* What one step of a worker may do, whichever action it is.               *)

Resuming == {"reload", "rejoin", "decide"}

(* n may be stored by a worker in run state r.                             *)
Edits(r, n) ==
  /\ n.version = r.ex.version + 1
  /\ n.status \in Terminal => \/ r.ex.status \in Terminal
                              \/ r.pc = "finalize" /\ n.calls = r.ex.calls
  /\ \A c \in Calls : n.approval[c] = "allow" =>
       r.ex.approval[c] = "allow" \/ (r.pc = "decide" /\ r.answer[c] = "allow")

(* A worker in run state r may continue in run state q.                    *)
Moves(r, q) ==
  /\ q.pc # "claim"
  /\ q.pc = "finalize" => q.ex.calls = {}
  /\ q.pc \in Resuming => r.pc \in Resuming \cup {"claim"} /\ q.answer = r.answer
  /\ \A c \in Calls : q.out[c] = "claimed" => r.out[c] = "claimed" \/ Allowed(r, c)

(* The step changes no record, or stores an edit of the current one.       *)
Shape(w) ==
  \E q \in Run :
    /\ run' = [run EXCEPT ![w] = q]
    /\ Moves(run[w], q)
    /\ \/ exec' = exec /\ q.ex \in {run[w].ex, exec, NoExecution}
       \/ /\ exec.version = run[w].ex.version
          /\ Edits(run[w], exec')
          /\ q.ex \in {run[w].ex, exec', NoExecution}

LEMMA IdleFields == /\ Idle.pc = "idle" /\ Idle.op = "idle" /\ Idle.ex = NoExecution
                    /\ \A c \in Calls : Idle.out[c] = "none"
BY DEF Idle

LEMMA ReturnFields ==
  ASSUME NEW x \in Run, NEW s \in Terminal
  PROVE  /\ Return(x, s).ex \in {x.ex, NoExecution}
         /\ Return(x, s).pc \in {"idle", "finalize"}
         /\ Return(x, s).pc = "finalize" => Return(x, s).ex = x.ex /\ x.ex.calls = {}
         /\ \A c \in Calls : Return(x, s).out[c] = "none"
BY IdleFields DEF Return, Idle

LEMMA QuietMove ==
  ASSUME NEW r \in Run, NEW q \in Run, q.pc \notin Resuming \cup {"claim", "finalize"},
         \A c \in Calls : q.out[c] = "claimed" => r.out[c] = "claimed"
  PROVE  Moves(r, q)
BY DEF Moves

LEMMA ReturnMove ==
  ASSUME NEW r \in Run, NEW x \in Run, NEW s \in Terminal
  PROVE  Moves(r, Return(x, s))
BY ReturnFields DEF Moves, Resuming

LEMMA IdleMove == ASSUME NEW r PROVE Moves(r, Idle)
BY IdleFields DEF Moves, Resuming

LEMMA SaveShape ==
  ASSUME TypeOK, NEW w \in Workers, NEW next \in Execution, NEW good \in Run, NEW bad \in Run,
         next.version = run[w].ex.version, Edits(run[w], Stored(next)),
         Moves(run[w], [good EXCEPT !.ex = Stored(next)]),
         Moves(run[w], bad), bad.ex \in {run[w].ex, NoExecution},
         Save(w, next, good, bad)
  PROVE  Shape(w)
<1> DEFINE n == Stored(next)
           ok == [good EXCEPT !.ex = n]
<1>1. n \in Execution
  BY StoredType
<1> HIDE DEF n
<1>2. ok \in Run /\ ok.ex = n
  BY Zenon, <1>1 DEF Run
<1> HIDE DEF ok
<1>3. Moves(run[w], ok) /\ Moves(run[w], Idle) /\ Idle \in Run /\ Idle.ex = NoExecution
  BY IdleMove, IdleType, IdleFields DEF ok, n
<1>4. \E q \in {ok, Idle, bad} :
        /\ run' = [run EXCEPT ![w] = q]
        /\ \/ exec' = exec /\ q = bad
           \/ exec.version = next.version /\ exec' = n
  BY DEF Save, Set, ok, n
<1> QED
  BY Zenon, <1>2, <1>3, <1>4 DEF Shape, n

LEMMA SaveConversationShape ==
  ASSUME TypeOK, NEW w \in Workers, NEW r \in Run, NEW good \in Run, NEW bad \in Run,
         Moves(run[w], good), good.ex \in {run[w].ex, NoExecution},
         Moves(run[w], bad), bad.ex \in {run[w].ex, NoExecution},
         SaveConversation(w, r, good, bad)
  PROVE  Shape(w)
<1> DEFINE at == r.at + Len(r.delta)
           d == <<>>
           ok == [good EXCEPT !.at = at, !.delta = d]
<1>1. at \in Nat /\ d \in Seq(Message)
  BY RunFields
<1> HIDE DEF at, d
<1>2. ok \in Run /\ ok.ex = good.ex /\ ok.pc = good.pc /\ ok.out = good.out /\ ok.answer = good.answer
  BY ZenonT(60), <1>1 DEF Run
<1> HIDE DEF ok
<1>3. Moves(run[w], ok) /\ Moves(run[w], Idle) /\ Idle \in Run /\ Idle.ex = NoExecution
  BY <1>2, IdleMove, IdleType, IdleFields DEF Moves
<1>4. exec' = exec /\ \E q \in {ok, Idle, bad} : run' = [run EXCEPT ![w] = q]
  BY DEF SaveConversation, Set, ok, at, d
<1> QED
  BY Zenon, <1>2, <1>3, <1>4 DEF Shape

LEMMA StepShape ==
  ASSUME NEW w \in Workers, NEW q \in Run, Moves(run[w], q),
         q.ex \in {run[w].ex, exec, NoExecution}, Step(w, q) \/ ReadFails(w, q)
  PROVE  Shape(w)
BY DEF Shape, Step, ReadFails, Set

(* An edit that writes no status and no approval.                          *)
LEMMA PlainEdit ==
  ASSUME NEW r \in Run, NEW n \in Execution, n.version = r.ex.version,
         n.status \in Terminal => r.ex.status \in Terminal,
         \A c \in Calls : n.approval[c] = "allow" => r.ex.approval[c] = "allow"
  PROVE  Edits(r, Stored(n))
<1>1. /\ Stored(n).version = n.version + 1 /\ Stored(n).status = n.status
      /\ Stored(n).approval = n.approval
  BY DEF Stored, Execution
<1> QED
  BY <1>1 DEF Edits

LEMMA StoredFields ==
  ASSUME NEW n \in Execution
  PROVE  /\ Stored(n) \in Execution /\ Stored(n).calls = n.calls
         /\ \A q \in Run : /\ [q EXCEPT !.ex = Stored(n)] \in Run
                           /\ [q EXCEPT !.ex = Stored(n)].ex = Stored(n)
                           /\ [q EXCEPT !.ex = Stored(n)].pc = q.pc
                           /\ [q EXCEPT !.ex = Stored(n)].out = q.out
                           /\ [q EXCEPT !.ex = Stored(n)].answer = q.answer
<1> DEFINE m == Stored(n)
<1>1. m \in Execution /\ m.calls = n.calls
  BY Zenon, StoredType DEF Stored, Execution
<1> HIDE DEF m
<1>2. \A q \in Run : /\ [q EXCEPT !.ex = m] \in Run
                     /\ [q EXCEPT !.ex = m].ex = m /\ [q EXCEPT !.ex = m].pc = q.pc
                     /\ [q EXCEPT !.ex = m].out = q.out /\ [q EXCEPT !.ex = m].answer = q.answer
  BY Zenon, <1>1 DEF Run
<1> QED
  BY <1>1, <1>2 DEF m

(* A run state that goes on after a Save.                                  *)
LEMMA QuietSave ==
  ASSUME NEW r \in Run, NEW q \in Run, NEW n \in Execution,
         q.pc \notin Resuming \cup {"claim", "finalize"},
         \A c \in Calls : q.out[c] = "claimed" => r.out[c] = "claimed"
  PROVE  Moves(r, [q EXCEPT !.ex = Stored(n)])
BY StoredFields DEF Moves

(* A run that ends after a Save that left no batch.                        *)
LEMMA ReturnSave ==
  ASSUME NEW r \in Run, NEW x \in Run, NEW s \in Terminal, NEW n \in Execution,
         x.ex.calls = {} => n.calls = {}
  PROVE  Moves(r, [Return(x, s) EXCEPT !.ex = Stored(n)])
<1>1. Return(x, s) \in Run
  BY ReturnType
<1> QED
  BY <1>1, ReturnFields, StoredFields DEF Moves, Resuming

LEMMA IdleSave ==
  ASSUME NEW r \in Run, NEW n \in Execution
  PROVE  Moves(r, [Idle EXCEPT !.ex = Stored(n)])
BY IdleType, IdleFields, StoredFields DEF Moves, Resuming

LEMMA FailFacts ==
  ASSUME NEW r \in Run, NEW x \in Run
  PROVE  /\ Fail(x) \in Run /\ Moves(r, Fail(x)) /\ Fail(x).ex \in {x.ex, NoExecution}
         /\ Idle \in Run /\ Moves(r, Idle) /\ Idle.ex = NoExecution
BY FailType, ReturnMove, ReturnFields, IdleType, IdleMove, IdleFields DEF Fail, Terminal

LEMMA GotoFields ==
  ASSUME NEW r \in Run, NEW pc \in Place
  PROVE  /\ Goto(r, pc) \in Run /\ Goto(r, pc).pc = pc /\ Goto(r, pc).ex = r.ex
         /\ Goto(r, pc).out = r.out /\ Goto(r, pc).answer = r.answer
BY ZenonT(60), GotoType DEF Goto, Run

LEMMA GotoMove ==
  ASSUME NEW r \in Run, NEW pc \in Place, pc \notin Resuming \cup {"claim", "finalize"}
  PROVE  /\ Goto(r, pc) \in Run /\ Goto(r, pc).ex = r.ex /\ Moves(r, Goto(r, pc))
         /\ \A n \in Execution : Moves(r, [Goto(r, pc) EXCEPT !.ex = Stored(n)])
<1> DEFINE q == Goto(r, pc)
<1>1. q \in Run /\ q.pc = pc /\ q.ex = r.ex /\ q.out = r.out
  BY GotoFields
<1> HIDE DEF q
<1>2. Moves(r, q)
  BY <1>1, QuietMove
<1>3. \A n \in Execution : Moves(r, [q EXCEPT !.ex = Stored(n)])
  BY <1>1, QuietSave
<1> QED
  BY <1>1, <1>2, <1>3 DEF q

LEMMA AfterTurnFields ==
  ASSUME NEW r \in Run
  PROVE  /\ AfterTurn(r) \in Run /\ AfterTurn(r).ex = r.ex /\ AfterTurn(r).out = r.out
         /\ AfterTurn(r).pc \in {"saveTurn", "plan"}
<1> DEFINE d == <<TextMsg>>
           q == [r EXCEPT !.pc = "saveTurn", !.text = FALSE, !.delta = d]
<1> HIDE DEF d
<1>1. q.ex = r.ex /\ q.out = r.out /\ q.pc = "saveTurn"
  BY DEF Run
<1>2. "saveTurn" \in Place /\ "plan" \in Place
  BY DEF Place
<1> QED
  BY Zenon, <1>1, <1>2, AfterTurnType, GotoFields DEF AfterTurn, d

LEMMA InvokeShape ==
  ASSUME TypeOK, NEW w \in Workers, InvokeStep(w)
  PROVE  Shape(w)
<1> DEFINE r == run[w]
<1>r. r \in Run
  BY DEF TypeOK
<1>f. /\ r.ex \in Execution /\ r.at \in Nat /\ r.iteration \in Nat /\ r.delta \in Seq(Message)
      /\ r.tools \in SUBSET Calls /\ r.end \in Terminal
  BY <1>r, RunFields
<1>l. Len(log) \in Nat
  BY LogLength
<1>b. \A x \in Run : /\ Fail(x) \in Run /\ Moves(r, Fail(x)) /\ Fail(x).ex \in {x.ex, NoExecution}
                     /\ Idle \in Run /\ Moves(r, Idle) /\ Idle.ex = NoExecution
  BY <1>r, FailFacts
<1>p. \A pc \in {"startCursor", "model", "progress", "answer", "plan", "planSave", "appendUse",
                 "markReady", "inspect", "dispatch"} :
        pc \in Place /\ pc \notin Resuming \cup {"claim", "finalize"}
  BY DEF Place, Resuming
<1> HIDE DEF r
<1>1. CASE PrepareTurn(w)
  <2> DEFINE q == [r EXCEPT !.pc = "startCursor", !.at = Len(log)]
  <2>1. q \in Run /\ q.ex = r.ex /\ q.out = r.out /\ q.pc = "startCursor"
    BY Zenon, <1>r, <1>l, <1>p DEF Run
  <2>2. Step(w, q) \/ Step(w, Fail(r))
    BY <1>1 DEF PrepareTurn, r
  <2> HIDE DEF q
  <2> QED
    BY <1>r, <1>b, <1>p, <2>1, <2>2, QuietMove, StepShape DEF r
<1>2. CASE PersistStartCursor(w)
  <2> DEFINE d == <<UserMsg>>
             n == [r.ex EXCEPT !.start = r.at]
             q == [r EXCEPT !.pc = "model", !.delta = d]
  <2>1. n \in Execution /\ n.version = r.ex.version /\ n.status = r.ex.status /\ n.approval = r.ex.approval
    BY Zenon, <1>f DEF Execution
  <2>2. d \in Seq(Message)
    BY DEF UserMsg, Message
  <2>3. Save(w, n, q, Fail(r))
    BY <1>2 DEF PersistStartCursor, r
  <2> HIDE DEF d, n
  <2>4. q \in Run /\ q.ex = r.ex /\ q.out = r.out /\ q.pc = "model"
    BY Zenon, <1>r, <1>p, <2>2 DEF Run
  <2> HIDE DEF q
  <2>5. Edits(r, Stored(n)) /\ Moves(r, [q EXCEPT !.ex = Stored(n)])
    BY <1>r, <1>p, <2>1, <2>4, PlainEdit, QuietSave
  <2> QED
    BY <1>r, <1>b, <2>1, <2>3, <2>4, <2>5, SaveShape DEF r
<1>3. CASE ModelCall(w)
  <2> DEFINE n == r.iteration + 1
             next == [r EXCEPT !.pc = "progress", !.iteration = n]
  <2>1. n \in Nat
    BY <1>f
  <2>2. \/ Step(w, Fail(r)) \/ Step(w, Fail(next))
        \/ \E T \in SUBSET Calls, text \in TextChoices :
             Step(w, [next EXCEPT !.tools = T, !.text = text])
    BY <1>3, Zenon DEF ModelCall, r
  <2> HIDE DEF n
  <2>3. next \in Run /\ next.ex = r.ex /\ next.out = r.out /\ next.pc = "progress"
    BY Zenon, <1>r, <1>p, <2>1 DEF Run
  <2> HIDE DEF next
  <2>4. CASE Step(w, Fail(r)) \/ Step(w, Fail(next))
    BY <1>r, <1>b, <2>3, <2>4, StepShape DEF r
  <2>5. ASSUME NEW T \in SUBSET Calls, NEW text \in TextChoices,
               Step(w, [next EXCEPT !.tools = T, !.text = text])
        PROVE  Shape(w)
    <3> DEFINE q == [next EXCEPT !.tools = T, !.text = text]
    <3>1. q \in Run /\ q.ex = r.ex /\ q.out = r.out /\ q.pc = "progress"
      BY Zenon, <2>3, BoundAssumption DEF Run
    <3> HIDE DEF q
    <3> QED
      BY Zenon, <1>r, <1>p, <2>5, <3>1, QuietMove, StepShape DEF r, q
  <2> QED
    BY Zenon, <2>2, <2>4, <2>5
<1>4. CASE PersistProgress(w)
  <2> DEFINE n == [r.ex EXCEPT !.iteration = r.iteration]
             x == [r EXCEPT !.ex = Stored(n)]
  <2>1. /\ n \in Execution /\ n.version = r.ex.version /\ n.status = r.ex.status
        /\ n.approval = r.ex.approval /\ n.calls = r.ex.calls
    BY Zenon, <1>f DEF Execution
  <2>2. PICK good \in {IF r.tools = {} THEN Goto(r, "answer") ELSE AfterTurn(r), Fail(x)} :
          Save(w, n, good, Fail(r))
    BY <1>4 DEF PersistProgress, r
  <2> HIDE DEF n
  <2>3. x \in Run /\ x.ex = Stored(n) /\ x.ex.calls = n.calls
    BY <1>r, <2>1, StoredFields
  <2> HIDE DEF x
  <2>4. Moves(r, [Fail(x) EXCEPT !.ex = Stored(n)])
    BY <1>r, <2>1, <2>3, ReturnSave DEF Fail, Terminal
  <2>5. Goto(r, "answer") \in Run /\ Moves(r, [Goto(r, "answer") EXCEPT !.ex = Stored(n)])
    BY Zenon, <1>r, <1>p, <2>1, GotoMove
  <2>6. AfterTurn(r) \in Run /\ Moves(r, [AfterTurn(r) EXCEPT !.ex = Stored(n)])
    <3> DEFINE q == AfterTurn(r)
    <3>1. q \in Run /\ q.out = r.out /\ q.pc \in {"saveTurn", "plan"}
      BY <1>r, AfterTurnFields
    <3> HIDE DEF q
    <3>2. Moves(r, [q EXCEPT !.ex = Stored(n)])
      BY <1>r, <2>1, <3>1, QuietSave DEF Resuming
    <3> QED
      BY <3>1, <3>2 DEF q
  <2>8. good \in Run /\ Moves(r, [good EXCEPT !.ex = Stored(n)])
    BY <1>b, <2>2, <2>3, <2>4, <2>5, <2>6
  <2>7. Edits(r, Stored(n))
    BY <1>r, <2>1, PlainEdit
  <2> QED
    BY <1>r, <1>b, <2>1, <2>2, <2>7, <2>8, SaveShape DEF r
<1>5. CASE SaveTurn(w)
  <2> DEFINE d == <<>>
             q == [r EXCEPT !.delta = d]
  <2>1. SaveConversation(w, r, AfterTurn(q), Fail(r)) /\ d \in Seq(Message)
    BY <1>5 DEF SaveTurn, r
  <2> HIDE DEF d
  <2>2. q \in Run /\ q.ex = r.ex /\ q.out = r.out
    BY Zenon, <1>r, <2>1 DEF Run
  <2> HIDE DEF q
  <2>3. AfterTurn(q) \in Run /\ AfterTurn(q).ex = r.ex /\ Moves(r, AfterTurn(q))
    BY <1>r, <2>2, AfterTurnFields, QuietMove DEF Resuming
  <2> QED
    BY <1>r, <1>b, <2>1, <2>3, SaveConversationShape DEF r
<1>6. CASE Answer(w)
  <2> DEFINE d == IF r.text THEN Append(r.delta, TextMsg) ELSE r.delta
             q == [r EXCEPT !.delta = d]
  <2>1. d \in Seq(Message)
    <3>1. TextMsg \in Message
      BY MessageType
    <3> QED
      BY <1>f, <3>1
  <2>2. Step(w, Fail(r)) \/ SaveConversation(w, q, Return(r, "Completed"), Fail(r))
    BY <1>6 DEF Answer, r
  <2> HIDE DEF d
  <2>3. q \in Run
    BY Zenon, <1>r, <2>1 DEF Run
  <2>4. /\ Return(r, "Completed") \in Run /\ Moves(r, Return(r, "Completed"))
        /\ Return(r, "Completed").ex \in {r.ex, NoExecution}
    BY <1>r, ReturnType, ReturnMove, ReturnFields DEF Terminal
  <2> HIDE DEF q
  <2> QED
    BY <1>r, <1>b, <2>2, <2>3, <2>4, StepShape, SaveConversationShape DEF r
<1>7. CASE PriorToolUses(w)
  <2>1. Step(w, Fail(r)) \/ Step(w, Goto(r, "planSave")) \/ ReadFails(w, Fail(r))
    BY <1>7 DEF PriorToolUses, r
  <2>2. Goto(r, "planSave") \in Run /\ Goto(r, "planSave").ex = r.ex /\ Moves(r, Goto(r, "planSave"))
    BY <1>r, <1>p, GotoMove
  <2> QED
    BY <1>r, <1>b, <2>1, <2>2, StepShape DEF r
<1>8. CASE PlanToolBatch(w)
  <2> DEFINE d == <<UseMsg(r.tools)>>
             n == PlanBatch(r.ex, r.tools, r.iteration, r.at)
             q == [r EXCEPT !.pc = "appendUse", !.delta = d]
  <2>1. n \in Execution
    BY <1>f, PlanBatchType
  <2>2. /\ n.version = r.ex.version /\ n.status = r.ex.status
        /\ \A c \in Calls : n.approval[c] = "none"
    BY <1>f DEF PlanBatch, Execution
  <2>3. d \in Seq(Message)
    BY <1>f DEF UseMsg, Message
  <2>4. Save(w, n, q, Fail(r))
    BY <1>8 DEF PlanToolBatch, r
  <2> HIDE DEF d, n
  <2>5. q \in Run /\ q.ex = r.ex /\ q.out = r.out /\ q.pc = "appendUse"
    BY Zenon, <1>r, <1>p, <2>3 DEF Run
  <2> HIDE DEF q
  <2>6. Edits(r, Stored(n)) /\ Moves(r, [q EXCEPT !.ex = Stored(n)])
    BY <1>r, <1>p, <2>1, <2>2, <2>5, PlainEdit, QuietSave
  <2> QED
    BY <1>r, <1>b, <2>1, <2>2, <2>4, <2>5, <2>6, SaveShape DEF r
<1>9. CASE AppendToolUse(w)
  <2>1. SaveConversation(w, r, Goto(r, "markReady"), Fail(r))
    BY <1>9 DEF AppendToolUse, r
  <2>2. Goto(r, "markReady") \in Run /\ Goto(r, "markReady").ex = r.ex /\ Moves(r, Goto(r, "markReady"))
    BY <1>r, <1>p, GotoMove
  <2> QED
    BY <1>r, <1>b, <2>1, <2>2, SaveConversationShape DEF r
<1>10. CASE MarkToolBatchReady(w)
  <2> DEFINE n == MarkReady(r.ex, r.at)
             pc == IF r.op = "recover" THEN "inspect" ELSE "dispatch"
  <2>1. /\ n \in Execution /\ n.version = r.ex.version /\ n.status = r.ex.status
        /\ n.approval = r.ex.approval
    BY Zenon, <1>f, MarkReadyType DEF MarkReady, Execution
  <2>2. Save(w, n, Goto(r, pc), Fail(r)) /\ pc \in {"inspect", "dispatch"}
    BY <1>10 DEF MarkToolBatchReady, r
  <2> HIDE DEF n, pc
  <2>3. Goto(r, pc) \in Run /\ Moves(r, [Goto(r, pc) EXCEPT !.ex = Stored(n)]) /\ Edits(r, Stored(n))
    BY SMTT(30), <1>r, <1>p, <2>1, <2>2, GotoMove, PlainEdit
  <2> QED
    BY <1>r, <1>b, <2>1, <2>2, <2>3, SaveShape DEF r
<1>11. CASE FinalizeExecution(w)
  <2> DEFINE n == Finalize(r.ex, r.end, r.at, r.iteration)
  <2>1. n \in Execution
    BY <1>f, FinalizeType
  <2>2. n.version = r.ex.version /\ n.approval = r.ex.approval /\ n.calls = r.ex.calls
    BY <1>f DEF Finalize, Execution
  <2>3. Save(w, n, Idle, Idle) /\ r.pc = "finalize"
    BY <1>11 DEF FinalizeExecution, r
  <2> HIDE DEF n
  <2>4. /\ Stored(n).version = n.version + 1 /\ Stored(n).approval = n.approval
        /\ Stored(n).calls = n.calls
    BY <2>1 DEF Stored, Execution
  <2>5. Edits(r, Stored(n)) /\ Moves(r, [Idle EXCEPT !.ex = Stored(n)])
    BY <1>r, <2>1, <2>2, <2>3, <2>4, IdleSave DEF Edits
  <2> QED
    BY <1>r, <1>b, <2>1, <2>2, <2>3, <2>5, SaveShape DEF r
<1> QED
  BY <1>1, <1>2, <1>3, <1>4, <1>5, <1>6, <1>7, <1>8, <1>9, <1>10, <1>11 DEF InvokeStep

LEMMA AfterBatchSave ==
  ASSUME NEW r \in Run, NEW x \in Run, NEW n \in Execution, x.out = r.out,
         x.ex.calls = {} => n.calls = {}
  PROVE  AfterBatch(x) \in Run /\ Moves(r, [AfterBatch(x) EXCEPT !.ex = Stored(n)])
<1>1. \A pc \in {"pause", "model"} : Goto(x, pc) \in Run /\ Moves(r, [Goto(x, pc) EXCEPT !.ex = Stored(n)])
  <2> SUFFICES ASSUME NEW pc \in {"pause", "model"}
               PROVE  Goto(x, pc) \in Run /\ Moves(r, [Goto(x, pc) EXCEPT !.ex = Stored(n)])
    OBVIOUS
  <2> DEFINE q == Goto(x, pc)
  <2>1. q \in Run /\ q.pc = pc /\ q.out = r.out
    BY GotoFields DEF Place
  <2> HIDE DEF q
  <2>2. Moves(r, [q EXCEPT !.ex = Stored(n)])
    BY <2>1, QuietSave DEF Resuming
  <2> QED
    BY <2>1, <2>2 DEF q
<1>2. Fail(x) \in Run /\ Moves(r, [Fail(x) EXCEPT !.ex = Stored(n)])
  BY FailType, ReturnSave DEF Fail, Terminal
<1>3. Idle \in Run /\ Moves(r, [Idle EXCEPT !.ex = Stored(n)])
  BY IdleType, IdleSave
<1>4. AfterBatch(x) \in {Fail(x), Goto(x, "pause"), Idle, Goto(x, "model")}
  BY DEF AfterBatch
<1> QED
  BY <1>1, <1>2, <1>3, <1>4

LEMMA StartBatchMove ==
  ASSUME NEW r \in Run, NEW x \in Run
  PROVE  /\ StartBatch(x) \in Run /\ StartBatch(x).ex = x.ex /\ Moves(r, StartBatch(x))
         /\ \A n \in Execution : Moves(r, [StartBatch(x) EXCEPT !.ex = Stored(n)])
<1> DEFINE out == [c \in Calls |-> IF c \in x.ex.calls /\ x.ex.st[c] # "Completed"
                                   THEN "todo" ELSE "none"]
           q == StartBatch(x)
<1>1. \A c \in Calls : out[c] # "claimed"
  OBVIOUS
<1> HIDE DEF out
<1>2. q \in Run /\ q.ex = x.ex /\ q.pc = "exec" /\ q.out = out
  <2>1. [x EXCEPT !.pc = "exec", !.out = out].ex = x.ex
    BY DEF Run
  <2>2. [x EXCEPT !.pc = "exec", !.out = out].pc = "exec"
    BY DEF Run
  <2>3. [x EXCEPT !.pc = "exec", !.out = out].out = out
    BY DEF Run
  <2> QED
    BY <2>1, <2>2, <2>3, StartBatchType DEF StartBatch, out
<1> HIDE DEF q
<1>3. Moves(r, q)
  BY <1>1, <1>2, QuietMove DEF Resuming
<1>4. \A n \in Execution : Moves(r, [q EXCEPT !.ex = Stored(n)])
  BY <1>1, <1>2, QuietSave DEF Resuming
<1> QED
  BY <1>2, <1>3, <1>4 DEF q

LEMMA CompleteCallsEdit ==
  ASSUME NEW r \in Run, NEW T, NEW at \in Nat
  PROVE  /\ CompleteCalls(r.ex, T, at) \in Execution
         /\ CompleteCalls(r.ex, T, at).version = r.ex.version
         /\ Edits(r, Stored(CompleteCalls(r.ex, T, at)))
<1> DEFINE n == CompleteCalls(r.ex, T, at)
<1>1. r.ex \in Execution
  BY RunFields
<1>2. n \in Execution
  BY <1>1, CompleteCallsType
<1>3. /\ n.version = r.ex.version /\ n.status = r.ex.status
      /\ \A c \in Calls : n.approval[c] = "allow" => r.ex.approval[c] = "allow"
  BY <1>1 DEF CompleteCalls, NoExecution, Execution
<1> HIDE DEF n
<1>4. Edits(r, Stored(n))
  BY <1>2, <1>3, PlainEdit
<1> QED
  BY <1>2, <1>3, <1>4 DEF n

LEMMA SetOutMove ==
  ASSUME NEW r \in Run, NEW c \in Calls, NEW o \in Outcome, r.pc = "exec",
         o = "claimed" => Allowed(r, c)
  PROVE  /\ SetOut(r, c, o) \in Run /\ SetOut(r, c, o).ex = r.ex /\ Moves(r, SetOut(r, c, o))
         /\ \A n \in Execution : Moves(r, [SetOut(r, c, o) EXCEPT !.ex = Stored(n)])
<1> DEFINE q == SetOut(r, c, o)
<1>1. /\ q \in Run /\ q.ex = r.ex /\ q.pc = "exec"
      /\ \A d \in Calls : q.out[d] = IF d = c THEN o ELSE r.out[d]
  BY ZenonT(60), SetOutType DEF SetOut, Run
<1> HIDE DEF q
<1>2. ASSUME NEW d \in Calls, q.out[d] = "claimed" PROVE r.out[d] = "claimed" \/ Allowed(r, d)
  <2>1. CASE d = c
    BY <1>1, <1>2, <2>1
  <2>2. CASE d # c
    BY <1>1, <1>2, <2>2
  <2> QED
    BY <2>1, <2>2
<1>3. "exec" # "claim" /\ "exec" # "finalize" /\ "exec" \notin Resuming
  BY DEF Resuming
<1>4. Moves(r, q)
  BY <1>1, <1>2, <1>3 DEF Moves
<1>5. ASSUME NEW n \in Execution PROVE Moves(r, [q EXCEPT !.ex = Stored(n)])
  <2> DEFINE x == [q EXCEPT !.ex = Stored(n)]
  <2>1. x.pc = "exec" /\ x.out = q.out
    BY <1>1, StoredFields
  <2> HIDE DEF x
  <2>2. Moves(r, x)
    BY <1>2, <1>3, <2>1 DEF Moves
  <2> QED
    BY <2>2 DEF x
<1> QED
  BY <1>1, <1>4, <1>5 DEF q

LEMMA BatchShape ==
  ASSUME TypeOK, NEW w \in Workers, BatchStep(w)
  PROVE  Shape(w)
<1> DEFINE r == run[w]
<1>r. r \in Run
  BY DEF TypeOK
<1>f. /\ r.ex \in Execution /\ r.at \in Nat /\ r.iteration \in Nat /\ r.delta \in Seq(Message)
      /\ r.done \in SUBSET Calls /\ r.out \in [Calls -> Outcome] /\ r.pause \in Pause
  BY <1>r, RunFields
<1>b. /\ Fail(r) \in Run /\ Moves(r, Fail(r)) /\ Fail(r).ex \in {r.ex, NoExecution}
      /\ Idle \in Run /\ Moves(r, Idle) /\ Idle.ex = NoExecution
  BY <1>r, FailFacts
<1>p. \A pc \in {"commit", "pendingPause", "acknowledge"} :
        pc \in Place /\ pc \notin Resuming \cup {"claim", "finalize"}
  BY DEF Place, Resuming
<1> HIDE DEF r
<1>1. CASE Dispatch(w)
  <2> DEFINE found == ResultsIn(ActiveSuffix(Canonical(r), r.ex))
             n == CompleteCalls(r.ex, found, r.at)
             x == [r EXCEPT !.ex = n]
             good == IF n.calls = {} THEN AfterBatch(x) ELSE StartBatch(x)
  <2>1. Step(w, Fail(r)) \/ Step(w, StartBatch(r)) \/ Save(w, n, good, Fail(r))
    BY <1>1 DEF Dispatch, r
  <2> HIDE DEF found
  <2>2. n \in Execution /\ n.version = r.ex.version /\ Edits(r, Stored(n))
    BY <1>r, <1>f, CompleteCallsEdit, Zenon
  <2> HIDE DEF n
  <2>3. x \in Run /\ x.ex = n /\ x.out = r.out
    BY Zenon, <1>r, <2>2 DEF Run
  <2> HIDE DEF x
  <2>4. good \in Run /\ Moves(r, [good EXCEPT !.ex = Stored(n)])
    BY <1>r, <2>2, <2>3, AfterBatchSave, StartBatchMove
  <2> HIDE DEF good
  <2>5. StartBatch(r) \in Run /\ StartBatch(r).ex = r.ex /\ Moves(r, StartBatch(r))
    BY <1>r, StartBatchMove
  <2> QED
    BY <1>r, <1>b, <2>1, <2>2, <2>4, <2>5, StepShape, SaveShape DEF r
<1>2. CASE Collect(w)
  <2> DEFINE Having(O) == {c \in Calls : r.out[c] \in O}
             human == Having({"human"}) # {}
             bad == Having({"err"}) \cup (IF human THEN Having({"pending"}) ELSE {})
             done == Having({"ok", "human"}) \cup bad
             pend == Having({"pending"})
             msgs == IF done = {} THEN r.delta ELSE Append(r.delta, ResultMsg(done, bad))
             out == Idle.out
             next == [r EXCEPT !.out = out, !.done = done, !.delta = msgs]
             ask == [kind |-> "human", calls |-> {}]
             approve == [kind |-> "approval", calls |-> pend]
  <2>1. done \in SUBSET Calls /\ bad \in SUBSET Calls /\ pend \in SUBSET Calls
    OBVIOUS
  <2>2. out \in [Calls -> Outcome] /\ \A c \in Calls : out[c] = "none"
    BY IdleType, IdleFields, RunFields
  <2>3. msgs \in Seq(Message)
    <3>1. ResultMsg(done, bad) \in Message
      BY <2>1, MessageType
    <3> QED
      BY <1>f, <3>1
  <2>4. \/ Step(w, Fail(r)) \/ Step(w, [next EXCEPT !.pc = "commit", !.failed = TRUE])
        \/ Step(w, [next EXCEPT !.pc = "pendingPause", !.pause = ask])
        \/ Step(w, [next EXCEPT !.pc = "pendingPause", !.pause = approve])
        \/ Step(w, Goto(next, "commit"))
    BY Zenon, <1>2 DEF Collect, r
  <2>5. ask \in Pause /\ approve \in Pause
    BY <2>1 DEF Pause
  <2> HIDE DEF done, bad, pend, out, msgs, ask, approve
  <2>6. next \in Run /\ next.ex = r.ex /\ next.out = out
    BY Zenon, <1>r, <2>1, <2>2, <2>3 DEF Run
  <2> HIDE DEF next
  <2>7. ASSUME NEW q \in Run, q.ex = r.ex, q.out = out, q.pc \in {"commit", "pendingPause"}
        PROVE  Moves(r, q)
    BY <1>r, <1>p, <2>2, <2>7, QuietMove
  <2>8. /\ [next EXCEPT !.pc = "commit", !.failed = TRUE] \in Run
        /\ [next EXCEPT !.pc = "commit", !.failed = TRUE].ex = r.ex
        /\ Moves(r, [next EXCEPT !.pc = "commit", !.failed = TRUE])
    <3> DEFINE q == [next EXCEPT !.pc = "commit", !.failed = TRUE]
    <3>1. q \in Run /\ q.ex = r.ex /\ q.out = out /\ q.pc = "commit"
      BY Zenon, <1>p, <2>6 DEF Run
    <3> HIDE DEF q
    <3>2. Moves(r, q)
      BY <2>7, <3>1
    <3> QED
      BY <3>1, <3>2 DEF q
  <2>9. ASSUME NEW p \in Pause
        PROVE  /\ [next EXCEPT !.pc = "pendingPause", !.pause = p] \in Run
               /\ [next EXCEPT !.pc = "pendingPause", !.pause = p].ex = r.ex
               /\ Moves(r, [next EXCEPT !.pc = "pendingPause", !.pause = p])
    <3> DEFINE q == [next EXCEPT !.pc = "pendingPause", !.pause = p]
    <3>1. q \in Run /\ q.ex = r.ex /\ q.out = out /\ q.pc = "pendingPause"
      BY Zenon, <1>p, <2>6 DEF Run
    <3> HIDE DEF q
    <3>2. Moves(r, q)
      BY <2>7, <3>1
    <3> QED
      BY <3>1, <3>2 DEF q
  <2>10. Goto(next, "commit") \in Run /\ Goto(next, "commit").ex = r.ex /\ Moves(r, Goto(next, "commit"))
    <3> DEFINE q == Goto(next, "commit")
    <3>1. q \in Run /\ q.ex = r.ex /\ q.out = out /\ q.pc = "commit"
      BY SMTT(30), <1>p, <2>6, GotoFields
    <3> HIDE DEF q
    <3>2. Moves(r, q)
      BY <2>7, <3>1
    <3> QED
      BY <3>1, <3>2 DEF q
  <2> QED
    BY Zenon, <1>r, <1>b, <2>4, <2>5, <2>8, <2>9, <2>10, StepShape DEF r
<1>3. CASE PersistPendingPause(w)
  <2> DEFINE n == [r.ex EXCEPT !.pending = r.pause, !.iteration = r.iteration]
             good == IF r.done = {} THEN AfterBatch(r) ELSE Goto(r, "commit")
  <2>1. /\ n \in Execution /\ n.version = r.ex.version /\ n.status = r.ex.status
        /\ n.approval = r.ex.approval /\ n.calls = r.ex.calls
    BY Zenon, <1>f DEF Execution
  <2>2. Save(w, n, good, Fail(r))
    BY <1>3 DEF PersistPendingPause, r
  <2> HIDE DEF n
  <2>3. Edits(r, Stored(n))
    BY <1>r, <2>1, PlainEdit
  <2>4. good \in Run /\ Moves(r, [good EXCEPT !.ex = Stored(n)])
    BY Zenon, <1>r, <1>p, <2>1, AfterBatchSave, GotoMove
  <2> HIDE DEF good
  <2> QED
    BY <1>r, <1>b, <2>1, <2>2, <2>3, <2>4, SaveShape DEF r
<1>4. CASE CommitResults(w)
  <2>1. SaveConversation(w, r, Goto(r, "acknowledge"), Fail(r))
    BY <1>4 DEF CommitResults, r
  <2>2. Goto(r, "acknowledge") \in Run /\ Goto(r, "acknowledge").ex = r.ex /\ Moves(r, Goto(r, "acknowledge"))
    BY <1>r, <1>p, GotoMove
  <2> QED
    BY <1>r, <1>b, <2>1, <2>2, SaveConversationShape DEF r
<1>5. CASE AcknowledgeResults(w)
  <2> DEFINE n == CompleteCalls(r.ex, r.done, r.at)
             x == [r EXCEPT !.ex = n, !.done = {}]
  <2>1. Save(w, n, AfterBatch(x), Fail(r))
    BY <1>5 DEF AcknowledgeResults, r
  <2>2. n \in Execution /\ n.version = r.ex.version /\ Edits(r, Stored(n))
    BY <1>r, <1>f, CompleteCallsEdit, Zenon
  <2> HIDE DEF n
  <2>3. x \in Run /\ x.ex = n /\ x.out = r.out
    BY Zenon, <1>r, <2>2 DEF Run
  <2> HIDE DEF x
  <2>4. AfterBatch(x) \in Run /\ Moves(r, [AfterBatch(x) EXCEPT !.ex = Stored(n)])
    BY <1>r, <2>2, <2>3, AfterBatchSave
  <2> QED
    BY <1>r, <1>b, <2>1, <2>2, <2>4, SaveShape DEF r
<1>6. CASE PauseExecution(w)
  <2> DEFINE n == RecordPause(r.ex, r.pause, r.at, r.iteration)
  <2>1. n \in Execution
    BY <1>f, RecordPauseType
  <2>2. n.version = r.ex.version /\ n.status = "Paused" /\ n.approval = r.ex.approval
    BY <1>f DEF RecordPause, Execution
  <2>3. Step(w, Fail(r)) \/ Save(w, n, Idle, Idle)
    BY <1>6 DEF PauseExecution, r
  <2> HIDE DEF n
  <2>4. Edits(r, Stored(n)) /\ Moves(r, [Idle EXCEPT !.ex = Stored(n)])
    BY <1>r, <2>1, <2>2, PlainEdit, IdleSave DEF Terminal
  <2> QED
    BY <1>r, <1>b, <2>1, <2>2, <2>3, <2>4, StepShape, SaveShape DEF r
<1>7. ASSUME NEW c \in Calls, RejectCall(w, c) \/ ApprovalGate(w, c)
      PROVE  Shape(w)
  <2>1. PICK o \in {"err", "pending"} : Step(w, SetOut(r, c, o)) /\ r.pc = "exec"
    BY <1>7 DEF RejectCall, ApprovalGate, MayRun, r
  <2>2. SetOut(r, c, o) \in Run /\ SetOut(r, c, o).ex = r.ex /\ Moves(r, SetOut(r, c, o))
    BY <1>r, <2>1, SetOutMove DEF Outcome
  <2> QED
    BY <2>1, <2>2, StepShape DEF r
<1>8. ASSUME NEW c \in Calls, BeginToolExecution(w, c)
      PROVE  Shape(w)
  <2> DEFINE n == SetStatus(r.ex, c, "InFlight")
  <2>1. n \in Execution
    BY <1>f, SetStatusType DEF CallStatus
  <2>2. n.version = r.ex.version /\ n.status = r.ex.status /\ n.approval = r.ex.approval
    BY <1>f DEF SetStatus, Execution
  <2>3. /\ r.pc = "exec" /\ Allowed(r, c)
        /\ \/ Save(w, n, SetOut(r, c, "claimed"), SetOut(r, c, "coordination"))
           \/ Step(w, SetOut(r, c, "unknown")) \/ Step(w, SetOut(r, c, "coordination"))
    BY <1>8 DEF BeginToolExecution, MayRun, r
  <2> HIDE DEF n
  <2>4. \A o \in {"claimed", "unknown", "coordination"} :
          /\ SetOut(r, c, o) \in Run /\ SetOut(r, c, o).ex = r.ex /\ Moves(r, SetOut(r, c, o))
          /\ Moves(r, [SetOut(r, c, o) EXCEPT !.ex = Stored(n)])
    <3>1. \A o \in {"claimed", "unknown", "coordination"} : o \in Outcome
      BY DEF Outcome
    <3> QED
      BY <1>r, <2>1, <2>3, <3>1, SetOutMove
  <2>5. Edits(r, Stored(n))
    BY <1>r, <2>1, <2>2, PlainEdit
  <2> QED
    BY <1>r, <2>1, <2>2, <2>3, <2>4, <2>5, StepShape, SaveShape DEF r
<1>9. ASSUME NEW c \in Calls, RunHandler(w, c)
      PROVE  Shape(w)
  <2>1. PICK o \in {"err", "unknown", "human", "ok"} :
          run' = [run EXCEPT ![w] = SetOut(r, c, o)] /\ exec' = exec /\ r.pc = "exec"
    BY Zenon, <1>9 DEF RunHandler, Set, r
  <2>2. SetOut(r, c, o) \in Run /\ SetOut(r, c, o).ex = r.ex /\ Moves(r, SetOut(r, c, o))
    BY <1>r, <2>1, SetOutMove DEF Outcome
  <2> QED
    BY Zenon, <2>1, <2>2 DEF Shape, r
<1> QED
  BY <1>1, <1>2, <1>3, <1>4, <1>5, <1>6, <1>7, <1>8, <1>9 DEF BatchStep

LEMMA ResumeShape ==
  ASSUME TypeOK, NEW w \in Workers, ResumeStep(w)
  PROVE  Shape(w)
<1> DEFINE r == run[w]
<1>r. r \in Run
  BY DEF TypeOK
<1>f. r.ex \in Execution /\ r.pause \in Pause /\ r.answer \in [Calls -> Decision]
  BY <1>r, RunFields
<1>l. Len(log) \in Nat
  BY LogLength
<1>b. \A x \in Run : /\ Fail(x) \in Run /\ Moves(r, Fail(x)) /\ Fail(x).ex \in {x.ex, NoExecution}
                     /\ Idle \in Run /\ Moves(r, Idle) /\ Idle.ex = NoExecution
  BY <1>r, FailFacts
<1>n. NoPause \in Pause
  BY DEF NoPause, Pause
<1>p. \A pc \in {"reload", "rejoin", "model", "decide", "dispatch"} : pc \in Place
  BY DEF Place
<1> HIDE DEF r
<1>1. CASE ClaimPause(w)
  <2> DEFINE n == ClaimResume(r.ex)
             q == Goto(r, "reload")
  <2>1. n \in Execution
    BY <1>f, ClaimResumeType
  <2>2. n.version = r.ex.version /\ n.status = "Running" /\ n.approval = r.ex.approval
    BY <1>f DEF ClaimResume, Execution
  <2>3. Save(w, n, q, Idle) /\ r.pc = "claim"
    BY <1>1 DEF ClaimPause, r
  <2>4. q \in Run /\ q.pc = "reload" /\ q.out = r.out /\ q.answer = r.answer
    BY <1>r, <1>p, GotoFields
  <2> HIDE DEF n, q
  <2>5. Edits(r, Stored(n))
    BY <1>r, <2>1, <2>2, PlainEdit DEF Terminal
  <2>6. Moves(r, [q EXCEPT !.ex = Stored(n)])
    BY <2>1, <2>3, <2>4, StoredFields DEF Moves, Resuming
  <2> QED
    BY <1>r, <1>b, <2>1, <2>2, <2>3, <2>4, <2>5, <2>6, SaveShape DEF r
<1>2. CASE ReloadClaimed(w)
  <2> DEFINE q == [r EXCEPT !.pc = "rejoin", !.held = TRUE, !.ex = exec, !.iteration = exec.iteration]
  <2>1. exec \in Execution /\ exec.iteration \in Nat
    BY ExecutionFields DEF TypeOK
  <2>2. q \in Run /\ q.ex = exec /\ q.pc = "rejoin" /\ q.out = r.out /\ q.answer = r.answer
    BY Zenon, <1>r, <1>p, <2>1 DEF Run
  <2>3. r.pc = "reload" /\ (Step(w, q) \/ ReadFails(w, Idle))
    BY <1>2 DEF ReloadClaimed, r
  <2> HIDE DEF q
  <2>4. Moves(r, q)
    BY <2>2, <2>3 DEF Moves, Resuming
  <2> QED
    BY <1>r, <1>b, <2>2, <2>3, <2>4, StepShape DEF r
<1>3. CASE Rejoin(w)
  <2> DEFINE next == [r EXCEPT !.at = Len(log)]
             d == <<UserMsg>>
             m == [next EXCEPT !.pc = "model", !.delta = d, !.pause = NoPause]
             q == Goto(next, "decide")
  <2>1. next \in Run /\ next.ex = r.ex /\ next.out = r.out /\ next.answer = r.answer
    BY Zenon, <1>r, <1>l DEF Run
  <2>2. d \in Seq(Message)
    BY DEF UserMsg, Message
  <2>3. r.pc = "rejoin" /\ (Step(w, Fail(r)) \/ Step(w, Fail(next)) \/ Step(w, q) \/ Step(w, m))
    BY <1>3 DEF Rejoin, r
  <2> HIDE DEF next, d
  <2>4. m \in Run /\ m.ex = r.ex /\ m.out = r.out /\ m.pc = "model"
    BY Zenon, <1>n, <1>p, <2>1, <2>2 DEF Run
  <2>5. q \in Run /\ q.ex = r.ex /\ q.out = r.out /\ q.pc = "decide" /\ q.answer = r.answer
    BY <1>p, <2>1, GotoFields
  <2> HIDE DEF m, q
  <2>6. Moves(r, m) /\ Moves(r, q)
    BY <2>3, <2>4, <2>5 DEF Moves, Resuming
  <2> QED
    BY <1>r, <1>b, <2>1, <2>3, <2>4, <2>5, <2>6, StepShape DEF r
<1>4. CASE Decide(w)
  <2> DEFINE clean == [r EXCEPT !.pause = NoPause]
             n == RecordDecisions(r.ex, r.pause.calls, r.answer)
             q == Goto(clean, "dispatch")
  <2>1. clean \in Run /\ clean.ex = r.ex /\ clean.out = r.out
    BY <1>r, <1>n DEF Run
  <2>2. n \in Execution
    BY <1>f, RecordDecisionsType
  <2>3. /\ n.version = r.ex.version /\ n.status = r.ex.status
        /\ \A c \in Calls : n.approval[c] \in {r.answer[c], r.ex.approval[c]}
    BY <1>f DEF RecordDecisions, Execution
  <2>4. r.pc = "decide" /\ (Step(w, Fail(clean)) \/ Save(w, n, q, Fail(clean)))
    BY <1>4 DEF Decide, r
  <2> HIDE DEF clean, n
  <2>5. q \in Run /\ q.pc = "dispatch" /\ q.out = r.out
    BY <1>p, <2>1, GotoFields
  <2> HIDE DEF q
  <2>6. /\ Stored(n).version = n.version + 1 /\ Stored(n).status = n.status
        /\ Stored(n).approval = n.approval
    BY <2>2 DEF Stored, Execution
  <2>7. Edits(r, Stored(n))
    BY <2>3, <2>4, <2>6 DEF Edits
  <2>8. Moves(r, [q EXCEPT !.ex = Stored(n)])
    BY <1>r, <2>2, <2>5, QuietSave DEF Resuming
  <2> QED
    BY <1>r, <1>b, <2>1, <2>2, <2>3, <2>4, <2>5, <2>7, <2>8, StepShape, SaveShape DEF r
<1> QED
  BY <1>1, <1>2, <1>3, <1>4 DEF ResumeStep

LEMMA RecoverShape ==
  ASSUME TypeOK, NEW w \in Workers, RecoverStep(w)
  PROVE  Shape(w)
<1> DEFINE r == run[w]
<1>r. r \in Run
  BY DEF TypeOK
<1>f. r.ex \in Execution /\ r.at \in Nat
  BY <1>r, RunFields
<1>b. Idle \in Run /\ Moves(r, Idle) /\ Idle.ex = NoExecution
  BY <1>r, FailFacts
<1>p. \A pc \in {"inspect", "appendUse", "markReady", "resolve", "dispatch"} :
        pc \in Place /\ pc \notin Resuming \cup {"claim", "finalize"}
  BY DEF Place, Resuming
<1> HIDE DEF r
<1>1. CASE ProjectPendingPause(w)
  <2> DEFINE n == ProjectPause(r.ex)
  <2>1. n \in Execution
    BY <1>f, ProjectPauseType
  <2>2. n.version = r.ex.version /\ n.status = "Paused" /\ n.approval = r.ex.approval
    BY <1>f DEF ProjectPause, Execution
  <2>3. Save(w, n, Idle, Idle)
    BY <1>1 DEF ProjectPendingPause, r
  <2> HIDE DEF n
  <2>4. Edits(r, Stored(n)) /\ Moves(r, [Idle EXCEPT !.ex = Stored(n)])
    BY <1>r, <2>1, <2>2, PlainEdit, IdleSave DEF Terminal
  <2> QED
    BY <1>r, <1>b, <2>1, <2>2, <2>3, <2>4, SaveShape DEF r
<1>2. CASE LoadBoundary(w)
  <2> DEFINE q == [r EXCEPT !.at = Len(log), !.held = TRUE]
             d == <<UseMsg(q.ex.calls)>>
             u == [q EXCEPT !.pc = "appendUse", !.delta = d]
  <2>1. q \in Run /\ q.ex = r.ex /\ q.out = r.out
    BY Zenon, <1>r, LogLength DEF Run
  <2>2. \/ Step(w, Goto(q, "inspect")) \/ Step(w, Goto(q, "markReady")) \/ Step(w, Idle)
        \/ Step(w, u) \/ ReadFails(w, Idle)
    BY <1>2 DEF LoadBoundary, r
  <2> HIDE DEF q
  <2>3. d \in Seq(Message)
    <3>1. q.ex.calls \in SUBSET Calls
      BY <2>1, RunFields, ExecutionFields
    <3> QED
      BY <3>1, MessageType
  <2> HIDE DEF d
  <2>4. u \in Run /\ u.ex = r.ex /\ u.out = r.out /\ u.pc = "appendUse"
    BY Zenon, <1>p, <2>1, <2>3 DEF Run
  <2> HIDE DEF u
  <2>5. Moves(r, u)
    BY <1>r, <1>p, <2>4, QuietMove
  <2>6. ASSUME NEW pc \in {"inspect", "markReady"}
        PROVE  Goto(q, pc) \in Run /\ Goto(q, pc).ex = r.ex /\ Moves(r, Goto(q, pc))
    <3> DEFINE x == Goto(q, pc)
    <3>1. x \in Run /\ x.ex = r.ex /\ x.out = r.out /\ x.pc = pc
      BY ZenonT(60), <1>p, <2>1, GotoFields
    <3> HIDE DEF x
    <3>2. Moves(r, x)
      BY <1>r, <1>p, <3>1, QuietMove
    <3> QED
      BY <3>1, <3>2 DEF x
  <2> QED
    BY <1>r, <1>b, <2>2, <2>4, <2>5, <2>6, StepShape DEF r
<1>3. CASE Inspect(w)
  <2> DEFINE found == ResultsIn(Boundary(r))
             n == CompleteCalls(r.ex, found, r.at)
             x == [r EXCEPT !.ex = n]
             good == IF n.calls = {} THEN Idle ELSE CheckUncertain(x)
  <2>1. \/ Step(w, Goto(r, "resolve")) \/ Step(w, Idle) \/ Step(w, CheckUncertain(r))
        \/ Save(w, n, good, Idle)
    BY <1>3 DEF Inspect, r
  <2> HIDE DEF found
  <2>2. n \in Execution /\ n.version = r.ex.version /\ Edits(r, Stored(n))
    BY <1>r, <1>f, CompleteCallsEdit, Zenon
  <2> HIDE DEF n
  <2>3. x \in Run /\ x.out = r.out
    BY Zenon, <1>r, <2>2 DEF Run
  <2> HIDE DEF x
  <2>4. CheckUncertain(r) \in {Idle, Goto(r, "dispatch")} /\ good \in {Idle, Goto(x, "dispatch")}
    BY DEF CheckUncertain
  <2> HIDE DEF good
  <2>5. Goto(x, "dispatch") \in Run /\ Moves(r, [Goto(x, "dispatch") EXCEPT !.ex = Stored(n)])
    <3> DEFINE q == Goto(x, "dispatch")
    <3>1. q \in Run /\ q.out = r.out /\ q.pc = "dispatch"
      BY <1>p, <2>3, GotoFields
    <3> HIDE DEF q
    <3>2. Moves(r, [q EXCEPT !.ex = Stored(n)])
      BY <1>r, <1>p, <2>2, <3>1, QuietSave
    <3> QED
      BY <3>1, <3>2 DEF q
  <2>6. Moves(r, [Idle EXCEPT !.ex = Stored(n)])
    BY <1>r, <2>2, IdleSave
  <2>7. \A pc \in {"resolve", "dispatch"} :
          Goto(r, pc) \in Run /\ Goto(r, pc).ex = r.ex /\ Moves(r, Goto(r, pc))
    BY <1>r, <1>p, GotoMove
  <2>8. good \in Run /\ Moves(r, [good EXCEPT !.ex = Stored(n)])
    BY <1>b, <2>4, <2>5, <2>6
  <2> QED
    BY <1>r, <1>b, <2>1, <2>2, <2>4, <2>7, <2>8, StepShape, SaveShape DEF r
<1> QED
  BY <1>1, <1>2, <1>3 DEF RecoverStep

LEMMA ReconcileShape ==
  ASSUME TypeOK, NEW w \in Workers, ReconcileStep(w)
  PROVE  Shape(w)
<1> DEFINE r == run[w]
<1>r. r \in Run
  BY DEF TypeOK
<1>f. r.ex \in Execution /\ r.at \in Nat /\ r.target \in SUBSET (Calls \X BOOLEAN)
  BY <1>r, RunFields
<1>b. Idle \in Run /\ Moves(r, Idle) /\ Idle.ex = NoExecution
  BY <1>r, FailFacts
<1>p. \A pc \in {"loadResolution", "resolve", "resolved", "inspect"} :
        pc \in Place /\ pc \notin Resuming \cup {"claim", "finalize"}
  BY DEF Place, Resuming
<1>g. \A pc \in {"loadResolution", "resolve", "resolved", "inspect"} :
        /\ Goto(r, pc) \in Run /\ Goto(r, pc).ex = r.ex /\ Moves(r, Goto(r, pc))
        /\ \A n \in Execution : Moves(r, [Goto(r, pc) EXCEPT !.ex = Stored(n)])
  BY Zenon, <1>r, <1>p, GotoMove
<1>i. \A n \in Execution : Moves(r, [Idle EXCEPT !.ex = Stored(n)])
  BY <1>r, IdleSave
<1> HIDE DEF r
<1>1. CASE RetryCall(w)
  <2>1. PICK t \in r.target : Save(w, SetStatus(r.ex, t[1], "Ready"), Idle, Idle)
    BY <1>1 DEF RetryCall, r
  <2> DEFINE n == SetStatus(r.ex, t[1], "Ready")
  <2>2. n \in Execution
    BY <1>f, SetStatusType DEF CallStatus
  <2>3. n.version = r.ex.version /\ n.status = r.ex.status /\ n.approval = r.ex.approval
    BY <1>f DEF SetStatus, Execution
  <2> HIDE DEF n
  <2>4. Edits(r, Stored(n))
    BY <1>r, <2>2, <2>3, PlainEdit
  <2> QED
    BY Zenon, <1>r, <1>b, <1>i, <2>1, <2>2, <2>3, <2>4, SaveShape DEF r, n
<1>2. CASE ClaimResolution(w)
  <2> DEFINE n == [r.ex EXCEPT !.claim = r.target]
  <2>1. n \in Execution /\ n.version = r.ex.version /\ n.status = r.ex.status /\ n.approval = r.ex.approval
    BY <1>f DEF Execution
  <2>2. Save(w, n, Goto(r, "loadResolution"), Idle)
    BY <1>2 DEF ClaimResolution, r
  <2> HIDE DEF n
  <2>3. Edits(r, Stored(n))
    BY <1>r, <2>1, PlainEdit
  <2> QED
    BY Zenon, <1>r, <1>b, <1>g, <2>1, <2>2, <2>3, SaveShape DEF r
<1>3. CASE LoadResolution(w)
  <2> DEFINE q == [r EXCEPT !.pc = "resolve", !.at = Len(log)]
  <2>1. q \in Run /\ q.ex = r.ex /\ q.out = r.out /\ q.pc = "resolve"
    BY Zenon, <1>r, <1>p, LogLength DEF Run
  <2>2. Step(w, Idle) \/ Step(w, q) \/ ReadFails(w, Idle)
    BY <1>3 DEF LoadResolution, r
  <2> HIDE DEF q
  <2>3. Moves(r, q)
    BY <1>r, <1>p, <2>1, QuietMove
  <2> QED
    BY <1>r, <1>b, <2>1, <2>2, <2>3, StepShape DEF r
<1>4. CASE Resolve(w)
  <2>1. PICK t \in r.ex.claim : ResolveClaim(w, r, t[1], IF t[2] THEN {} ELSE {t[1]})
    BY Zenon, <1>4 DEF Resolve, r
  <2> DEFINE bad == IF t[2] THEN {} ELSE {t[1]}
             d == <<ResolvedMsg(t[1], bad)>>
             q == [r EXCEPT !.delta = d]
  <2>2. \/ Step(w, Idle) \/ Step(w, Goto(r, "resolved"))
        \/ SaveConversation(w, q, Goto(r, "resolved"), Idle)
    BY <2>1 DEF ResolveClaim
  <2>3. d \in Seq(Message)
    <3>1. r.ex.claim \in SUBSET (Calls \X BOOLEAN)
      BY <1>f, ExecutionFields
    <3>2. t[1] \in Calls
      BY <3>1
    <3>3. ResolvedMsg(t[1], bad) \in Message
      BY <3>2, MessageType
    <3> QED
      BY <3>3
  <2> HIDE DEF d
  <2>4. q \in Run
    BY SMTT(30), <1>r, <2>3 DEF Run
  <2> HIDE DEF q
  <2> QED
    BY <1>r, <1>b, <1>g, <2>2, <2>4, StepShape, SaveConversationShape DEF r
<1>5. CASE AcknowledgeResolution(w)
  <2>1. PICK t \in r.ex.claim :
          LET n == ResolveCall(r.ex, t[1], r.at)
          IN Save(w, n, IF r.op = "reconcile" \/ n.calls = {} THEN Idle ELSE Goto(r, "inspect"), Idle)
    BY <1>5 DEF AcknowledgeResolution, r
  <2> DEFINE c == t[1]
             m == CompleteCalls(r.ex, {c}, r.at)
             n == ResolveCall(r.ex, c, r.at)
             good == IF r.op = "reconcile" \/ n.calls = {} THEN Idle ELSE Goto(r, "inspect")
  <2>2. Save(w, n, good, Idle) /\ n = [m EXCEPT !.claim = {}]
    BY <2>1 DEF ResolveCall
  <2>3. m \in Execution
    BY <1>f, CompleteCallsType
  <2>4. /\ m.version = r.ex.version /\ m.status = r.ex.status
        /\ \A k \in Calls : m.approval[k] = "allow" => r.ex.approval[k] = "allow"
    BY <1>f DEF CompleteCalls, NoExecution, Execution
  <2> HIDE DEF m, n
  <2>5. n \in Execution /\ n.version = m.version /\ n.status = m.status /\ n.approval = m.approval
    BY <2>2, <2>3 DEF Execution
  <2>6. Edits(r, Stored(n))
    BY <1>r, <2>4, <2>5, PlainEdit
  <2>7. good \in Run /\ Moves(r, [good EXCEPT !.ex = Stored(n)])
    BY <1>b, <1>g, <1>i, <2>5
  <2> HIDE DEF good
  <2> QED
    BY Zenon, <1>r, <1>b, <2>2, <2>4, <2>5, <2>6, <2>7, SaveShape DEF r
<1> QED
  BY <1>1, <1>2, <1>3, <1>4, <1>5 DEF ReconcileStep

(* Every step of a running call has the shape.                             *)
LEMMA WorkShape == ASSUME TypeOK, NEW w \in Workers, Work(w) PROVE Shape(w)
BY InvokeShape, BatchShape, ResumeShape, RecoverShape, ReconcileShape DEF Work

-----------------------------------------------------------------------------
(* Fencing.                                                                *)

FenceInv == CopiesAreFenced /\ (exec.version = 0 => exec = NoExecution)

LEMMA Created ==
  ASSUME TypeOK, NEW w \in Workers, Create(w)
  PROVE  /\ exec.version = 0 /\ exec'.version = 1 /\ exec'.status = "Running"
         /\ \A c \in Calls : exec'.approval[c] = "none"
         /\ \A v \in Workers : \/ run'[v] = run[v]
                                \/ /\ run'[v].ex = exec' /\ run'[v].pc = "prepare"
                                   /\ \A c \in Calls : run'[v].out[c] = "none"
<1> DEFINE e == [NoExecution EXCEPT !.version = 1]
           q == [Idle EXCEPT !.op = "invoke", !.pc = "prepare", !.held = TRUE, !.ex = e]
<1>1. e.version = 1 /\ e.status = "Running" /\ \A c \in Calls : e.approval[c] = "none"
  BY DEF NoExecution
<1>2. exec' = e /\ exec.version = 0 /\ (run' = run \/ run' = [run EXCEPT ![w] = q])
  BY Zenon DEF Create, Set
<1> HIDE DEF e
<1>3. q.ex = e /\ q.pc = "prepare" /\ \A c \in Calls : q.out[c] = "none"
  BY DEF Idle
<1> HIDE DEF q
<1>4. \A v \in Workers : run'[v] = run[v] \/ run'[v] = q
  BY <1>2 DEF TypeOK
<1> QED
  BY <1>1, <1>2, <1>3, <1>4

LEMMA Loaded ==
  ASSUME TypeOK, NEW w \in Workers, LoadPaused(w) \/ LoadForRecovery(w) \/ LoadForReconcile(w)
  PROVE  /\ exec' = exec /\ UNCHANGED history
         /\ \A v \in Workers : \/ run'[v] = run[v]
                                \/ /\ run'[v].ex = exec
                                   /\ run'[v].pc \notin Resuming \cup {"finalize"}
                                   /\ \A c \in Calls : run'[v].out[c] = "none"
<1> DEFINE Ok(q) == /\ q.ex = exec /\ q.pc \notin Resuming \cup {"finalize"}
                    /\ \A c \in Calls : q.out[c] = "none"
<1>1. CASE LoadPaused(w)
  <2>1. PICK answer \in [exec.pause.calls -> {"allow", "deny"}] :
          Set(w, [Idle EXCEPT !.op = "resume", !.pc = "claim", !.ex = exec,
                              !.pause = exec.pause, !.from = exec.cursor,
                              !.answer = [c \in Calls |-> IF c \in exec.pause.calls
                                                          THEN answer[c] ELSE "none"]])
    BY Zenon, <1>1 DEF LoadPaused
  <2> DEFINE d == [c \in Calls |-> IF c \in exec.pause.calls THEN answer[c] ELSE "none"]
             q == [Idle EXCEPT !.op = "resume", !.pc = "claim", !.ex = exec,
                               !.pause = exec.pause, !.from = exec.cursor, !.answer = d]
  <2> HIDE DEF d
  <2>2. Ok(q)
    BY DEF Idle, Resuming
  <2>3. run' = [run EXCEPT ![w] = q] /\ exec' = exec /\ UNCHANGED history
    BY Zenon, <1>1, <2>1 DEF Set, LoadPaused, d
  <2> HIDE DEF q
  <2> QED
    BY <2>2, <2>3 DEF TypeOK
<1>2. CASE LoadForRecovery(w)
  <2> DEFINE pc == IF exec.pending.kind # "none" THEN "project" ELSE "recover"
             q == [Idle EXCEPT !.op = "recover", !.ex = exec, !.iteration = exec.iteration, !.pc = pc]
  <2>1. run' = [run EXCEPT ![w] = q] /\ exec' = exec /\ UNCHANGED history
    BY <1>2 DEF Set, LoadForRecovery
  <2>2. pc \notin Resuming \cup {"finalize"}
    BY DEF Resuming
  <2> HIDE DEF pc
  <2>3. Ok(q)
    BY <2>2 DEF Idle
  <2> HIDE DEF q
  <2> QED
    BY <2>1, <2>3 DEF TypeOK
<1>3. CASE LoadForReconcile(w)
  <2>1. PICK c \in exec.calls, succeeded \in BOOLEAN, pc \in {"retry", "resolution"} :
          Set(w, [Idle EXCEPT !.op = "reconcile", !.pc = pc, !.ex = exec,
                              !.target = {<<c, succeeded>>}])
    BY Zenon, <1>3 DEF LoadForReconcile
  <2> DEFINE t == {<<c, succeeded>>}
             q == [Idle EXCEPT !.op = "reconcile", !.pc = pc, !.ex = exec, !.target = t]
  <2> HIDE DEF t
  <2>2. Ok(q)
    BY DEF Idle, Resuming
  <2>3. run' = [run EXCEPT ![w] = q] /\ exec' = exec /\ UNCHANGED history
    BY Zenon, <1>3, <2>1 DEF Set, LoadForReconcile, t
  <2> HIDE DEF q
  <2> QED
    BY <2>2, <2>3 DEF TypeOK
<1> QED
  BY <1>1, <1>2, <1>3

LEMMA FenceStep == TypeOK /\ FenceInv /\ [Next]_vars => FenceInv'
<1> SUFFICES ASSUME TypeOK, FenceInv, [Next]_vars PROVE FenceInv'
  OBVIOUS
<1>t. /\ exec \in Execution /\ exec.version \in Nat /\ run \in [Workers -> Run]
      /\ \A v \in Workers : run[v].ex.version \in Nat
  BY ExecutionFields, RunFields DEF TypeOK
<1>n. NoExecution.version = 0 /\ Idle.ex = NoExecution
  BY IdleFields DEF NoExecution
<1>1. CASE UNCHANGED vars
  BY <1>1 DEF vars, FenceInv, CopiesAreFenced
<1>2. ASSUME NEW w \in Workers, Create(w) PROVE FenceInv'
  BY <1>2, <1>t, Created DEF FenceInv, CopiesAreFenced
<1>3. ASSUME NEW w \in Workers, LoadPaused(w) \/ LoadForRecovery(w) \/ LoadForReconcile(w)
      PROVE  FenceInv'
  BY <1>3, <1>t, Loaded DEF FenceInv, CopiesAreFenced
<1>4. ASSUME NEW w \in Workers, Work(w) PROVE FenceInv'
  <2>1. PICK q \in Run :
          /\ run' = [run EXCEPT ![w] = q]
          /\ \/ exec' = exec /\ q.ex \in {run[w].ex, exec, NoExecution}
             \/ /\ exec.version = run[w].ex.version
                /\ exec'.version = run[w].ex.version + 1
                /\ q.ex \in {run[w].ex, exec', NoExecution}
    BY <1>4, WorkShape DEF Shape, Edits
  <2>2. run'[w] = q /\ \A v \in Workers \ {w} : run'[v] = run[v]
    BY <1>t, <2>1
  <2>3. CASE exec' = exec /\ q.ex \in {run[w].ex, exec, NoExecution}
    BY <1>t, <1>n, <2>2, <2>3 DEF FenceInv, CopiesAreFenced
  <2>4. CASE /\ exec.version = run[w].ex.version
             /\ exec'.version = run[w].ex.version + 1
             /\ q.ex \in {run[w].ex, exec', NoExecution}
    BY <1>t, <1>n, <2>2, <2>4 DEF FenceInv, CopiesAreFenced
  <2> QED
    BY <2>1, <2>3, <2>4
<1>5. ASSUME NEW p, Crash(p) PROVE FenceInv'
  <2>1. exec' = exec /\ \A v \in Workers : run'[v] = run[v] \/ run'[v] = Idle
    BY <1>5 DEF Crash
  <2> QED
    BY <1>t, <1>n, <2>1 DEF FenceInv, CopiesAreFenced
<1>6. CASE ForeignAppend
  BY <1>6 DEF ForeignAppend, FenceInv, CopiesAreFenced
<1> QED
  BY <1>1, <1>2, <1>3, <1>4, <1>5, <1>6 DEF Next, Start

LEMMA FenceAlways == Spec => [](TypeOK /\ FenceInv)
<1>1. Init => FenceInv
  BY SMTT(30), IdleFields DEF Init, FenceInv, CopiesAreFenced, NoExecution
<1> QED
  BY <1>1, FenceStep, TypeSafety, PTL DEF Spec

(* The version of the ExecutionStore record fences every copy of it: no    *)
(* worker, however delayed by crashes, lost acknowledgements or competing  *)
(* calls, holds the current version of anything but the current record, so *)
(* a Save that passes the compare-and-swap edits what is stored.           *)
THEOREM Fencing == Spec => []CopiesAreFenced
BY FenceAlways, PTL DEF FenceInv

-----------------------------------------------------------------------------
(* Finalization.                                                           *)

FinalInv == \A w \in Workers : run[w].pc = "finalize" => run[w].ex.calls = {}

LEMMA FinalStep == TypeOK /\ FinalInv /\ [Next]_vars => FinalInv'
<1> SUFFICES ASSUME TypeOK, FinalInv, [Next]_vars PROVE FinalInv'
  OBVIOUS
<1>t. run \in [Workers -> Run]
  BY DEF TypeOK
<1>1. CASE UNCHANGED vars \/ ForeignAppend
  BY <1>1 DEF vars, ForeignAppend, FinalInv
<1>2. ASSUME NEW w \in Workers, Start(w) PROVE FinalInv'
  <2>1. \A v \in Workers : run'[v] = run[v] \/ run'[v].pc # "finalize"
    BY <1>2, Created, Loaded DEF Start
  <2> QED
    BY <2>1 DEF FinalInv
<1>3. ASSUME NEW w \in Workers, Work(w) PROVE FinalInv'
  BY <1>3, <1>t, WorkShape DEF Shape, Moves, FinalInv
<1>4. ASSUME NEW p, Crash(p) PROVE FinalInv'
  BY <1>4, IdleFields DEF Crash, FinalInv
<1> QED
  BY <1>1, <1>2, <1>3, <1>4 DEF Next

LEMMA TerminalStep ==
  ASSUME TypeOK, FenceInv, FinalInv, [Next]_vars, exec.status \notin Terminal, exec'.status \in Terminal
  PROVE  exec.calls = {} /\ exec'.calls = {}
<1>1. ~(exec' = exec)
  OBVIOUS
<1>2. ASSUME NEW w \in Workers, Start(w) PROVE FALSE
  <2>1. Create(w)
    BY Zenon, <1>1, <1>2 DEF Start, LoadPaused, LoadForRecovery, LoadForReconcile
  <2>2. exec'.status = "Running"
    BY <2>1, Created
  <2> QED
    BY <2>2 DEF Terminal
<1>3. PICK w \in Workers : Work(w)
  BY <1>1, <1>2 DEF Next, vars, Crash, ForeignAppend
<1>4. exec.version = run[w].ex.version /\ Edits(run[w], exec')
  BY <1>1, <1>3, WorkShape DEF Shape
<1>5. run[w].ex = exec
  BY <1>4 DEF FenceInv, CopiesAreFenced
<1>6. run[w].pc = "finalize" /\ exec'.calls = exec.calls
  BY <1>4, <1>5 DEF Edits
<1> QED
  BY <1>5, <1>6 DEF FinalInv

(* finalizeExecution never ends an execution that owns an open batch: that *)
(* record stays with RecoverExecution and ReconcileToolExecution.          *)
THEOREM Finalization == Spec => TerminalLeavesNoBatch
<1>1. Init => FinalInv
  BY IdleFields DEF Init, FinalInv
<1>2. TypeOK /\ FenceInv /\ FinalInv /\ [Next]_vars =>
        [exec.status \notin Terminal /\ exec'.status \in Terminal
           => exec.calls = {} /\ exec'.calls = {}]_vars
  BY TerminalStep
<1> QED
  BY <1>1, <1>2, FinalStep, FenceAlways, PTL DEF Spec, TerminalLeavesNoBatch

-----------------------------------------------------------------------------
(* Approval.                                                               *)

(* What a worker or the record knows to be allowed, a human has allowed.   *)
GrantInv ==
  /\ \A c \in Calls : exec.approval[c] = "allow" => c \in granted
  /\ \A w \in Workers, c \in Calls :
       /\ run[w].ex.approval[c] = "allow" => c \in granted
       /\ run[w].pc \in Resuming /\ run[w].answer[c] = "allow" => c \in granted
       /\ run[w].out[c] = "claimed" /\ c \in NeedsApproval => c \in granted
  /\ ApprovedBeforeStart

LEMMA InvokeHistory == ASSUME NEW w, InvokeStep(w) PROVE UNCHANGED history /\ run[w].pc # "claim"
BY Zenon DEF InvokeStep, PrepareTurn, PersistStartCursor, ModelCall, PersistProgress, SaveTurn, Answer,
       PriorToolUses, PlanToolBatch, AppendToolUse, MarkToolBatchReady, FinalizeExecution,
       Step, ReadFails, SaveConversation

LEMMA BatchHistory ==
  ASSUME NEW w, BatchStep(w)
  PROVE  /\ run[w].pc # "claim"
         /\ UNCHANGED history \/ \E c \in Calls : RunHandler(w, c)
BY Zenon DEF BatchStep, Dispatch, Collect, PersistPendingPause, CommitResults, AcknowledgeResults,
       PauseExecution, RejectCall, ApprovalGate, BeginToolExecution, RunHandler, MayRun,
       Step, SaveConversation

LEMMA ResumeHistory ==
  ASSUME NEW w, ResumeStep(w)
  PROVE  ClaimPause(w) \/ (UNCHANGED history /\ run[w].pc # "claim")
BY DEF ResumeStep, ReloadClaimed, Rejoin, Decide, Step, ReadFails

LEMMA RecoverHistory == ASSUME NEW w, RecoverStep(w) PROVE UNCHANGED history /\ run[w].pc # "claim"
BY DEF RecoverStep, ProjectPendingPause, LoadBoundary, Inspect, Step, ReadFails

LEMMA ReconcileHistory ==
  ASSUME NEW w, ReconcileStep(w)
  PROVE  UNCHANGED <<started, granted>> /\ run[w].pc # "claim"
BY Zenon DEF ReconcileStep, RetryCall, ClaimResolution, LoadResolution, Resolve, ResolveClaim,
       AcknowledgeResolution, Step, ReadFails, SaveConversation, history

LEMMA WorkHistory ==
  ASSUME NEW w, Work(w)
  PROVE  \/ ClaimPause(w)
         \/ run[w].pc # "claim" /\ UNCHANGED <<started, granted>>
         \/ run[w].pc # "claim" /\ \E c \in Calls : RunHandler(w, c)
BY InvokeHistory, BatchHistory, ResumeHistory, RecoverHistory, ReconcileHistory DEF Work, history

(* A claim that moves its resume on was stored: its answers are granted.   *)
LEMMA ClaimGrants ==
  ASSUME TypeOK, NEW w \in Workers, ClaimPause(w)
  PROVE  /\ UNCHANGED started /\ granted \subseteq granted'
         /\ run'[w].pc \in Resuming =>
              \A c \in Calls : run[w].answer[c] = "allow" => c \in granted'
<1> DEFINE n == ClaimResume(run[w].ex)
<1>1. run[w].ex \in Execution
  BY RunFields DEF TypeOK
<1>2. n \in Execution
  BY <1>1, ClaimResumeType
<1>3. Save(w, n, Goto(run[w], "reload"), Idle)
  BY DEF ClaimPause
<1>4. granted' = IF exec' = exec THEN granted
                 ELSE granted \cup {c \in Calls : run[w].answer[c] = "allow"}
  BY DEF ClaimPause
<1> HIDE DEF n
<1>5. ASSUME run'[w].pc \in Resuming PROVE exec' # exec
  <2>1. run' = [run EXCEPT ![w] = Idle] => run'[w].pc = "idle"
    BY IdleFields DEF TypeOK
  <2>2. exec.version = n.version /\ exec' = Stored(n)
    BY <1>3, <1>5, <2>1 DEF Save, Set, Resuming
  <2>3. Stored(n).version = n.version + 1 /\ n.version \in Nat
    BY <1>2 DEF Stored, Execution
  <2> QED
    BY <2>2, <2>3
<1> QED
  BY <1>4, <1>5 DEF ClaimPause

LEMMA GrantStep == TypeOK /\ GrantInv /\ [Next]_vars => GrantInv'
<1> SUFFICES ASSUME TypeOK, GrantInv, [Next]_vars PROVE GrantInv'
  OBVIOUS
<1>t. run \in [Workers -> Run] /\ started \in [Calls -> Nat]
  BY DEF TypeOK
<1>c. NeedsApproval \subseteq Calls
  BY ToolAssumption
<1>n. \A c \in Calls : NoExecution.approval[c] = "none"
  BY DEF NoExecution
<1>1. CASE UNCHANGED vars \/ ForeignAppend
  BY SMTT(30), <1>1 DEF vars, ForeignAppend, history, GrantInv, ApprovedBeforeStart
<1>2. ASSUME NEW w \in Workers, Start(w) PROVE GrantInv'
  <2>1. UNCHANGED <<started, granted>>
    BY Zenon, <1>2 DEF Start, Create, LoadPaused, LoadForRecovery, LoadForReconcile, history
  <2>2. \A c \in Calls : exec'.approval[c] \in {exec.approval[c], "none"}
    BY <1>2, Created, Loaded DEF Start
  <2>3. \A v \in Workers : \/ run'[v] = run[v]
                           \/ /\ run'[v].ex = exec' /\ run'[v].pc \notin Resuming
                              /\ \A c \in Calls : run'[v].out[c] = "none"
    BY <1>2, Created, Loaded DEF Start, Resuming
  <2> QED
    BY SMTT(30), <2>1, <2>2, <2>3 DEF GrantInv, ApprovedBeforeStart
<1>3. ASSUME NEW w \in Workers, Work(w) PROVE GrantInv'
  <2>1. PICK q \in Run :
          /\ run' = [run EXCEPT ![w] = q]
          /\ Moves(run[w], q)
          /\ \/ exec' = exec /\ q.ex \in {run[w].ex, exec, NoExecution}
             \/ /\ exec.version = run[w].ex.version
                /\ Edits(run[w], exec')
                /\ q.ex \in {run[w].ex, exec', NoExecution}
    BY <1>3, WorkShape DEF Shape
  <2>2. run'[w] = q /\ \A v \in Workers : v = w \/ run'[v] = run[v]
    BY <1>t, <2>1
  <2>3. granted \subseteq granted'
    BY <1>3, WorkHistory, ClaimGrants DEF RunHandler
  <2>4. \A c \in Calls : exec'.approval[c] = "allow" => c \in granted'
    BY <2>1, <2>3 DEF Edits, GrantInv, Resuming
  <2>5. \A c \in Calls : q.ex.approval[c] = "allow" => c \in granted'
    BY <1>n, <2>1, <2>3, <2>4 DEF GrantInv
  <2>6. ASSUME q.pc \in Resuming, NEW c \in Calls, q.answer[c] = "allow"
        PROVE  c \in granted'
    <3>1. run[w].pc \in Resuming \cup {"claim"} /\ run[w].answer[c] = "allow"
      BY <2>1, <2>6 DEF Moves
    <3>2. CASE run[w].pc \in Resuming
      BY <2>3, <3>1, <3>2 DEF GrantInv
    <3>3. CASE run[w].pc = "claim"
      BY SMTT(30), <1>3, <2>2, <2>6, <3>1, <3>3, WorkHistory, ClaimGrants
    <3> QED
      BY <3>1, <3>2, <3>3
  <2>7. ASSUME NEW c \in NeedsApproval, q.out[c] = "claimed"
        PROVE  c \in granted'
    <3>1. run[w].out[c] = "claimed" \/ run[w].ex.approval[c] = "allow"
      BY <1>c, <2>1, <2>7 DEF Moves, Allowed
    <3> QED
      BY <1>c, <2>3, <3>1 DEF GrantInv
  <2>8. ApprovedBeforeStart'
    <3>1. CASE UNCHANGED started
      BY <2>3, <3>1 DEF GrantInv, ApprovedBeforeStart
    <3>2. ASSUME NEW c \in Calls, RunHandler(w, c) PROVE ApprovedBeforeStart'
      <4>1. run[w].out[c] = "claimed" /\ started' = [started EXCEPT ![c] = @ + 1]
        BY <3>2 DEF RunHandler
      <4>2. c \in NeedsApproval => c \in granted
        BY <4>1 DEF GrantInv
      <4>3. \A d \in NeedsApproval : d # c => started'[d] = started[d]
        BY <1>t, <1>c, <4>1
      <4> QED
        BY <2>3, <4>2, <4>3 DEF GrantInv, ApprovedBeforeStart
    <3> QED
      BY SMTT(30), <1>3, <3>1, <3>2, WorkHistory, ClaimGrants
  <2> QED
    BY <2>2, <2>3, <2>4, <2>5, <2>6, <2>7, <2>8 DEF GrantInv
<1>4. ASSUME NEW p, Crash(p) PROVE GrantInv'
  <2>1. /\ exec' = exec /\ UNCHANGED <<started, granted>>
        /\ \A v \in Workers : run'[v] = run[v] \/ run'[v] = Idle
    BY <1>4 DEF Crash, history
  <2> QED
    BY <1>n, <2>1, IdleFields DEF GrantInv, ApprovedBeforeStart, Resuming
<1> QED
  BY <1>1, <1>2, <1>3, <1>4 DEF Next

(* The handler of an approval-required tool starts only after a human      *)
(* allowed that very call in an answer whose claim of the pause was        *)
(* stored: no interleaving of resumes, recoveries, crashes and lost        *)
(* acknowledgements gets past the approval gate of executeCall.            *)
THEOREM Approval == Spec => []ApprovedBeforeStart
<1>1. Init => GrantInv
  BY SMTT(30), ToolAssumption, IdleFields DEF Init, GrantInv, ApprovedBeforeStart, NoExecution, Resuming
<1>2. GrantInv => ApprovedBeforeStart
  BY DEF GrantInv
<1> QED
  BY <1>1, <1>2, GrantStep, TypeSafety, PTL DEF Spec
=============================================================================
