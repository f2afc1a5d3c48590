----------------------------- MODULE EventStream -----------------------------
(***************************************************************************)
(* An invocation's event stream (event.go eventSink and runParallel,       *)
(* engine.go stream, context.go emit): the engine runs on the consumer's   *)
(* goroutine and yields its events directly; parallel tool calls queue     *)
(* theirs, and the engine yields those while it waits for the batch. A     *)
(* goroutine a handler leaves behind may go on emitting: "stray" queues,   *)
(* being of a parallel call, and "loose" yields, being of a sequential     *)
(* one. The consumer may stop at any event. Yielding holds the sink's      *)
(* mutex throughout, so a yield is one step.                               *)
(***************************************************************************)
EXTENDS Naturals, Sequences, FiniteSets

CONSTANTS BatchCalls,  \* the calls of a batch, 1..n
          Limit,       \* WithMaxConcurrentTools, 0 for none
          MaxBatches,  \* bound: parallel batches of the invocation
          MaxSent,     \* bound: events of a call, and of the engine
          MaxStray     \* bound: events of a goroutine left behind

VARIABLES engine,   \* where the consumer's goroutine is
          batch,    \* events taken from the queue and not yet yielded
          queue, wake, stopped, closed,   \* the sink
          call,     \* of each call: "idle", "run", "signal" or "done"
          ran,      \* batches run
          sent,     \* how many events each source has emitted
          seen,     \* how many events of each source the consumer was given
          refused,  \* the consumer returned false
          ended,    \* the consumer was given the end
          orderly   \* every event given was its source's next, and wanted

given == <<seen, refused, ended, orderly>>
evars == <<engine, batch, queue, wake, stopped, closed, call, ran, sent, given>>

Strays == {"stray", "loose"}
Source(c) == <<"call", c>>
Sources == {Source(c) : c \in BatchCalls} \union {<<s, 0>> : s \in Strays \union {"engine"}}

EInit ==
    /\ engine = "start" /\ batch = <<>> /\ queue = <<>> /\ wake = FALSE
    /\ stopped = FALSE /\ closed = FALSE
    /\ call = [c \in BatchCalls |-> "idle"] /\ ran = 0
    /\ sent = [s \in Sources |-> 0] /\ seen = [s \in Sources |-> 0]
    /\ refused = FALSE /\ ended = FALSE /\ orderly = TRUE

Tally(s) == sent' = [sent EXCEPT ![s] = @ + 1]
Event(s) == <<s, sent[s] + 1>>

\* The consumer's loop body, which may break off; the end comes with no source.
Yield(ev) ==
    /\ seen' = [seen EXCEPT ![ev[1]] = @ + 1]
    /\ orderly' = (orderly /\ ~ refused /\ ~ ended /\ ev[2] = seen[ev[1]] + 1)
    /\ refused' \in {TRUE, refused}
    /\ UNCHANGED ended

\* emit: dropped once the sink is stopped or closed.
SinkEmit(ev) ==
    IF stopped \/ closed THEN UNCHANGED <<given, stopped>> ELSE Yield(ev) /\ stopped' = refused'

-----------------------------------------------------------------------------
(* The consumer's goroutine.                                                 *)

Begin ==
    /\ engine = "start" /\ SinkEmit(Event(<<"engine", 0>>)) /\ Tally(<<"engine", 0>>)
    /\ engine' = IF stopped' THEN "close" ELSE "work"
    /\ UNCHANGED <<batch, queue, wake, closed, call, ran>>

\* Model text, tool starts and ends, and what sequential handlers emit.
EngineEmit ==
    /\ engine = "work" /\ sent[<<"engine", 0>>] < MaxSent
    /\ SinkEmit(Event(<<"engine", 0>>)) /\ Tally(<<"engine", 0>>)
    /\ UNCHANGED <<engine, batch, queue, wake, closed, call, ran>>

RunParallel ==
    /\ engine = "work" /\ ran < MaxBatches
    /\ ran' = ran + 1 /\ call' = [c \in BatchCalls |-> "idle"] /\ engine' = "wait"
    /\ UNCHANGED <<batch, queue, wake, stopped, closed, sent, given>>

AllDone == \A c \in BatchCalls : call[c] = "done"

\* The select: a wake-up and the end of the batch in either order.
Woken ==
    /\ engine = "wait" /\ wake /\ wake' = FALSE /\ engine' = "drain"
    /\ UNCHANGED <<batch, queue, stopped, closed, call, ran, sent, given>>
\* Fault: what was queued since the last wake-up is left in the queue.
BatchDoneUndrained ==
    /\ engine = "wait" /\ AllDone /\ engine' = "work"
    /\ UNCHANGED <<batch, queue, wake, stopped, closed, call, ran, sent, given>>
BatchDone ==
    /\ engine = "wait" /\ AllDone /\ engine' = "last drain"
    /\ UNCHANGED <<batch, queue, wake, stopped, closed, call, ran, sent, given>>

Draining == engine \in {"drain", "last drain", "finish"}
AfterDrain == CASE engine = "drain" -> "drained" [] engine = "last drain" -> "work" [] engine = "finish" -> "end"

DrainTake ==
    /\ Draining /\ batch = <<>> /\ batch' = queue /\ queue' = <<>>
    /\ engine' = IF queue = <<>> THEN AfterDrain ELSE engine
    /\ UNCHANGED <<wake, stopped, closed, call, ran, sent, given>>
DrainEmit ==
    /\ Draining /\ batch # <<>>
    /\ SinkEmit(Head(batch)) /\ batch' = Tail(batch)
    /\ UNCHANGED <<engine, queue, wake, closed, call, ran, sent>>
Again ==
    /\ engine = "drained" /\ engine' = "wait"
    /\ UNCHANGED <<batch, queue, wake, stopped, closed, call, ran, sent, given>>

\* The turn is over, as it is soon after the consumer stops.
Finish ==
    /\ engine = "work" /\ engine' = "finish"
    /\ UNCHANGED <<batch, queue, wake, stopped, closed, call, ran, sent, given>>
YieldEnd ==
    /\ engine = "end" /\ engine' = "close" /\ closed' = TRUE
    /\ IF stopped \/ closed THEN UNCHANGED given
       ELSE ended' = TRUE /\ orderly' = (orderly /\ ~ refused /\ ~ ended) /\ UNCHANGED <<seen, refused>>
    /\ UNCHANGED <<batch, queue, wake, stopped, call, ran, sent>>
Close ==
    /\ engine = "close" /\ engine' = "returned" /\ closed' = TRUE
    /\ UNCHANGED <<batch, queue, wake, stopped, call, ran, sent, given>>

EngineStep == Begin \/ EngineEmit \/ RunParallel \/ Woken \/ BatchDone \/ DrainTake \/ DrainEmit
              \/ Again \/ Finish \/ YieldEnd \/ Close

-----------------------------------------------------------------------------
(* Worker goroutines: calls start in index order, at most Limit at once.    *)

Running == {c \in BatchCalls : call[c] \in {"run", "signal"}}
StartCall(c) ==
    /\ engine \in {"wait", "drain", "drained"} /\ call[c] = "idle"
    /\ \A d \in BatchCalls : d < c => call[d] # "idle"
    /\ Limit > 0 => Cardinality(Running) < Limit
    /\ call' = [call EXCEPT ![c] = "run"]
    /\ UNCHANGED <<engine, batch, queue, wake, stopped, closed, ran, sent, given>>

EnqueueOnly(s) == queue' = Append(queue, Event(s)) /\ Tally(s)

CallEnqueue(c) ==
    /\ call[c] = "run" /\ sent[Source(c)] < MaxSent
    /\ EnqueueOnly(Source(c)) /\ call' = [call EXCEPT ![c] = "signal"]
    /\ UNCHANGED <<engine, batch, wake, stopped, closed, ran, given>>

\* Fault: the wake-up is lost unless the engine is waiting for it.
SendWakeUnbuffered == wake' = (wake \/ engine = "wait")
SendWake == wake' = TRUE

CallSignal(c) ==
    /\ call[c] = "signal" /\ SendWake /\ call' = [call EXCEPT ![c] = "run"]
    /\ UNCHANGED <<engine, batch, queue, stopped, closed, ran, sent, given>>
CallReturn(c) ==
    /\ call[c] = "run" /\ call' = [call EXCEPT ![c] = "done"]
    /\ UNCHANGED <<engine, batch, queue, wake, stopped, closed, ran, sent, given>>

\* A goroutine left behind by a call that has returned.
StrayEnqueue ==
    /\ ran > 1 \/ \E c \in BatchCalls : call[c] = "done"
    /\ sent[<<"stray", 0>>] < MaxStray
    /\ EnqueueOnly(<<"stray", 0>>) /\ wake' = TRUE
    /\ UNCHANGED <<engine, batch, stopped, closed, call, ran, given>>
LooseEmit ==
    /\ engine # "start" /\ sent[<<"loose", 0>>] < MaxStray
    /\ SinkEmit(Event(<<"loose", 0>>)) /\ Tally(<<"loose", 0>>)
    /\ UNCHANGED <<engine, batch, queue, wake, closed, call, ran>>

ENext ==
    \/ EngineStep
    \/ \E c \in BatchCalls : StartCall(c) \/ CallEnqueue(c) \/ CallSignal(c) \/ CallReturn(c)
    \/ StrayEnqueue \/ LooseEmit

ESpec == EInit /\ [][ENext]_evars

-----------------------------------------------------------------------------
\* A consumer that keeps going is given every event of the engine and of the
\* calls, each once, a source's in order, and a batch's before anything later;
\* then the end, once and last. One that stopped is given nothing more, nor is
\* anybody once the stream has ended (event.go:248-364, engine.go:112-135).
EventsDelivered ==
    /\ orderly
    /\ ~ refused /\ engine \in {"work", "end", "close", "returned"} =>
           \A c \in BatchCalls : seen[Source(c)] = sent[Source(c)]
    /\ ~ refused => seen[<<"engine", 0>>] = sent[<<"engine", 0>>]
    /\ engine = "returned" => (ended <=> ~ refused)

\* Nothing waits for a handler to return: an event queued while its batch runs
\* is taken to be yielded even if no call of the batch ever ends
\* (event.go:294-321, 354-363; the engine's steps, and sending a wake-up after
\* queueing, are fair, the handlers are not).
QueuedEventsFlow == [](queue # <<>> => <>(queue = <<>> \/ engine = "returned"))
=============================================================================
