------------------------- MODULE EventStreamProofs --------------------------
(***************************************************************************)
(* Delivery of an invocation's events for any batch, concurrency limit and *)
(* number of events. What the consumer was given is tied to what was       *)
(* emitted by what lies between: the queue and the batch being yielded     *)
(* hold exactly the events not yet seen, each source's in order.           *)
(***************************************************************************)
EXTENDS EventStream, TLAPS

Queueing == {Source(c) : c \in BatchCalls} \union {<<"stray", 0>>}
Quiet == {"start", "work", "finish", "end", "close", "returned"}
Open == {"start", "work", "wait", "drain", "drained", "last drain", "finish", "end"}
Shut == {"close", "returned"}

EType ==
  /\ engine \in Open \union Shut
  /\ batch \in Seq(Sources \X Nat) /\ queue \in Seq(Sources \X Nat)
  /\ sent \in [Sources -> Nat] /\ seen \in [Sources -> Nat]
  /\ call \in [BatchCalls -> {"idle", "run", "signal", "done"}]
  /\ stopped \in BOOLEAN /\ closed \in BOOLEAN
  /\ refused \in BOOLEAN /\ ended \in BOOLEAN /\ orderly \in BOOLEAN

\* The flags of the sink agree with what the consumer did and was told.
Flags ==
  /\ orderly /\ (stopped <=> refused)
  /\ engine \in Open => ~ closed /\ ~ ended
  /\ engine \in Shut => (stopped \/ closed) /\ (ended <=> ~ refused)

\* Whoever yields directly has nothing pending.
Direct ==
  /\ ~ refused => seen[<<"engine", 0>>] = sent[<<"engine", 0>>]
  /\ ~ refused /\ ~ closed => seen[<<"loose", 0>>] = sent[<<"loose", 0>>]

\* The events between a queueing source and the consumer.
Pending ==
  /\ \A s \in Queueing : seen[s] <= sent[s]
  /\ \A i \in DOMAIN batch : /\ batch[i][1] \in Queueing
                             /\ seen[batch[i][1]] < batch[i][2] /\ batch[i][2] <= sent[batch[i][1]]
  /\ \A i \in DOMAIN queue : /\ queue[i][1] \in Queueing
                             /\ seen[queue[i][1]] < queue[i][2] /\ queue[i][2] <= sent[queue[i][1]]
  /\ \A i, j \in DOMAIN batch : i < j /\ batch[i][1] = batch[j][1] => batch[i][2] < batch[j][2]
  /\ \A i, j \in DOMAIN queue : i < j /\ queue[i][1] = queue[j][1] => queue[i][2] < queue[j][2]
  /\ \A i \in DOMAIN batch, j \in DOMAIN queue :
        batch[i][1] = queue[j][1] => batch[i][2] < queue[j][2]
  /\ \A s \in Queueing : \A n \in Nat : seen[s] < n /\ n <= sent[s] =>
        \/ \E i \in DOMAIN batch : batch[i][1] = s /\ batch[i][2] = n
        \/ \E i \in DOMAIN queue : queue[i][1] = s /\ queue[i][2] = n

\* Outside a batch no call runs and none of its events is pending.
Settled ==
  /\ engine \in Quiet => \A c \in BatchCalls : call[c] \in {"idle", "done"}
  /\ engine = "last drain" => AllDone
  /\ ~ refused /\ engine \in Quiet => \A c \in BatchCalls : seen[Source(c)] = sent[Source(c)]

EInv == EType /\ Flags /\ Direct /\ (~ refused /\ ~ closed => Pending) /\ Settled

-----------------------------------------------------------------------------
(* The queue.                                                              *)

\* Counting on stays in Nat.
LEMMA Successor == \A n \in Nat : n + 1 \in Nat
OBVIOUS

\* The sources are told apart.
LEMMA SourcesApart ==
  /\ Queueing \subseteq Sources
  /\ \A c \in BatchCalls : Source(c) \in Queueing
  /\ <<"stray", 0>> \in Queueing
  /\ <<"engine", 0>> \in Sources \ Queueing /\ <<"loose", 0>> \in Sources \ Queueing
  /\ <<"engine", 0>> # <<"loose", 0>>
  /\ \A c \in BatchCalls : Source(c) # <<"stray", 0>>
BY DEF Queueing, Sources, Source, Strays

\* Appending to a sequence.
LEMMA Appended ==
  ASSUME NEW S, NEW q \in Seq(S), NEW e \in S
  PROVE  /\ Append(q, e) \in Seq(S) /\ Len(q) \in Nat
         /\ DOMAIN q = 1 .. Len(q) /\ DOMAIN Append(q, e) = 1 .. (Len(q) + 1)
         /\ \A i \in DOMAIN q : Append(q, e)[i] = q[i]
         /\ Append(q, e)[Len(q) + 1] = e
OBVIOUS

\* The first event of a sequence and the others.
LEMMA Beheaded ==
  ASSUME NEW S, NEW q \in Seq(S), q # <<>>
  PROVE  /\ Head(q) = q[1] /\ q[1] \in S /\ Tail(q) \in Seq(S)
         /\ Len(q) \in Nat /\ Len(q) >= 1
         /\ DOMAIN q = 1 .. Len(q) /\ DOMAIN Tail(q) = 1 .. (Len(q) - 1)
         /\ \A i \in DOMAIN Tail(q) : Tail(q)[i] = q[i + 1]
OBVIOUS

\* What lies in the queue are numbered events of sources.
LEMMA EventsTyped ==
  ASSUME EType
  PROVE  /\ \A i \in DOMAIN batch : batch[i][1] \in Sources /\ batch[i][2] \in Nat
         /\ \A i \in DOMAIN queue : queue[i][1] \in Sources /\ queue[i][2] \in Nat
<1>1. \A e \in Sources \X Nat : e[1] \in Sources /\ e[2] \in Nat
  OBVIOUS
<1>2. /\ \A i \in DOMAIN batch : batch[i] \in Sources \X Nat
      /\ \A i \in DOMAIN queue : queue[i] \in Sources \X Nat
  BY DEF EType
<1> QED
  BY <1>1, <1>2

\* sink.enqueue: the new event is its source's last.
LEMMA EnqueuePending ==
  ASSUME EType, Pending, NEW s \in Queueing, EnqueueOnly(s), batch' = batch, seen' = seen
  PROVE  Pending' /\ queue' \in Seq(Sources \X Nat) /\ sent' \in [Sources -> Nat]
<1> DEFINE n == sent[s] + 1
<1>1. s \in Sources /\ n \in Nat /\ sent[s] \in Nat
  BY SMTT(30), SourcesApart DEF EType
<1>2. /\ queue' = Append(queue, <<s, n>>)
      /\ sent' = [sent EXCEPT ![s] = n]
  BY DEF EnqueueOnly, Tally, Event
<1>3. /\ queue' \in Seq(Sources \X Nat) /\ Len(queue) \in Nat
      /\ queue'[Len(queue) + 1] = <<s, n>>
      /\ \A i \in DOMAIN queue : queue'[i] = queue[i]
      /\ DOMAIN queue' = 1 .. (Len(queue) + 1) /\ DOMAIN queue = 1 .. Len(queue)
  <2>1. <<s, n>> \in Sources \X Nat /\ queue \in Seq(Sources \X Nat)
    BY <1>1 DEF EType
  <2> HIDE DEF n
  <2> QED
    BY <1>2, <2>1, Appended
<1>4. /\ sent' \in [Sources -> Nat] /\ sent'[s] = n
      /\ \A t \in Sources : t # s => sent'[t] = sent[t]
      /\ \A t \in Sources : sent[t] <= sent'[t]
  BY <1>1, <1>2 DEF EType
<1>5. <<s, n>>[1] = s /\ <<s, n>>[2] = n
  OBVIOUS
<1> HIDE DEF n
<1> DEFINE l == Len(queue) + 1
<1>6. \A i \in DOMAIN queue' : i = l \/ i \in DOMAIN queue
  BY <1>3
<1>7. \A t \in Queueing : t \in Sources /\ seen'[t] <= sent'[t] /\ seen[t] \in Nat /\ sent[t] \in Nat
  BY SMTT(30), <1>4, SourcesApart DEF Pending, EType
<1>8. \A i \in DOMAIN queue' : /\ queue'[i][1] \in Queueing
                               /\ seen'[queue'[i][1]] < queue'[i][2]
                               /\ queue'[i][2] <= sent'[queue'[i][1]]
  <2>1. seen'[s] < n /\ n <= sent'[s]
    BY <1>1, <1>4, <1>7 DEF Pending, n
  <2>2. \A i \in DOMAIN queue : /\ queue[i][1] \in Queueing
                                /\ seen'[queue[i][1]] < queue[i][2]
                                /\ queue[i][2] <= sent'[queue[i][1]]
    <3> SUFFICES ASSUME NEW i \in DOMAIN queue
                 PROVE  /\ queue[i][1] \in Queueing
                        /\ seen'[queue[i][1]] < queue[i][2]
                        /\ queue[i][2] <= sent'[queue[i][1]]
      OBVIOUS
    <3>1. queue[i][2] \in Nat /\ queue[i][1] \in Queueing
      BY EventsTyped DEF Pending
    <3>2. seen'[queue[i][1]] < queue[i][2] /\ queue[i][2] <= sent[queue[i][1]]
      BY DEF Pending
    <3>3. sent[queue[i][1]] <= sent'[queue[i][1]] /\ sent[queue[i][1]] \in Nat /\ sent'[queue[i][1]] \in Nat
      BY <1>4, <1>7, <3>1
    <3> QED
      BY <3>1, <3>2, <3>3
  <2> QED
    BY <1>3, <1>5, <1>6, <2>1, <2>2
<1>9. \A i \in DOMAIN batch' : /\ batch'[i][1] \in Queueing
                               /\ seen'[batch'[i][1]] < batch'[i][2]
                               /\ batch'[i][2] <= sent'[batch'[i][1]]
  <2> SUFFICES ASSUME NEW i \in DOMAIN batch
               PROVE  /\ batch[i][1] \in Queueing
                      /\ seen[batch[i][1]] < batch[i][2]
                      /\ batch[i][2] <= sent'[batch[i][1]]
    OBVIOUS
  <2>1. batch[i][2] \in Nat /\ batch[i][1] \in Queueing
    BY EventsTyped DEF Pending
  <2> QED
    BY <1>4, <1>7, <2>1 DEF Pending
<1>10. \A i, j \in DOMAIN queue' : i < j /\ queue'[i][1] = queue'[j][1] => queue'[i][2] < queue'[j][2]
  <2> SUFFICES ASSUME NEW i \in DOMAIN queue', NEW j \in DOMAIN queue', i < j,
                      queue'[i][1] = queue'[j][1]
               PROVE  queue'[i][2] < queue'[j][2]
    OBVIOUS
  <2>1. i \in DOMAIN queue
    BY <1>3
  <2>2. CASE j = l
    <3>1. queue[i][1] = s /\ queue[i][2] <= sent[s] /\ queue[i][2] \in Nat /\ queue'[i] = queue[i]
      BY <1>3, <1>5, <2>1, <2>2, EventsTyped DEF Pending
    <3> QED
      BY <1>1, <1>3, <1>5, <2>2, <3>1 DEF n
  <2>3. CASE j \in DOMAIN queue
    BY <1>3, <2>1, <2>3 DEF Pending
  <2> QED
    BY <1>6, <2>2, <2>3
<1>11. \A i \in DOMAIN batch', j \in DOMAIN queue' :
          batch'[i][1] = queue'[j][1] => batch'[i][2] < queue'[j][2]
  <2> SUFFICES ASSUME NEW i \in DOMAIN batch, NEW j \in DOMAIN queue', batch[i][1] = queue'[j][1]
               PROVE  batch[i][2] < queue'[j][2]
    OBVIOUS
  <2>1. CASE j = l
    <3>1. batch[i][1] = s /\ batch[i][2] <= sent[s] /\ batch[i][2] \in Nat
      BY <1>3, <1>5, <2>1, EventsTyped DEF Pending
    <3> QED
      BY SMTT(30), <1>1, <1>3, <1>5, <2>1, <3>1 DEF n
  <2>2. CASE j \in DOMAIN queue
    BY <1>3, <2>2 DEF Pending
  <2> QED
    BY <1>6, <2>1, <2>2
<1>12. \A t \in Queueing : \A m \in Nat : seen'[t] < m /\ m <= sent'[t] =>
          \/ \E i \in DOMAIN batch' : batch'[i][1] = t /\ batch'[i][2] = m
          \/ \E i \in DOMAIN queue' : queue'[i][1] = t /\ queue'[i][2] = m
  <2> SUFFICES ASSUME NEW t \in Queueing, NEW m \in Nat, seen[t] < m, m <= sent'[t]
               PROVE  \/ \E i \in DOMAIN batch : batch[i][1] = t /\ batch[i][2] = m
                      \/ \E i \in DOMAIN queue' : queue'[i][1] = t /\ queue'[i][2] = m
    OBVIOUS
  <2>1. CASE t = s /\ m = n
    BY <1>3, <1>5, <2>1
  <2>2. CASE ~ (t = s /\ m = n)
    <3>1. m <= sent[t]
      BY <1>1, <1>4, <1>7, <2>2 DEF n
    <3>2. \/ \E i \in DOMAIN batch : batch[i][1] = t /\ batch[i][2] = m
          \/ \E i \in DOMAIN queue : queue[i][1] = t /\ queue[i][2] = m
      BY <3>1 DEF Pending
    <3> QED
      BY <1>3, <3>2
  <2> QED
    BY <2>1, <2>2
<1> QED
  BY ZenonT(60), <1>3, <1>4, <1>7, <1>8, <1>9, <1>10, <1>11, <1>12 DEF Pending

\* Nothing that lies in the queue changes.
LEMMA KeepPending ==
  ASSUME Pending, UNCHANGED <<batch, queue, sent, seen>>
  PROVE  Pending'
BY DEF Pending

\* sink.drain takes the queue as its next batch.
LEMMA TakePending ==
  ASSUME Pending, batch = <<>>, batch' = queue, queue' = <<>>, UNCHANGED <<sent, seen>>
  PROVE  Pending'
<1>1. \A i \in DOMAIN batch : FALSE
  OBVIOUS
<1>2. \A i \in DOMAIN queue' : FALSE
  OBVIOUS
<1> QED
  BY <1>1, <1>2 DEF Pending

\* sink.drain yields the head of its batch: its source's next event.
LEMMA YieldPending ==
  ASSUME EType, Pending, batch # <<>>, batch' = Tail(batch), queue' = queue, sent' = sent,
         seen' = [seen EXCEPT ![Head(batch)[1]] = @ + 1]
  PROVE  /\ Head(batch)[1] \in Queueing /\ Head(batch)[2] = seen[Head(batch)[1]] + 1
         /\ Pending'
<1> DEFINE s == batch[1][1]
           n == batch[1][2]
<1>1. /\ Head(batch) = batch[1] /\ Len(batch) \in Nat /\ Len(batch) >= 1
      /\ DOMAIN batch = 1 .. Len(batch) /\ DOMAIN batch' = 1 .. (Len(batch) - 1)
      /\ \A i \in DOMAIN batch' : batch'[i] = batch[i + 1]
  BY Beheaded DEF EType
<1>2. 1 \in DOMAIN batch /\ \A i \in DOMAIN batch' : i + 1 \in DOMAIN batch /\ i \in Nat /\ i >= 1
  BY <1>1
<1>3. s \in Queueing /\ s \in Sources /\ n \in Nat /\ seen[s] < n /\ n <= sent[s]
  BY <1>2, EventsTyped DEF Pending
<1>4. \A t \in Queueing : t \in Sources /\ seen[t] \in Nat /\ sent[t] \in Nat
  BY SourcesApart DEF EType
<1>5. n = seen[s] + 1
  <2>1. seen[s] + 1 \in Nat /\ seen[s] < seen[s] + 1 /\ seen[s] + 1 <= sent[s]
    BY SMTT(30), <1>3, <1>4
  <2>2. \/ \E i \in DOMAIN batch : batch[i][1] = s /\ batch[i][2] = seen[s] + 1
        \/ \E i \in DOMAIN queue : queue[i][1] = s /\ queue[i][2] = seen[s] + 1
    BY SMTT(30), <1>3, <2>1 DEF Pending
  <2>3. ASSUME NEW i \in DOMAIN batch, batch[i][1] = s, batch[i][2] = seen[s] + 1
        PROVE  n = seen[s] + 1
    <3>1. CASE i = 1
      BY <2>3, <3>1
    <3>2. CASE i > 1
      <4>1. n < batch[i][2]
        BY <1>2, <2>3, <3>2 DEF Pending
      <4> QED
        BY <1>3, <1>4, <2>3, <4>1
    <3> QED
      BY <1>1, <3>1, <3>2
  <2>4. ASSUME NEW i \in DOMAIN queue, queue[i][1] = s, queue[i][2] = seen[s] + 1
        PROVE  n = seen[s] + 1
    <3>1. n < queue[i][2]
      BY <1>2, <2>4 DEF Pending
    <3> QED
      BY <1>3, <1>4, <2>4, <3>1
  <2> QED
    BY <2>2, <2>3, <2>4
<1>6. /\ seen'[s] = n /\ \A t \in Sources : t # s => seen'[t] = seen[t]
  BY <1>1, <1>3, <1>5 DEF EType
<1>7. Pending'
  <2>1. \A t \in Queueing : seen'[t] <= sent'[t]
    BY SMTT(30), <1>3, <1>4, <1>6 DEF Pending
  <2>2. \A i \in DOMAIN batch' : /\ batch'[i][1] \in Queueing
                                 /\ seen'[batch'[i][1]] < batch'[i][2]
                                 /\ batch'[i][2] <= sent'[batch'[i][1]]
    <3> SUFFICES ASSUME NEW i \in DOMAIN batch'
                 PROVE  /\ batch[i + 1][1] \in Queueing
                        /\ seen'[batch[i + 1][1]] < batch[i + 1][2]
                        /\ batch[i + 1][2] <= sent'[batch[i + 1][1]]
      BY <1>1
    <3>1. /\ batch[i + 1][1] \in Queueing /\ seen[batch[i + 1][1]] < batch[i + 1][2]
          /\ batch[i + 1][2] <= sent[batch[i + 1][1]]
      BY <1>2 DEF Pending
    <3>2. batch[i + 1][1] = s => n < batch[i + 1][2]
      BY <1>2 DEF Pending
    <3> QED
      BY <1>4, <1>6, <3>1, <3>2
  <2>3. \A i \in DOMAIN queue' : /\ queue'[i][1] \in Queueing
                                 /\ seen'[queue'[i][1]] < queue'[i][2]
                                 /\ queue'[i][2] <= sent'[queue'[i][1]]
    <3> SUFFICES ASSUME NEW i \in DOMAIN queue
                 PROVE  /\ queue[i][1] \in Queueing
                        /\ seen'[queue[i][1]] < queue[i][2]
                        /\ queue[i][2] <= sent[queue[i][1]]
      OBVIOUS
    <3>1. /\ queue[i][1] \in Queueing /\ seen[queue[i][1]] < queue[i][2]
          /\ queue[i][2] <= sent[queue[i][1]]
      BY DEF Pending
    <3>2. queue[i][1] = s => n < queue[i][2]
      BY <1>2 DEF Pending
    <3> QED
      BY <1>4, <1>6, <3>1, <3>2
  <2>4. \A i, j \in DOMAIN batch' : i < j /\ batch'[i][1] = batch'[j][1] => batch'[i][2] < batch'[j][2]
    <3> SUFFICES ASSUME NEW i \in DOMAIN batch', NEW j \in DOMAIN batch', i < j,
                        batch[i + 1][1] = batch[j + 1][1]
                 PROVE  batch[i + 1][2] < batch[j + 1][2]
      BY <1>1
    <3>1. i + 1 \in DOMAIN batch /\ j + 1 \in DOMAIN batch /\ i + 1 < j + 1
      BY <1>2
    <3> QED
      BY <3>1 DEF Pending
  <2>5. \A i, j \in DOMAIN queue' : i < j /\ queue'[i][1] = queue'[j][1] => queue'[i][2] < queue'[j][2]
    BY DEF Pending
  <2>6. \A i \in DOMAIN batch', j \in DOMAIN queue' :
           batch'[i][1] = queue'[j][1] => batch'[i][2] < queue'[j][2]
    BY <1>1, <1>2 DEF Pending
  <2>7. \A t \in Queueing : \A m \in Nat : seen'[t] < m /\ m <= sent'[t] =>
           \/ \E i \in DOMAIN batch' : batch'[i][1] = t /\ batch'[i][2] = m
           \/ \E i \in DOMAIN queue' : queue'[i][1] = t /\ queue'[i][2] = m
    <3> SUFFICES ASSUME NEW t \in Queueing, NEW m \in Nat, seen'[t] < m, m <= sent[t]
                 PROVE  \/ \E i \in DOMAIN batch' : batch'[i][1] = t /\ batch'[i][2] = m
                        \/ \E i \in DOMAIN queue : queue[i][1] = t /\ queue[i][2] = m
      OBVIOUS
    <3>1. seen[t] < m /\ ~ (t = s /\ m = n)
      BY <1>3, <1>4, <1>5, <1>6
    <3>2. \/ \E i \in DOMAIN batch : batch[i][1] = t /\ batch[i][2] = m
          \/ \E i \in DOMAIN queue : queue[i][1] = t /\ queue[i][2] = m
      BY <3>1 DEF Pending
    <3>3. ASSUME NEW i \in DOMAIN batch, batch[i][1] = t, batch[i][2] = m
          PROVE  \E j \in DOMAIN batch' : batch'[j][1] = t /\ batch'[j][2] = m
      <4>1. i # 1 /\ i - 1 \in DOMAIN batch' /\ (i - 1) + 1 = i
        BY <1>1, <3>1, <3>3
      <4> QED
        BY <1>1, <3>3, <4>1
    <3> QED
      BY <3>2, <3>3
  <2> QED
    BY <2>1, <2>2, <2>3, <2>4, <2>5, <2>6, <2>7 DEF Pending
<1> QED
  BY <1>1, <1>3, <1>5, <1>7

\* Who yields directly does not touch the queue.
LEMMA DirectPending ==
  ASSUME EType, Pending, NEW s \in Sources \ Queueing, UNCHANGED <<batch, queue>>,
         \/ seen' = seen
         \/ seen' = [seen EXCEPT ![s] = @ + 1],
         sent' = [sent EXCEPT ![s] = @ + 1]
  PROVE  Pending'
<1>1. \A t \in Queueing : seen'[t] = seen[t] /\ sent'[t] = sent[t]
  BY SMTT(30), SourcesApart DEF EType
<1> QED
  BY <1>1 DEF Pending

-----------------------------------------------------------------------------
(* The inductive invariant.                                                *)

\* A new invocation satisfies it.
LEMMA InitEInv == EInit => EInv
<1> SUFFICES ASSUME EInit PROVE EInv
  OBVIOUS
<1>1. /\ engine = "start" /\ batch = <<>> /\ queue = <<>>
      /\ ~ stopped /\ ~ closed /\ ~ refused /\ ~ ended /\ orderly
      /\ \A t \in Sources : sent[t] = 0 /\ seen[t] = 0
      /\ \A c \in BatchCalls : call[c] = "idle"
  BY DEF EInit
<1>2. EType
  <2>1. batch \in Seq(Sources \X Nat) /\ queue \in Seq(Sources \X Nat)
    BY <1>1
  <2>2. sent \in [Sources -> Nat] /\ seen \in [Sources -> Nat]
    BY DEF EInit
  <2>3. call \in [BatchCalls -> {"idle", "run", "signal", "done"}] /\ engine \in Open
    BY DEF EInit, Open
  <2>4. /\ stopped \in BOOLEAN /\ closed \in BOOLEAN
        /\ refused \in BOOLEAN /\ ended \in BOOLEAN /\ orderly \in BOOLEAN
    BY Zenon DEF EInit
  <2> QED
    BY <2>1, <2>2, <2>3, <2>4, Zenon DEF EType
<1>3. Flags
  <2>1. engine \notin Shut
    BY <1>1 DEF Shut
  <2> QED
    BY <1>1, <2>1, Zenon DEF Flags
<1>4. Direct /\ Settled
  BY <1>1, SourcesApart DEF Direct, Settled, Quiet
<1>5. Pending
  BY <1>1, SourcesApart DEF Pending
<1> QED
  BY <1>2, <1>3, <1>4, <1>5 DEF EInv

\* What was told the consumer, and what the sink knows of it.
told == <<stopped, refused, ended, orderly>>

\* A step that tells the consumer nothing keeps the flags.
LEMMA ToldKept ==
  ASSUME UNCHANGED told
  PROVE  (stopped' <=> stopped) /\ (refused' <=> refused) /\ (ended' <=> ended) /\ (orderly' <=> orderly)
<1>1. stopped' <=> stopped
  BY DEF told
<1>2. refused' <=> refused
  BY DEF told
<1>3. ended' <=> ended
  BY DEF told
<1>4. orderly' <=> orderly
  BY DEF told
<1> QED
  BY <1>1, <1>2, <1>3, <1>4, Zenon

\* A step that touches no event and tells the consumer nothing.
LEMMA Carry ==
  ASSUME EInv, UNCHANGED <<batch, queue, sent, seen>>, UNCHANGED told,
         closed => closed', closed' \in BOOLEAN,
         engine' \in Open \union Shut,
         call' \in [BatchCalls -> {"idle", "run", "signal", "done"}],
         engine' \in Open => engine \in Open /\ ~ closed',
         engine' \in Shut => engine \in Shut,
         engine' \in Quiet => engine \in Quiet,
         engine' \in Quiet => \A c \in BatchCalls : call'[c] \in {"idle", "done"},
         engine' = "last drain" => \A c \in BatchCalls : call'[c] = "done"
  PROVE  EInv'
<1>1. (stopped' <=> stopped) /\ (refused' <=> refused) /\ (ended' <=> ended) /\ (orderly' <=> orderly)
  BY ToldKept
<1>2. EType'
  BY DEF EInv, EType, told
<1>3. Flags'
  BY <1>1, Zenon DEF EInv, Flags
<1>4. Direct'
  <2>1. seen' = seen /\ sent' = sent
    OBVIOUS
  <2> QED
    BY <1>1, <2>1, Zenon DEF EInv, Direct
<1>5. ~ refused' /\ ~ closed' => Pending'
  <2>1. Pending => Pending'
    BY KeepPending
  <2> QED
    BY <1>1, <2>1, Zenon DEF EInv
<1>6. Settled'
  <2>1. seen' = seen /\ sent' = sent
    OBVIOUS
  <2> QED
    BY <1>1, <2>1, Zenon DEF EInv, Settled, AllDone
<1> QED
  BY <1>2, <1>3, <1>4, <1>5, <1>6 DEF EInv

\* sink.emit by a goroutine that yields directly.
LEMMA DirectEmit ==
  ASSUME EInv, NEW s \in {<<"engine", 0>>, <<"loose", 0>>}, SinkEmit(Event(s)), Tally(s),
         UNCHANGED <<batch, queue, closed, call>>,
         s = <<"engine", 0>> => engine \in Open
  PROVE  /\ sent' \in [Sources -> Nat] /\ seen' \in [Sources -> Nat]
         /\ stopped' \in BOOLEAN /\ refused' \in BOOLEAN /\ orderly' \in BOOLEAN
         /\ ended' = ended /\ orderly' /\ (stopped' <=> refused') /\ (refused => refused')
         /\ (stopped \/ closed => refused' = refused)
         /\ Direct' /\ (~ refused' /\ ~ closed' => Pending')
         /\ \A c \in BatchCalls : seen'[Source(c)] = seen[Source(c)] /\ sent'[Source(c)] = sent[Source(c)]
<1>1. s \in Sources \ Queueing /\ \A c \in BatchCalls : Source(c) \in Sources /\ Source(c) # s
  BY SourcesApart
<1>2. sent' = [sent EXCEPT ![s] = @ + 1] /\ sent \in [Sources -> Nat] /\ seen \in [Sources -> Nat]
  BY DEF Tally, EInv, EType
<1>3. Event(s)[1] = s /\ Event(s)[2] = sent[s] + 1
  BY DEF Event
<1>4. /\ stopped \in BOOLEAN /\ refused \in BOOLEAN /\ closed \in BOOLEAN /\ ended \in BOOLEAN
      /\ orderly /\ (stopped <=> refused)
  BY Zenon DEF EInv, EType, Flags
<1>5. CASE stopped \/ closed
  <2>1. seen' = seen /\ refused' = refused /\ ended' = ended /\ orderly' = orderly /\ stopped' = stopped
    BY <1>5 DEF SinkEmit, given
  <2>2. Direct'
    <3>1. CASE refused
      BY <2>1, <3>1, Zenon DEF Direct
    <3>2. CASE ~ refused
      <4>0. closed /\ engine \notin Open
        BY <1>4, <1>5, <3>2, Zenon DEF EInv, Flags
      <4>1. s = <<"loose", 0>>
        BY <4>0, Zenon
      <4>2. sent'[<<"engine", 0>>] = sent[<<"engine", 0>>]
        BY <1>2, <4>1, SourcesApart
      <4> QED
        BY <2>1, <4>0, <4>2, Zenon DEF EInv, Direct
    <3> QED
      BY <3>1, <3>2
  <2>3. ~ refused' /\ ~ closed' => Pending'
    BY Zenon, <1>1, <1>2, <2>1, DirectPending DEF EInv
  <2> QED
    BY <1>1, <1>2, <1>4, <2>1, <2>2, <2>3
<1>6. CASE ~ stopped /\ ~ closed
  <2>1. Yield(Event(s)) /\ stopped' = refused'
    BY <1>6 DEF SinkEmit
  <2>2. seen' = [seen EXCEPT ![s] = @ + 1] /\ ended' = ended /\ refused' \in {TRUE, refused}
    BY Zenon, <1>3, <2>1 DEF Yield
  <2>3. ~ ended
    BY <1>4, <1>6 DEF EInv, EType, Flags, Open
  <2>4. seen[s] = sent[s]
    BY <1>4, <1>6 DEF EInv, Direct
  <2>5. orderly' = TRUE
    BY Zenon, <1>3, <1>4, <1>6, <2>1, <2>3, <2>4 DEF Yield
  <2>6. Direct'
    BY <1>1, <1>2, <1>4, <1>6, <2>2, <2>4, SourcesApart DEF EInv, Direct
  <2>7. ~ refused' /\ ~ closed' => Pending'
    BY Zenon, <1>1, <1>2, <1>4, <1>6, <2>2, DirectPending DEF EInv
  <2>8. /\ sent' \in [Sources -> Nat] /\ seen' \in [Sources -> Nat]
        /\ \A c \in BatchCalls : seen'[Source(c)] = seen[Source(c)] /\ sent'[Source(c)] = sent[Source(c)]
    BY <1>1, <1>2, <2>2
  <2>9. refused' \in BOOLEAN /\ stopped' \in BOOLEAN /\ orderly' \in BOOLEAN /\ (refused => refused')
    BY <1>4, <2>1, <2>2, <2>5, Zenon
  <2> QED
    BY <1>6, <2>1, <2>2, <2>5, <2>6, <2>7, <2>8, <2>9, Zenon
<1> QED
  BY <1>5, <1>6

\* sink.enqueue by a call or by what it left behind.
LEMMA EnqueueStep ==
  ASSUME EInv, NEW s \in Queueing, EnqueueOnly(s), UNCHANGED <<engine, batch, stopped, closed, given>>,
         call' \in [BatchCalls -> {"idle", "run", "signal", "done"}],
         \/ s = <<"stray", 0>> /\ call' = call
         \/ engine \notin Quiet /\ engine # "last drain"
  PROVE  EInv'
<1>1. UNCHANGED <<seen, refused, ended, orderly>>
  BY DEF given
<1>2. s \in Sources /\ sent' = [sent EXCEPT ![s] = @ + 1] /\ queue' = Append(queue, <<s, sent[s] + 1>>)
  BY SourcesApart DEF EnqueueOnly, Tally, Event
<1>3. sent \in [Sources -> Nat] /\ queue \in Seq(Sources \X Nat) /\ <<s, sent[s] + 1>> \in Sources \X Nat
  <2>1. sent \in [Sources -> Nat] /\ queue \in Seq(Sources \X Nat)
    BY DEF EInv, EType
  <2>2. sent[s] \in Nat
    BY <1>2, <2>1, Zenon
  <2>3. sent[s] + 1 \in Nat
    BY <2>2, Successor, Zenon
  <2> QED
    BY <1>2, <2>1, <2>3
<1>4. sent' \in [Sources -> Nat] /\ queue' \in Seq(Sources \X Nat)
  <2>1. sent' \in [Sources -> Nat]
    BY <1>2, <1>3
  <2>2. queue' \in Seq(Sources \X Nat)
    BY <1>2, <1>3, Appended
  <2> QED
    BY <2>1, <2>2
<1>5. EType'
  BY <1>1, <1>4 DEF EInv, EType
<1>6. Flags'
  BY <1>1 DEF EInv, Flags
<1>7. Direct'
  BY <1>1, <1>2, <1>3, SourcesApart DEF EInv, Direct
<1>8. ~ refused' /\ ~ closed' => Pending'
  BY <1>1, EnqueuePending DEF EInv
<1>9. Settled'
  <2>1. CASE s = <<"stray", 0>> /\ call' = call
    <3>1. \A c \in BatchCalls : sent'[Source(c)] = sent[Source(c)]
      BY <1>2, <1>3, <2>1, SourcesApart
    <3> QED
      BY <1>1, <2>1, <3>1 DEF EInv, Settled, AllDone
  <2>2. CASE engine \notin Quiet /\ engine # "last drain"
    BY <1>1, <2>2 DEF Settled
  <2> QED
    BY <2>1, <2>2
<1> QED
  BY <1>5, <1>6, <1>7, <1>8, <1>9 DEF EInv

\* Who is where: the goroutine's places are told apart.
LEMMA Places ==
  /\ {"start", "work", "end", "finish"} \subseteq Open \intersect Quiet
  /\ {"wait", "drain", "drained", "last drain"} \subseteq Open \ Quiet
  /\ Shut \subseteq Quiet /\ Shut \intersect Open = {}
  /\ "close" \in Shut /\ "returned" \in Shut
BY DEF Open, Quiet, Shut

\* Begin, EngineEmit and LooseEmit.
LEMMA DirectStep ==
  ASSUME EInv, NEW s \in {<<"engine", 0>>, <<"loose", 0>>}, SinkEmit(Event(s)), Tally(s),
         UNCHANGED <<batch, queue, closed, call>>,
         s = <<"engine", 0>> => engine \in Open,
         \/ engine' = engine
         \/ engine = "start" /\ stopped' /\ engine' = "close"
         \/ engine = "start" /\ engine' = "work"
  PROVE  EInv'
<1>1. /\ sent' \in [Sources -> Nat] /\ seen' \in [Sources -> Nat]
      /\ stopped' \in BOOLEAN /\ refused' \in BOOLEAN /\ orderly' \in BOOLEAN
      /\ ended' = ended /\ orderly' /\ (stopped' <=> refused') /\ (refused => refused')
      /\ (stopped \/ closed => refused' = refused)
      /\ Direct' /\ (~ refused' /\ ~ closed' => Pending')
      /\ \A c \in BatchCalls : seen'[Source(c)] = seen[Source(c)] /\ sent'[Source(c)] = sent[Source(c)]
  BY DirectEmit
<1>2. engine' \in Open \union Shut
  BY Places DEF EInv, EType
<1>3. EType'
  <2>1. /\ batch' \in Seq(Sources \X Nat) /\ queue' \in Seq(Sources \X Nat)
        /\ call' \in [BatchCalls -> {"idle", "run", "signal", "done"}]
    BY DEF EInv, EType
  <2>2. closed' \in BOOLEAN /\ ended' \in BOOLEAN
    BY <1>1 DEF EInv, EType
  <2> QED
    BY <1>1, <1>2, <2>1, <2>2, Zenon DEF EType
<1>4. (ended' <=> ended) /\ (closed' <=> closed)
  <2>1. ended' <=> ended
    BY <1>1
  <2>2. closed' <=> closed
    OBVIOUS
  <2> QED
    BY <2>1, <2>2
<1>5. stopped \/ closed => (refused' <=> refused)
  BY <1>1
<1>6. Flags'
  <2>1. CASE engine' = engine
    <3>1. engine' \in Open => ~ closed' /\ ~ ended'
      BY <1>4, <2>1, Zenon DEF EInv, Flags
    <3>2. engine' \in Shut => (stopped' \/ closed') /\ (ended' <=> ~ refused')
      BY <1>1, <1>4, <1>5, <2>1, Zenon DEF EInv, Flags
    <3> QED
      BY <1>1, <3>1, <3>2, Zenon DEF Flags
  <2>2. CASE engine = "start" /\ stopped' /\ engine' = "close"
    <3>1. ~ ended'
      BY <1>4, <2>2, Places, Zenon DEF EInv, Flags
    <3>2. engine' \notin Open
      BY <2>2, Places
    <3> QED
      BY <1>1, <2>2, <3>1, <3>2, Zenon DEF Flags
  <2>3. CASE engine = "start" /\ engine' = "work"
    <3>1. ~ ended' /\ ~ closed'
      BY <1>4, <2>3, Places, Zenon DEF EInv, Flags
    <3>2. engine' \notin Shut
      BY <2>3, Places
    <3> QED
      BY <1>1, <3>1, <3>2, Zenon DEF Flags
  <2> QED
    BY <2>1, <2>2, <2>3
<1>7. Settled'
  <2>1. (engine' \in Quiet => engine \in Quiet) /\ (engine' = "last drain" => engine = "last drain")
    BY Places
  <2>2. call' = call
    OBVIOUS
  <2> QED
    BY <1>1, <2>1, <2>2, Zenon DEF EInv, Settled, AllDone
<1> QED
  BY <1>1, <1>3, <1>6, <1>7, Zenon DEF EInv

\* sink.drain yields an event, or drops it once the consumer has stopped.
LEMMA DrainEmitStep ==
  ASSUME EInv, DrainEmit
  PROVE  EInv'
<1> DEFINE ev == Head(batch)
<1>1. /\ engine \in Open /\ engine' = engine /\ engine \notin Shut
      /\ engine \in Quiet => engine = "finish"
  BY DEF DrainEmit, Draining, Open, Shut, Quiet
<1>2. /\ batch # <<>> /\ batch' = Tail(batch) /\ queue' = queue /\ sent' = sent /\ call' = call
      /\ closed' = closed /\ SinkEmit(ev)
  BY DEF DrainEmit
<1>3. batch' \in Seq(Sources \X Nat) /\ ev \in Sources \X Nat
  BY SMTT(30), <1>2, Beheaded DEF EInv, EType
<1>4. ~ closed /\ ~ ended /\ orderly /\ (stopped <=> refused)
  BY <1>1, Zenon DEF EInv, Flags
<1>5. CASE stopped
  <2>1. UNCHANGED told /\ seen' = seen
    BY <1>2, <1>5 DEF SinkEmit, given, told
  <2>2. (stopped' <=> stopped) /\ (refused' <=> refused) /\ (ended' <=> ended) /\ (orderly' <=> orderly)
    BY <2>1, ToldKept
  <2>3. refused'
    BY <1>4, <1>5, <2>2, Zenon
  <2>4. EType'
    <3>1. /\ sent' \in [Sources -> Nat] /\ seen' \in [Sources -> Nat] /\ queue' \in Seq(Sources \X Nat)
          /\ call' \in [BatchCalls -> {"idle", "run", "signal", "done"}] /\ engine' \in Open \union Shut
      BY <1>1, <1>2, <2>1 DEF EInv, EType
    <3>2. /\ stopped' \in BOOLEAN /\ closed' \in BOOLEAN
          /\ refused' \in BOOLEAN /\ ended' \in BOOLEAN /\ orderly' \in BOOLEAN
      BY <1>2, <2>1 DEF EInv, EType, told
    <3> QED
      BY <1>3, <3>1, <3>2, Zenon DEF EType
  <2>5. Flags'
    BY <1>1, <1>2, <1>4, <2>2, Zenon DEF Flags
  <2>6. Settled'
    BY <1>1, <1>2, <2>3, Zenon DEF EInv, Settled, AllDone
  <2> QED
    BY <2>3, <2>4, <2>5, <2>6, Zenon DEF EInv, Direct
<1>6. CASE ~ stopped
  <2>1. Yield(ev) /\ stopped' = refused'
    BY <1>2, <1>4, <1>6, Zenon DEF SinkEmit
  <2>2. seen' = [seen EXCEPT ![ev[1]] = @ + 1] /\ ended' = ended /\ refused' \in {TRUE, refused}
    BY Zenon, <2>1 DEF Yield
  <2>3. Pending
    BY <1>4, <1>6, Zenon DEF EInv
  <2>4. ev[1] \in Queueing /\ ev[2] = seen[ev[1]] + 1 /\ Pending'
    BY <1>2, <2>2, <2>3, YieldPending DEF EInv
  <2>5. orderly'
    <3>1. orderly' = (orderly /\ ~ refused /\ ~ ended /\ ev[2] = seen[ev[1]] + 1)
      BY <2>1 DEF Yield
    <3>2. orderly /\ ~ refused /\ ~ ended /\ ev[2] = seen[ev[1]] + 1
      BY <1>4, <1>6, <2>4, Zenon
    <3> QED
      BY Zenon, <3>1, <3>2
  <2>6. /\ stopped' \in BOOLEAN /\ closed' \in BOOLEAN
        /\ refused' \in BOOLEAN /\ ended' \in BOOLEAN /\ orderly' \in BOOLEAN
    <3>1. refused' \in BOOLEAN /\ stopped' \in BOOLEAN
      BY Zenon, <2>1, <2>2 DEF EInv, EType
    <3>2. closed' \in BOOLEAN /\ ended' \in BOOLEAN
      BY <1>2, <2>2 DEF EInv, EType
    <3>3. orderly' \in BOOLEAN
      BY <2>1 DEF Yield
    <3> QED
      BY <3>1, <3>2, <3>3
  <2>7. /\ seen' \in [Sources -> Nat] /\ sent' \in [Sources -> Nat] /\ queue' \in Seq(Sources \X Nat)
        /\ call' \in [BatchCalls -> {"idle", "run", "signal", "done"}] /\ engine' \in Open \union Shut
        /\ \A t \in Sources : t # ev[1] => seen'[t] = seen[t]
    <3>1. ev[1] \in Sources /\ seen \in [Sources -> Nat]
      BY <2>4, SourcesApart DEF EInv, EType
    <3>2. seen' \in [Sources -> Nat] /\ \A t \in Sources : t # ev[1] => seen'[t] = seen[t]
      BY <2>2, <3>1
    <3>3. /\ sent' \in [Sources -> Nat] /\ queue' \in Seq(Sources \X Nat)
          /\ call' \in [BatchCalls -> {"idle", "run", "signal", "done"}] /\ engine' \in Open \union Shut
      BY <1>1, <1>2 DEF EInv, EType
    <3> QED
      BY <3>2, <3>3
  <2>8. EType'
    BY <1>3, <2>6, <2>7, Zenon DEF EType
  <2>9. Flags'
    <3>1. (stopped' <=> refused') /\ ~ ended' /\ ~ closed'
      BY <1>2, <1>4, <2>1, <2>2
    <3> QED
      BY <1>1, <2>5, <3>1, Zenon DEF Flags
  <2>10. Direct'
    <3>1. /\ seen'[<<"engine", 0>>] = seen[<<"engine", 0>>] /\ sent'[<<"engine", 0>>] = sent[<<"engine", 0>>]
          /\ seen'[<<"loose", 0>>] = seen[<<"loose", 0>>] /\ sent'[<<"loose", 0>>] = sent[<<"loose", 0>>]
      BY SMTT(30), <1>2, <2>4, <2>7, SourcesApart
    <3>2. ~ refused
      BY <1>4, <1>6, Zenon
    <3> QED
      BY <1>4, <3>1, <3>2, Zenon DEF EInv, Direct
  <2>11. Settled'
    <3>1. ASSUME engine \in Quiet, NEW c \in BatchCalls
          PROVE  call[c] \in {"idle", "done"} /\ seen'[Source(c)] = sent'[Source(c)]
      <4>1. seen[Source(c)] = sent[Source(c)] /\ call[c] \in {"idle", "done"} /\ Source(c) \in Queueing
        BY <1>4, <1>6, <3>1, SourcesApart, Zenon DEF EInv, Settled
      <4>2. Source(c) # ev[1]
        <5>1. 1 \in DOMAIN batch /\ ev = batch[1]
          BY <1>2, Beheaded DEF EInv, EType
        <5>2. seen[ev[1]] < ev[2] /\ ev[2] <= sent[ev[1]] /\ ev[2] \in Nat
          BY <1>3, <2>3, <5>1 DEF Pending
        <5>3. seen[Source(c)] \in Nat
          BY SourcesApart DEF EInv, EType
        <5> HIDE DEF ev
        <5> QED
          BY <4>1, <5>2, <5>3
      <4> QED
        BY SMTT(30), <1>2, <2>7, <4>1, <4>2, SourcesApart
    <3>2. engine' = "last drain" => \A c \in BatchCalls : call[c] = "done"
      BY <1>1, Zenon DEF EInv, Settled, AllDone
    <3> QED
      BY <1>1, <1>2, <3>1, <3>2, Zenon DEF Settled, AllDone
  <2> QED
    BY <2>4, <2>8, <2>9, <2>10, <2>11, Zenon DEF EInv
<1> QED
  BY <1>5, <1>6

\* sink.drain takes the next batch, or finds the queue empty and is done.
LEMMA DrainTakeStep ==
  ASSUME EInv, DrainTake
  PROVE  EInv'
<1>1. /\ batch = <<>> /\ batch' = queue /\ queue' = <<>> /\ sent' = sent /\ call' = call /\ closed' = closed
      /\ UNCHANGED told /\ seen' = seen
  BY DEF DrainTake, told, given
<1>2. /\ engine \in Open /\ engine' \in Open /\ engine' \notin Shut
      /\ engine' = "last drain" => engine = "last drain"
      /\ engine' \in Quiet => (engine = "last drain" /\ queue = <<>>) \/ engine \in Quiet
  BY DEF DrainTake, Draining, AfterDrain, Open, Quiet, Shut
<1>3. (stopped' <=> stopped) /\ (refused' <=> refused) /\ (ended' <=> ended) /\ (orderly' <=> orderly)
  BY <1>1, ToldKept
<1>4. EType'
  <2>1. /\ sent' \in [Sources -> Nat] /\ seen' \in [Sources -> Nat]
        /\ batch' \in Seq(Sources \X Nat) /\ queue' \in Seq(Sources \X Nat)
        /\ call' \in [BatchCalls -> {"idle", "run", "signal", "done"}] /\ engine' \in Open \union Shut
    BY <1>1, <1>2 DEF EInv, EType
  <2>2. /\ stopped' \in BOOLEAN /\ closed' \in BOOLEAN
        /\ refused' \in BOOLEAN /\ ended' \in BOOLEAN /\ orderly' \in BOOLEAN
    BY <1>1 DEF EInv, EType, told
  <2> QED
    BY <2>1, <2>2, Zenon DEF EType
<1>5. ~ closed' /\ ~ closed /\ ~ ended /\ orderly /\ (stopped <=> refused)
  BY <1>1, <1>2, Zenon DEF EInv, Flags
<1>6. Flags'
  BY <1>2, <1>3, <1>5, Zenon DEF Flags
<1>7. Direct'
  BY <1>1, <1>3, <1>5, Zenon DEF EInv, Direct
<1>8. ~ refused' => Pending /\ Pending'
  <2>1. Pending => Pending'
    BY <1>1, TakePending
  <2> QED
    BY <1>3, <1>5, <2>1, Zenon DEF EInv
<1>9. Settled'
  <2>1. engine' \in Quiet => \A c \in BatchCalls : call'[c] \in {"idle", "done"}
    BY <1>1, <1>2, Zenon DEF EInv, Settled, AllDone
  <2>2. engine' = "last drain" => \A c \in BatchCalls : call'[c] = "done"
    BY <1>1, <1>2, Zenon DEF EInv, Settled, AllDone
  <2>3. ASSUME ~ refused', engine' \in Quiet, NEW c \in BatchCalls
        PROVE  seen'[Source(c)] = sent'[Source(c)]
    <3>1. CASE engine \in Quiet
      BY <1>1, <1>3, <2>3, <3>1, Zenon DEF EInv, Settled
    <3>2. CASE queue = <<>>
      <4>1. Pending /\ Source(c) \in Queueing
        BY <1>8, <2>3, SourcesApart, Zenon
      <4>2. /\ seen[Source(c)] <= sent[Source(c)]
            /\ \A n \in Nat : ~ (seen[Source(c)] < n /\ n <= sent[Source(c)])
        BY <1>1, <3>2, <4>1 DEF Pending
      <4>3. seen[Source(c)] \in Nat /\ sent[Source(c)] \in Nat
        BY <4>1, SourcesApart DEF EInv, EType
      <4>4. seen[Source(c)] = sent[Source(c)]
        BY <4>2, <4>3
      <4> QED
        BY <1>1, <4>4
    <3> QED
      BY <1>2, <2>3, <3>1, <3>2, Zenon
  <2> QED
    BY <2>1, <2>2, <2>3, Zenon DEF Settled, AllDone
<1> QED
  BY <1>4, <1>5, <1>6, <1>7, <1>8, <1>9, Zenon DEF EInv

\* yieldEnd: the end is given to a consumer that went on, and the sink closes.
LEMMA YieldEndStep ==
  ASSUME EInv, YieldEnd
  PROVE  EInv'
<1>1. /\ engine = "end" /\ engine' = "close" /\ closed' = TRUE
      /\ UNCHANGED <<batch, queue, sent, call>> /\ stopped' = stopped /\ seen' = seen /\ refused' = refused
  BY DEF YieldEnd, given
<1>2. engine \in Open /\ engine \in Quiet /\ engine' \in Shut /\ engine' \notin Open /\ engine' # "last drain"
  BY <1>1, Places
<1>3. ~ closed /\ ~ ended /\ orderly /\ (stopped <=> refused)
  BY <1>2, Zenon DEF EInv, Flags
<1>4. (stopped' <=> stopped) /\ (refused' <=> refused) /\ closed'
  <2>1. stopped' <=> stopped
    BY <1>1
  <2>2. refused' <=> refused
    BY <1>1
  <2> QED
    BY <1>1, <2>1, <2>2
<1>5. ended' \in BOOLEAN /\ orderly' \in BOOLEAN /\ orderly' /\ (ended' <=> ~ refused')
  <2>1. CASE stopped
    <3>1. ended' = ended /\ orderly' = orderly
      BY <2>1 DEF YieldEnd, given
    <3>2. (ended' <=> ended) /\ (orderly' <=> orderly)
      BY <3>1
    <3>3. ended' \in BOOLEAN /\ orderly' \in BOOLEAN
      BY <3>1 DEF EInv, EType
    <3> QED
      BY <1>3, <1>4, <2>1, <3>2, <3>3, Zenon
  <2>2. CASE ~ stopped
    <3>1. ended' = TRUE /\ orderly' = (orderly /\ ~ refused /\ ~ ended)
      BY <1>3, <2>2, Zenon DEF YieldEnd
    <3>2. orderly /\ ~ refused /\ ~ ended
      BY <1>3, <2>2, Zenon
    <3>3. orderly' /\ orderly' \in BOOLEAN
      BY <3>1, <3>2
    <3>4. ended' /\ ended' \in BOOLEAN
      BY <3>1, Zenon
    <3> QED
      BY <1>4, <3>2, <3>3, <3>4, Zenon
  <2> QED
    BY <2>1, <2>2
<1>6. EType'
  <2>1. /\ sent' \in [Sources -> Nat] /\ seen' \in [Sources -> Nat]
        /\ batch' \in Seq(Sources \X Nat) /\ queue' \in Seq(Sources \X Nat)
        /\ call' \in [BatchCalls -> {"idle", "run", "signal", "done"}] /\ engine' \in Open \union Shut
    BY <1>1, <1>2 DEF EInv, EType
  <2>2. stopped' \in BOOLEAN /\ closed' \in BOOLEAN /\ refused' \in BOOLEAN
    BY <1>1 DEF EInv, EType
  <2> QED
    BY <1>5, <2>1, <2>2, Zenon DEF EType
<1>7. Flags'
  BY <1>2, <1>3, <1>4, <1>5, Zenon DEF Flags
<1>8. Direct'
  <2>1. seen' = seen /\ sent' = sent
    BY <1>1
  <2> QED
    BY <1>4, <2>1, Zenon DEF EInv, Direct
<1>9. Settled'
  <2>1. seen' = seen /\ sent' = sent /\ call' = call
    BY <1>1
  <2> QED
    BY <1>2, <1>4, <2>1, Zenon DEF EInv, Settled
<1> QED
  BY <1>4, <1>6, <1>7, <1>8, <1>9, Zenon DEF EInv

\* The engine moves between two places of a running invocation.
LEMMA EngineMoves ==
  ASSUME EInv, UNCHANGED <<batch, queue, sent, seen>>, UNCHANGED told, UNCHANGED closed,
         engine \in Open, engine' \in Open, engine' \in Quiet => engine \in Quiet,
         call' \in [BatchCalls -> {"idle", "run", "signal", "done"}],
         engine' \in Quiet => \A c \in BatchCalls : call'[c] \in {"idle", "done"},
         engine' = "last drain" => \A c \in BatchCalls : call'[c] = "done"
  PROVE  EInv'
<1>1. ~ closed
  BY Zenon DEF EInv, Flags
<1>2. closed' \in BOOLEAN /\ ~ closed'
  BY <1>1 DEF EInv, EType
<1>3. engine' \notin Shut
  BY Places
<1> QED
  BY <1>1, <1>2, <1>3, Carry

\* The steps of the consumer's goroutine.
LEMMA EngineStepEInv ==
  ASSUME EInv, EngineStep
  PROVE  EInv'
<1>0. <<"engine", 0>> \in {<<"engine", 0>>, <<"loose", 0>>}
  OBVIOUS
<1>1. CASE Begin
  <2>1. /\ engine = "start" /\ engine \in Open
        /\ SinkEmit(Event(<<"engine", 0>>)) /\ Tally(<<"engine", 0>>)
        /\ UNCHANGED <<batch, queue, closed, call>>
    BY <1>1, Places DEF Begin
  <2>2. (stopped' /\ engine' = "close") \/ engine' = "work"
    BY <1>1 DEF Begin
  <2> QED
    BY <1>0, <2>1, <2>2, DirectStep, Zenon
<1>2. CASE EngineEmit
  <2>1. /\ engine' = engine /\ engine \in Open
        /\ SinkEmit(Event(<<"engine", 0>>)) /\ Tally(<<"engine", 0>>)
        /\ UNCHANGED <<batch, queue, closed, call>>
    BY <1>2, Places DEF EngineEmit
  <2> QED
    BY <1>0, <2>1, DirectStep, Zenon
<1>3. CASE RunParallel
  <2>1. UNCHANGED <<batch, queue, sent, seen>> /\ UNCHANGED told /\ UNCHANGED closed
    BY <1>3 DEF RunParallel, told, given
  <2>2. /\ engine \in Open /\ engine' \in Open /\ engine' \notin Quiet /\ engine' # "last drain"
        /\ call' \in [BatchCalls -> {"idle", "run", "signal", "done"}]
    BY <1>3, Places DEF RunParallel
  <2> QED
    BY <2>1, <2>2, EngineMoves, Zenon
<1>4. CASE Woken \/ Again
  <2>1. UNCHANGED <<batch, queue, sent, seen>> /\ UNCHANGED told /\ UNCHANGED closed
    BY <1>4 DEF Woken, Again, told, given
  <2>2. /\ engine \in Open /\ engine' \in Open /\ engine' \notin Quiet /\ engine' # "last drain"
        /\ call' \in [BatchCalls -> {"idle", "run", "signal", "done"}]
    BY <1>4, Places DEF Woken, Again, EInv, EType
  <2> QED
    BY <2>1, <2>2, EngineMoves, Zenon
<1>5. CASE BatchDone
  <2>1. UNCHANGED <<batch, queue, sent, seen>> /\ UNCHANGED told /\ UNCHANGED closed
    BY <1>5 DEF BatchDone, told, given
  <2>2. /\ engine \in Open /\ engine' \in Open /\ engine' \notin Quiet
        /\ call' \in [BatchCalls -> {"idle", "run", "signal", "done"}]
        /\ \A c \in BatchCalls : call'[c] = "done"
    BY <1>5, Places DEF BatchDone, AllDone, EInv, EType
  <2> QED
    BY <2>1, <2>2, EngineMoves, Zenon
<1>6. CASE DrainTake
  BY <1>6, DrainTakeStep
<1>7. CASE DrainEmit
  BY <1>7, DrainEmitStep
<1>8. CASE Finish
  <2>1. UNCHANGED <<batch, queue, sent, seen>> /\ UNCHANGED told /\ UNCHANGED closed
    BY <1>8 DEF Finish, told, given
  <2>2. /\ engine \in Open /\ engine' \in Open /\ engine \in Quiet /\ engine' # "last drain"
        /\ call' = call /\ call' \in [BatchCalls -> {"idle", "run", "signal", "done"}]
    BY <1>8, Places DEF Finish, EInv, EType
  <2>3. \A c \in BatchCalls : call'[c] \in {"idle", "done"}
    BY <2>2, Zenon DEF EInv, Settled
  <2> QED
    BY <2>1, <2>2, <2>3, EngineMoves, Zenon
<1>9. CASE YieldEnd
  BY <1>9, YieldEndStep
<1>10. CASE Close
  <2>1. UNCHANGED <<batch, queue, sent, seen>> /\ UNCHANGED told
    BY <1>10 DEF Close, told, given
  <2>2. closed' /\ closed' \in BOOLEAN
    BY <1>10, Zenon DEF Close
  <2>3. /\ engine \in Shut /\ engine' \in Shut /\ engine' \notin Open /\ engine \in Quiet
        /\ engine' # "last drain" /\ engine' \in Open \union Shut
        /\ call' = call /\ call' \in [BatchCalls -> {"idle", "run", "signal", "done"}]
    BY <1>10, Places DEF Close, EInv, EType
  <2>4. \A c \in BatchCalls : call'[c] \in {"idle", "done"}
    BY <2>3, Zenon DEF EInv, Settled
  <2> QED
    BY <2>1, <2>2, <2>3, <2>4, Carry, Zenon
<1> QED
  BY <1>1, <1>2, <1>3, <1>4, <1>5, <1>6, <1>7, <1>8, <1>9, <1>10 DEF EngineStep

\* The steps of the calls' goroutines.
LEMMA CallEInv ==
  ASSUME EInv, NEW c \in BatchCalls,
         StartCall(c) \/ CallEnqueue(c) \/ CallSignal(c) \/ CallReturn(c)
  PROVE  EInv'
<1>1. /\ engine' = engine
      /\ call' \in [BatchCalls -> {"idle", "run", "signal", "done"}]
  BY Zenon DEF StartCall, CallEnqueue, CallSignal, CallReturn, EInv, EType
<1>2. engine \notin Quiet /\ engine # "last drain"
  <2>1. CASE StartCall(c)
    BY <2>1, Places DEF StartCall
  <2>2. CASE call[c] \in {"run", "signal"}
    <3>1. ~ (call[c] \in {"idle", "done"}) /\ call[c] # "done"
      BY <2>2
    <3> QED
      BY <3>1, Zenon DEF EInv, Settled, AllDone
  <2> QED
    BY <2>1, <2>2 DEF CallEnqueue, CallSignal, CallReturn
<1>3. engine \in Open
  BY <1>2, Places DEF EInv, EType
<1>4. CASE CallEnqueue(c)
  <2>1. Source(c) \in Queueing /\ EnqueueOnly(Source(c)) /\ UNCHANGED <<engine, batch, stopped, closed, given>>
    BY <1>4, SourcesApart DEF CallEnqueue, given
  <2> QED
    BY <1>1, <1>2, <2>1, EnqueueStep
<1>5. CASE StartCall(c) \/ CallSignal(c) \/ CallReturn(c)
  <2>1. UNCHANGED <<batch, queue, sent, seen>> /\ UNCHANGED told /\ UNCHANGED closed
    BY <1>5 DEF StartCall, CallSignal, CallReturn, told, given
  <2> QED
    BY <1>1, <1>2, <1>3, <2>1, EngineMoves, Zenon
<1> QED
  BY <1>4, <1>5

\* Every step of the stream keeps the invariant.
LEMMA NextEInv == EInv /\ [ENext]_evars => EInv'
<1> SUFFICES ASSUME EInv, [ENext]_evars PROVE EInv'
  OBVIOUS
<1>1. CASE EngineStep
  BY <1>1, EngineStepEInv
<1>2. ASSUME NEW c \in BatchCalls, StartCall(c) \/ CallEnqueue(c) \/ CallSignal(c) \/ CallReturn(c)
      PROVE  EInv'
  BY <1>2, CallEInv
<1>3. CASE StrayEnqueue
  <2>1. /\ <<"stray", 0>> \in Queueing /\ EnqueueOnly(<<"stray", 0>>) /\ call' = call
        /\ UNCHANGED <<engine, batch, stopped, closed, given>>
    BY <1>3, SourcesApart DEF StrayEnqueue, given
  <2>2. call' \in [BatchCalls -> {"idle", "run", "signal", "done"}]
    BY <2>1 DEF EInv, EType
  <2> QED
    BY <2>1, <2>2, EnqueueStep
<1>4. CASE LooseEmit
  <2>1. /\ engine' = engine /\ SinkEmit(Event(<<"loose", 0>>)) /\ Tally(<<"loose", 0>>)
        /\ UNCHANGED <<batch, queue, closed, call>>
    BY <1>4 DEF LooseEmit
  <2>2. <<"loose", 0>> \in {<<"engine", 0>>, <<"loose", 0>>} /\ <<"loose", 0>> # <<"engine", 0>>
    BY SourcesApart
  <2> QED
    BY <2>1, <2>2, DirectStep, Zenon
<1>5. CASE UNCHANGED evars
  <2>1. /\ UNCHANGED <<batch, queue, sent, seen>> /\ UNCHANGED told
        /\ engine' = engine /\ call' = call /\ closed' = closed
    BY <1>5 DEF evars, given, told
  <2>2. /\ engine' \in Open \union Shut
        /\ call' \in [BatchCalls -> {"idle", "run", "signal", "done"}] /\ closed' \in BOOLEAN
    BY <2>1 DEF EInv, EType
  <2>3. closed' <=> closed
    BY <2>1
  <2>4. engine \in Open => ~ closed'
    BY <2>3, Zenon DEF EInv, Flags
  <2>5. /\ engine \in Quiet => \A c \in BatchCalls : call'[c] \in {"idle", "done"}
        /\ engine = "last drain" => \A c \in BatchCalls : call'[c] = "done"
    BY <2>1, Zenon DEF EInv, Settled, AllDone
  <2> QED
    BY <2>1, <2>2, <2>3, <2>4, <2>5, Carry, Zenon
<1> QED
  BY <1>1, <1>2, <1>3, <1>4, <1>5 DEF ENext

-----------------------------------------------------------------------------
\* A consumer that keeps going is given every event of the engine and of the
\* calls once and in its source's order, then the end; one that stopped, and
\* anybody after the end, is given nothing (eventSink, runParallel, stream).
THEOREM Delivery == ESpec => []EventsDelivered
<1>1. EInv => EventsDelivered
  <2> SUFFICES ASSUME EInv PROVE EventsDelivered
    OBVIOUS
  <2>1. {"work", "end", "close", "returned"} \subseteq Quiet /\ "returned" \in Shut
    BY DEF Quiet, Shut
  <2>2. orderly /\ (engine = "returned" => (ended <=> ~ refused))
    BY <2>1, Zenon DEF EInv, Flags
  <2>3. ~ refused => seen[<<"engine", 0>>] = sent[<<"engine", 0>>]
    BY Zenon DEF EInv, Direct
  <2>4. ~ refused /\ engine \in {"work", "end", "close", "returned"} =>
           \A c \in BatchCalls : seen[Source(c)] = sent[Source(c)]
    <3>1. engine \in {"work", "end", "close", "returned"} => engine \in Quiet
      BY <2>1
    <3> QED
      BY <3>1, Zenon DEF EInv, Settled
  <2> QED
    BY <2>2, <2>3, <2>4, Zenon DEF EventsDelivered
<1> QED
  BY <1>1, InitEInv, NextEInv, PTL DEF ESpec
=============================================================================
