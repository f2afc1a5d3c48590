--------------------------- MODULE McpPoolProofs ----------------------------
(***************************************************************************)
(* The safety of the connection pool for any number of callers, sessions   *)
(* and slots. SlotsAccounted and OneLease are not inductive alone: what    *)
(* Close and a discard may close rests on who owns a live session.         *)
(***************************************************************************)
EXTENDS McpPool, FiniteSetTheorems, TLAPS

Busy == {"leased", "closing"}

\* Every live session is idle, drained by Close, or held by one caller; Close
\* leaves nothing idle, and drains nothing before it runs.
Owned ==
  /\ idle \cap draining = {} /\ idle \cup draining \subseteq live
  /\ \A s \in live : s \in idle \cup draining \/ \E c \in Callers : pc[c] \in Busy /\ held[c] = s
  /\ closed => idle = {}
  /\ ~closed => draining = {}

IInv == TypeOK /\ SlotsAccounted /\ OneLease /\ Owned

-----------------------------------------------------------------------------
(* Counting.                                                               *)

\* What adding or removing one member does to the size of a finite set.
LEMMA CountOne ==
  ASSUME NEW S, IsFiniteSet(S), NEW x
  PROVE  /\ Cardinality(S) \in Nat
         /\ IsFiniteSet(S \ {x}) /\ IsFiniteSet(S \cup {x})
         /\ x \in S => Cardinality(S \ {x}) = Cardinality(S) - 1 /\ Cardinality(S) >= 1
         /\ x \notin S => S \ {x} = S
         /\ x \notin S => Cardinality(S \cup {x}) = Cardinality(S) + 1
<1>1. Cardinality(S) \in Nat
  BY FS_CardinalityType
<1>2. /\ IsFiniteSet(S \cup {x})
      /\ Cardinality(S \cup {x}) = IF x \in S THEN Cardinality(S) ELSE Cardinality(S) + 1
  BY FS_AddElement
<1>3. /\ IsFiniteSet(S \ {x})
      /\ Cardinality(S \ {x}) = IF x \in S THEN Cardinality(S) - 1 ELSE Cardinality(S)
  BY FS_RemoveElement
<1>4. x \in S => Cardinality(S) >= 1
  BY <1>1, <1>3, FS_CardinalityType
<1> QED
  BY <1>1, <1>2, <1>3, <1>4

\* The sets that are counted are finite.
LEMMA Finite ==
  ASSUME TypeOK
  PROVE  IsFiniteSet(idle) /\ IsFiniteSet(Leased) /\ IsFiniteSet(Connecting)
<1>1. idle \subseteq Sessions /\ Leased \subseteq Callers /\ Connecting \subseteq Callers
  BY DEF TypeOK, Leased, Connecting
<1> QED
  BY Zenon, <1>1, PoolAssumption, FS_Subset

\* A caller's move takes nobody else out of a lease or a connection.
LEMMA Moved ==
  ASSUME TypeOK, NEW c \in Callers, NEW p \in Place, NEW W \in SUBSET Waiting, Move(c, p, W)
  PROVE  /\ pc' \in [Callers -> Place] /\ pc'[c] = p
         /\ \A d \in Callers \ {c} : pc'[d] = pc[d] \/ (pc[d] = "waiting" /\ pc'[d] = "acquire")
         /\ Leased' = (Leased \ {c}) \cup (IF p = "leased" THEN {c} ELSE {})
         /\ Connecting' = (Connecting \ {c}) \cup (IF p = "connecting" THEN {c} ELSE {})
<1>1. /\ pc' \in [Callers -> Place] /\ pc'[c] = p
      /\ \A d \in Callers \ {c} : pc'[d] = pc[d] \/ (pc[d] = "waiting" /\ pc'[d] = "acquire")
  BY DEF Move, TypeOK, Waiting, Place
<1>2. Leased' = (Leased \ {c}) \cup (IF p = "leased" THEN {c} ELSE {})
  BY <1>1 DEF Leased
<1>3. Connecting' = (Connecting \ {c}) \cup (IF p = "connecting" THEN {c} ELSE {})
  BY <1>1 DEF Connecting
<1> QED
  BY <1>1, <1>2, <1>3

\* A broadcast alone, as the watcher and Close do it, changes neither.
LEMMA Broadcast ==
  ASSUME TypeOK, pc' = [d \in Callers |-> IF d \in Waiting THEN "acquire" ELSE pc[d]]
  PROVE  /\ pc' \in [Callers -> Place]
         /\ \A d \in Callers : pc'[d] = pc[d] \/ (pc[d] = "waiting" /\ pc'[d] = "acquire")
         /\ Leased' = Leased /\ Connecting' = Connecting
BY DEF TypeOK, Waiting, Place, Leased, Connecting

\* The waiters a Signal wakes are waiters.
LEMMA SignalledWait == \A W \in Signalled : W \in SUBSET Waiting
BY DEF Signalled

-----------------------------------------------------------------------------
(* The slots.                                                              *)

\* A caller's move that keeps the idle sessions.
LEMMA SlotMove ==
  ASSUME TypeOK, SlotsAccounted, NEW c \in Callers, NEW p \in Place, NEW W \in SUBSET Waiting,
         Move(c, p, W), idle' = idle,
         \/ /\ pc[c] \notin {"leased", "connecting"} /\ p \notin {"leased", "connecting"} /\ size' = size
         \/ /\ pc[c] \notin {"leased", "connecting"} /\ p = "connecting" /\ size < MaxSize /\ size' = size + 1
         \/ /\ pc[c] = "connecting" /\ p = "leased" /\ size' = size
         \/ /\ pc[c] \in {"leased", "connecting"} /\ p \notin {"leased", "connecting"} /\ size' = size - 1
  PROVE  SlotsAccounted' /\ size' \in Nat /\ pc' \in [Callers -> Place]
<1> DEFINE L == Cardinality(Leased)
           C == Cardinality(Connecting)
           I == Cardinality(idle)
<1>1. /\ pc' \in [Callers -> Place]
      /\ Leased' = (Leased \ {c}) \cup (IF p = "leased" THEN {c} ELSE {})
      /\ Connecting' = (Connecting \ {c}) \cup (IF p = "connecting" THEN {c} ELSE {})
  BY Moved
<1>2. /\ IsFiniteSet(Leased) /\ IsFiniteSet(Connecting)
      /\ L \in Nat /\ C \in Nat /\ I \in Nat
  BY Finite, FS_CardinalityType
<1>3. size = I + L + C /\ size <= MaxSize /\ size \in Nat /\ MaxSize \in Nat
  BY PoolAssumption DEF SlotsAccounted, TypeOK
<1>4. /\ c \in Leased <=> pc[c] = "leased"
      /\ c \in Connecting <=> pc[c] = "connecting"
  BY DEF Leased, Connecting
<1>5. /\ c \in Leased => Cardinality(Leased \ {c}) = L - 1 /\ L >= 1
      /\ c \notin Leased => Leased \ {c} = Leased /\ Cardinality(Leased \cup {c}) = L + 1
      /\ c \in Connecting => Cardinality(Connecting \ {c}) = C - 1 /\ C >= 1
      /\ c \notin Connecting => Connecting \ {c} = Connecting /\ Cardinality(Connecting \cup {c}) = C + 1
  BY Zenon, <1>2, CountOne
<1> HIDE DEF L, C, I
<1>6. CASE pc[c] \notin {"leased", "connecting"} /\ p \notin {"leased", "connecting"} /\ size' = size
  <2>1. Leased' = Leased /\ Connecting' = Connecting
    BY <1>1, <1>4, <1>6
  <2> QED
    BY Zenon, <1>1, <1>3, <1>6, <2>1 DEF SlotsAccounted, L, C, I
<1>7. CASE pc[c] \notin {"leased", "connecting"} /\ p = "connecting" /\ size < MaxSize /\ size' = size + 1
  <2>1. Leased' = Leased /\ Cardinality(Connecting') = C + 1
    BY <1>1, <1>4, <1>5, <1>7
  <2> QED
    BY <1>1, <1>2, <1>3, <1>7, <2>1 DEF SlotsAccounted, L, I
<1>8. CASE pc[c] = "connecting" /\ p = "leased" /\ size' = size
  <2>1. Cardinality(Leased') = L + 1 /\ Cardinality(Connecting') = C - 1
    BY <1>1, <1>4, <1>5, <1>8
  <2> QED
    BY <1>1, <1>2, <1>3, <1>8, <2>1 DEF SlotsAccounted, I
<1>9. CASE pc[c] \in {"leased", "connecting"} /\ p \notin {"leased", "connecting"} /\ size' = size - 1
  <2>1. CASE pc[c] = "leased"
    <3>1. Cardinality(Leased') = L - 1 /\ Connecting' = Connecting /\ L >= 1
      BY Zenon, <1>1, <1>4, <1>5, <1>9, <2>1
    <3>2. Cardinality(Connecting') = C
      BY <3>1 DEF C
    <3> QED
      BY <1>1, <1>2, <1>3, <1>9, <3>1, <3>2 DEF SlotsAccounted, I
  <2>2. CASE pc[c] = "connecting"
    <3>1. Leased' = Leased /\ Cardinality(Connecting') = C - 1 /\ C >= 1
      BY Zenon, <1>1, <1>4, <1>5, <1>9, <2>2
    <3>2. Cardinality(Leased') = L
      BY <3>1 DEF L
    <3> QED
      BY <1>1, <1>2, <1>3, <1>9, <3>1, <3>2 DEF SlotsAccounted, I
  <2> QED
    BY <1>9, <2>1, <2>2
<1> QED
  BY <1>6, <1>7, <1>8, <1>9

\* Taking an idle session and giving it back.
LEMMA SlotLease ==
  ASSUME TypeOK, SlotsAccounted, NEW c \in Callers, NEW W \in SUBSET Waiting, NEW s, size' = size,
         \/ s \in idle /\ idle' = idle \ {s} /\ pc[c] = "acquire" /\ Move(c, "leased", W)
         \/ s \notin idle /\ idle' = idle \cup {s} /\ pc[c] = "leased" /\ Move(c, "out", W)
  PROVE  SlotsAccounted' /\ size' \in Nat /\ pc' \in [Callers -> Place]
<1> DEFINE L == Cardinality(Leased)
           C == Cardinality(Connecting)
           I == Cardinality(idle)
<1>1. "leased" \in Place /\ "out" \in Place
  BY DEF Place
<1>2. /\ IsFiniteSet(Leased) /\ IsFiniteSet(idle)
      /\ L \in Nat /\ C \in Nat /\ I \in Nat
  BY Finite, FS_CardinalityType
<1>3. size = I + L + C /\ size <= MaxSize /\ size \in Nat /\ MaxSize \in Nat
  BY PoolAssumption DEF SlotsAccounted, TypeOK
<1>4. /\ c \in Leased => Cardinality(Leased \ {c}) = L - 1 /\ L >= 1
      /\ c \notin Leased => Leased \ {c} = Leased /\ Cardinality(Leased \cup {c}) = L + 1
      /\ s \in idle => Cardinality(idle \ {s}) = I - 1 /\ I >= 1
      /\ s \notin idle => Cardinality(idle \cup {s}) = I + 1
  BY Zenon, <1>2, CountOne
<1>5. CASE s \in idle /\ idle' = idle \ {s} /\ pc[c] = "acquire" /\ Move(c, "leased", W)
  <2>1. pc' \in [Callers -> Place] /\ Leased' = (Leased \ {c}) \cup {c} /\ Connecting' = (Connecting \ {c})
    BY <1>1, <1>5, Moved
  <2>2. c \notin Leased /\ c \notin Connecting
    BY <1>5 DEF Leased, Connecting
  <2>3. Cardinality(Leased') = L + 1 /\ Connecting' = Connecting /\ Cardinality(idle') = I - 1
    BY <1>4, <1>5, <2>1, <2>2
  <2>4. Cardinality(Connecting') = C
    BY <2>3
  <2> HIDE DEF L, C, I
  <2> QED
    BY <1>2, <1>3, <2>1, <2>3, <2>4 DEF SlotsAccounted
<1>6. CASE s \notin idle /\ idle' = idle \cup {s} /\ pc[c] = "leased" /\ Move(c, "out", W)
  <2>1. pc' \in [Callers -> Place] /\ Leased' = Leased \ {c} /\ Connecting' = (Connecting \ {c})
    BY <1>1, <1>6, Moved
  <2>2. c \in Leased /\ c \notin Connecting
    BY <1>6 DEF Leased, Connecting
  <2>3. Cardinality(Leased') = L - 1 /\ Connecting' = Connecting /\ Cardinality(idle') = I + 1
    BY <1>4, <1>6, <2>1, <2>2
  <2>4. Cardinality(Connecting') = C
    BY <2>3
  <2> HIDE DEF L, C, I
  <2> QED
    BY <1>2, <1>3, <2>1, <2>3, <2>4 DEF SlotsAccounted
<1> QED
  BY <1>5, <1>6

\* Close frees the slots of the sessions it drains.
LEMMA SlotClose ==
  ASSUME TypeOK, SlotsAccounted, Close
  PROVE  SlotsAccounted' /\ size' \in Nat /\ pc' \in [Callers -> Place]
<1>1. /\ Cardinality(idle) \in Nat /\ Cardinality(Leased) \in Nat /\ Cardinality(Connecting) \in Nat
      /\ Cardinality({}) = 0
  BY Finite, FS_CardinalityType, FS_EmptySet
<1>2. pc' \in [Callers -> Place] /\ Leased' = Leased /\ Connecting' = Connecting
  BY Broadcast DEF Close
<1>3. idle' = {} /\ size' = size - Cardinality(idle)
  BY DEF Close
<1>4. size <= MaxSize /\ size \in Nat /\ MaxSize \in Nat /\ size = Cardinality(idle) + Cardinality(Leased) + Cardinality(Connecting)
  BY PoolAssumption DEF SlotsAccounted, TypeOK
<1> QED
  BY <1>1, <1>2, <1>3, <1>4 DEF SlotsAccounted

-----------------------------------------------------------------------------
(* Who owns a session.                                                     *)

\* A step that changes neither the sessions nor who works with one.
LEMMA OwnQuiet ==
  ASSUME OneLease, Owned, UNCHANGED <<held, live, idle, draining, closed>>,
         \A d \in Callers : pc'[d] \in Busy <=> pc[d] \in Busy
  PROVE  OneLease' /\ Owned'
BY DEF OneLease, Owned, Busy

\* Caller c takes a session s that nobody works with.
LEMMA OwnTake ==
  ASSUME TypeOK, OneLease, Owned, NEW c \in Callers, NEW s \in Sessions,
         pc[c] \notin Busy, pc'[c] \in Busy,
         \A d \in Callers \ {c} : pc'[d] \in Busy <=> pc[d] \in Busy,
         held' = [held EXCEPT ![c] = s], UNCHANGED <<draining, closed>>,
         \/ s \in idle /\ ~closed /\ idle' = idle \ {s} /\ live' = live
         \/ s \notin live /\ idle' = idle /\ live' = live \cup {s}
  PROVE  OneLease' /\ Owned'
<1>1. held'[c] = s /\ \A d \in Callers \ {c} : held'[d] = held[d]
  BY DEF TypeOK
<1>2. \A d \in Callers \ {c} : pc[d] \in Busy => held[d] # s
  BY DEF OneLease, Owned, Busy
<1>3. OneLease'
  <2>1. ASSUME NEW d \in Callers, pc'[d] \in Busy
        PROVE  held'[d] \in live' \ (idle' \cup draining')
    BY <1>1, <1>2, <2>1 DEF OneLease, Owned, Busy
  <2>2. ASSUME NEW d \in Callers, NEW e \in Callers, pc'[d] \in Busy, pc'[e] \in Busy, held'[d] = held'[e]
        PROVE  d = e
    BY <1>1, <1>2, <2>2 DEF OneLease, Busy
  <2> QED
    BY <2>1, <2>2 DEF OneLease, Busy
<1>4. Owned'
  <2>1. \A t \in live' : t \in idle' \cup draining' \/ \E d \in Callers : pc'[d] \in Busy /\ held'[d] = t
    <3> SUFFICES ASSUME NEW t \in live', t \notin idle' \cup draining'
                 PROVE  \E d \in Callers : pc'[d] \in Busy /\ held'[d] = t
      OBVIOUS
    <3>1. CASE t = s
      BY <1>1, <3>1
    <3>2. CASE t # s
      <4>1. PICK d \in Callers : pc[d] \in Busy /\ held[d] = t
        BY <3>2 DEF Owned
      <4> QED
        BY <1>1, <4>1
    <3> QED
      BY <3>1, <3>2
  <2> QED
    BY <2>1 DEF Owned
<1> QED
  BY <1>3, <1>4

\* Caller c gives its session up: back to the channel, or closed.
LEMMA OwnGive ==
  ASSUME TypeOK, OneLease, Owned, NEW c \in Callers,
         pc[c] \in Busy, pc'[c] \notin Busy,
         \A d \in Callers \ {c} : pc'[d] \in Busy <=> pc[d] \in Busy,
         held' = [held EXCEPT ![c] = None], UNCHANGED <<draining, closed>>,
         \/ ~closed /\ idle' = idle \cup {held[c]} /\ live' = live
         \/ idle' = idle /\ live' = live \ {held[c]}
  PROVE  OneLease' /\ Owned'
<1>1. \A d \in Callers \ {c} : held'[d] = held[d]
  BY DEF TypeOK
<1>2. \A d \in Callers \ {c} : pc[d] \in Busy => held[d] # held[c]
  BY DEF OneLease, Busy
<1>3. held[c] \in live \ (idle \cup draining)
  BY DEF OneLease, Busy
<1>4. OneLease'
  <2>1. ASSUME NEW d \in Callers, pc'[d] \in Busy
        PROVE  held'[d] \in live' \ (idle' \cup draining')
    BY <1>1, <1>2, <2>1 DEF OneLease, Busy
  <2>2. ASSUME NEW d \in Callers, NEW e \in Callers, pc'[d] \in Busy, pc'[e] \in Busy, held'[d] = held'[e]
        PROVE  d = e
    BY <1>1, <2>2 DEF OneLease, Busy
  <2> QED
    BY <2>1, <2>2 DEF OneLease, Busy
<1>5. Owned'
  <2>1. \A t \in live' : t \in idle' \cup draining' \/ \E d \in Callers : pc'[d] \in Busy /\ held'[d] = t
    <3> SUFFICES ASSUME NEW t \in live', t \notin idle' \cup draining'
                 PROVE  \E d \in Callers : pc'[d] \in Busy /\ held'[d] = t
      OBVIOUS
    <3>1. t \in live /\ t \notin idle \cup draining /\ t # held[c]
      OBVIOUS
    <3>2. PICK d \in Callers : pc[d] \in Busy /\ held[d] = t
      BY <3>1 DEF Owned
    <3> QED
      BY <1>1, <3>1, <3>2
  <2> QED
    BY <1>3, <2>1 DEF Owned
<1> QED
  BY <1>4, <1>5

-----------------------------------------------------------------------------
(* The inductive invariant.                                                *)

\* NewPool establishes the invariant.
LEMMA InitIInv == Init => IInv
<1> SUFFICES ASSUME Init PROVE IInv
  OBVIOUS
<1>1. PICK s \in Sessions : idle = {s} /\ live = {s}
  BY DEF Init
<1>2. TypeOK
  BY Zenon, <1>1 DEF Init, TypeOK, Place
<1>3. Leased = {} /\ Connecting = {}
  BY DEF Init, Leased, Connecting
<1>4. Cardinality({}) = 0 /\ Cardinality({s}) = 1
  BY Zenon, FS_EmptySet, FS_Singleton
<1>5. SlotsAccounted
  <2>1. Cardinality(idle) = 1 /\ Cardinality(Leased) = 0 /\ Cardinality(Connecting) = 0
    BY <1>1, <1>3, <1>4
  <2>2. size = 1 /\ MaxSize \in Nat \ {0}
    BY PoolAssumption DEF Init
  <2> QED
    BY <2>1, <2>2 DEF SlotsAccounted
<1>6. OneLease /\ Owned
  BY <1>1 DEF OneLease, Owned, Busy, Init
<1> QED
  BY <1>2, <1>5, <1>6 DEF IInv

\* A move that leaves the sessions alone and takes or gives up no lease.
LEMMA QuietMove ==
  ASSUME IInv, NEW c \in Callers, NEW p \in Place, NEW W \in SUBSET Waiting, Move(c, p, W),
         UNCHANGED <<held, live, idle, draining, closed>>,
         p \in Busy <=> pc[c] \in Busy,
         \/ /\ pc[c] \notin {"leased", "connecting"} /\ p \notin {"leased", "connecting"} /\ size' = size
         \/ /\ pc[c] \notin {"leased", "connecting"} /\ p = "connecting" /\ size < MaxSize /\ size' = size + 1
         \/ /\ pc[c] \in {"leased", "connecting"} /\ p \notin {"leased", "connecting"} /\ size' = size - 1,
         cancelled' \in [Callers -> BOOLEAN], watcher' \in [Callers -> BOOLEAN], calls' \in Nat
  PROVE  IInv'
<1>1. SlotsAccounted' /\ size' \in Nat /\ pc' \in [Callers -> Place]
  BY SlotMove DEF IInv
<1>2. TypeOK'
  BY <1>1 DEF IInv, TypeOK
<1>3. \A d \in Callers : pc'[d] \in Busy <=> pc[d] \in Busy
  BY Moved DEF IInv, Busy
<1>4. OneLease' /\ Owned'
  BY <1>3, OwnQuiet DEF IInv
<1> QED
  BY <1>1, <1>2, <1>4 DEF IInv

\* The steps of acquire.
LEMMA AcquireIInv ==
  ASSUME IInv, NEW c \in Callers, Acquire(c)
  PROVE  IInv'
<1> USE DEF IInv
<1>0. {} \in SUBSET Waiting /\ {"out", "connecting", "waiting", "leased"} \subseteq Place
  BY DEF Place
<1>1. watcher' \in [Callers -> BOOLEAN] /\ cancelled' \in [Callers -> BOOLEAN] /\ calls' \in Nat
  BY Zenon DEF Acquire, AcquireClosed, AcquireIdle, AcquireReserve, AcquireCancelled, AcquireWait,
         StopWatching, TypeOK
<1> HIDE DEF IInv
<1>2. CASE AcquireClosed(c)
  BY <1>0, <1>1, <1>2, QuietMove DEF AcquireClosed, Busy
<1>3. CASE AcquireIdle(c)
  <2>1. PICK s \in idle : idle' = idle \ {s} /\ held' = [held EXCEPT ![c] = s]
    BY Zenon, <1>3 DEF AcquireIdle
  <2>2. Move(c, "leased", {}) /\ pc[c] = "acquire" /\ ~closed /\ UNCHANGED <<size, closed, live, draining>>
    BY <1>3 DEF AcquireIdle
  <2>3. SlotsAccounted' /\ size' \in Nat /\ pc' \in [Callers -> Place]
    BY <1>0, <2>1, <2>2, SlotLease DEF IInv
  <2>4. s \in Sessions
    BY <2>1 DEF IInv, TypeOK
  <2>5. TypeOK'
    BY Zenon, <1>1, <2>1, <2>2, <2>3, <2>4 DEF IInv, TypeOK
  <2>6. pc'[c] = "leased" /\ \A d \in Callers \ {c} : pc'[d] \in Busy <=> pc[d] \in Busy
    BY <1>0, <2>2, Moved DEF IInv, Busy
  <2>7. OneLease' /\ Owned'
    BY Zenon, <2>1, <2>2, <2>4, <2>6, OwnTake DEF IInv, Busy
  <2> QED
    BY <2>3, <2>5, <2>7 DEF IInv
<1>4. CASE AcquireReserve(c)
  BY <1>0, <1>1, <1>4, QuietMove DEF AcquireReserve, Busy
<1>5. CASE AcquireCancelled(c)
  BY <1>0, <1>1, <1>5, QuietMove DEF AcquireCancelled, AtCapacity, Busy
<1>6. CASE AcquireWait(c)
  BY <1>0, <1>1, <1>6, QuietMove DEF AcquireWait, AtCapacity, Busy
<1> QED
  BY <1>2, <1>3, <1>4, <1>5, <1>6 DEF Acquire

\* The steps after acquire: connect, the tool call, and closing a session.
LEMMA ReturnIInv ==
  ASSUME IInv, NEW c \in Callers, Return(c)
  PROVE  IInv'
<1>0. /\ {} \in SUBSET Waiting /\ Waiting \in SUBSET Waiting
      /\ {"out", "leased", "closing"} \subseteq Place
  BY DEF Place
<1>1. watcher' \in [Callers -> BOOLEAN] /\ cancelled' \in [Callers -> BOOLEAN] /\ calls' \in Nat
  BY DEF Return, ConnectFails, Connected, CallTool, Release, Discard, CloseSession, IInv, TypeOK
<1>2. CASE ConnectFails(c)
  BY <1>0, <1>1, <1>2, QuietMove DEF ConnectFails, Busy
<1>3. CASE Connected(c)
  <2>1. PICK s \in Sessions \ live : live' = live \cup {s} /\ held' = [held EXCEPT ![c] = s]
    BY Zenon, <1>3 DEF Connected
  <2>2. pc[c] = "connecting" /\ UNCHANGED <<closed, idle, draining>>
    BY <1>3 DEF Connected
  <2>3. PICK p \in {"closing", "leased"}, W \in SUBSET Waiting :
           /\ Move(c, p, W)
           /\ p = "closing" => size' = size - 1
           /\ p = "leased" => size' = size
    BY <1>0, <1>3 DEF Connected
  <2>4. SlotsAccounted' /\ size' \in Nat /\ pc' \in [Callers -> Place]
    BY <1>0, <2>2, <2>3, SlotMove DEF IInv
  <2>5. TypeOK'
    BY Zenon, <1>1, <2>1, <2>2, <2>4 DEF IInv, TypeOK
  <2>6. pc'[c] = p /\ \A d \in Callers \ {c} : pc'[d] \in Busy <=> pc[d] \in Busy
    BY <1>0, <2>3, Moved DEF IInv, Busy
  <2>7. OneLease' /\ Owned'
    BY Zenon, <2>1, <2>2, <2>6, OwnTake DEF IInv, Busy
  <2> QED
    BY <2>4, <2>5, <2>7 DEF IInv
<1>4. CASE Release(c)
  <2>1. CASE closed
    BY <1>0, <1>1, <1>4, <2>1, QuietMove DEF Release, Busy
  <2>2. CASE ~closed
    <3>1. /\ pc[c] = "leased" /\ idle' = idle \cup {held[c]} /\ held' = [held EXCEPT ![c] = None]
          /\ UNCHANGED <<size, closed, live, draining>>
      BY <1>4, <2>2 DEF Release
    <3>2. PICK W \in SUBSET Waiting : Move(c, "out", W)
      BY <1>4, <2>2, SignalledWait DEF Release
    <3>3. held[c] \notin idle /\ held[c] \in live
      BY <3>1 DEF IInv, OneLease
    <3>4. SlotsAccounted' /\ size' \in Nat /\ pc' \in [Callers -> Place]
      BY <3>1, <3>2, <3>3, SlotLease DEF IInv
    <3>5. TypeOK'
      BY Zenon, <1>1, <3>1, <3>3, <3>4 DEF IInv, TypeOK
    <3>6. pc'[c] = "out" /\ \A d \in Callers \ {c} : pc'[d] \in Busy <=> pc[d] \in Busy
      BY <1>0, <3>2, Moved DEF IInv, Busy
    <3>7. OneLease' /\ Owned'
      BY Zenon, <2>2, <3>1, <3>6, OwnGive DEF IInv, Busy
    <3> QED
      BY <3>4, <3>5, <3>7 DEF IInv
  <2> QED
    BY <2>1, <2>2
<1>5. CASE Discard(c)
  BY <1>0, <1>1, <1>5, QuietMove DEF Discard, Busy
<1>6. CASE CloseSession(c)
  <2>1. /\ pc[c] = "closing" /\ live' = live \ {held[c]} /\ held' = [held EXCEPT ![c] = None]
        /\ Move(c, "out", {}) /\ UNCHANGED <<size, closed, idle, draining>>
    BY <1>6 DEF CloseSession
  <2>2. SlotsAccounted' /\ size' \in Nat /\ pc' \in [Callers -> Place]
    BY <1>0, <2>1, SlotMove DEF IInv
  <2>3. TypeOK'
    BY Zenon, <1>1, <2>1, <2>2 DEF IInv, TypeOK
  <2>4. pc'[c] = "out" /\ \A d \in Callers \ {c} : pc'[d] \in Busy <=> pc[d] \in Busy
    BY <1>0, <2>1, Moved DEF IInv, Busy
  <2>5. OneLease' /\ Owned'
    BY Zenon, <2>1, <2>4, OwnGive DEF IInv, Busy
  <2> QED
    BY <2>2, <2>3, <2>5 DEF IInv
<1> QED
  BY <1>2, <1>3, <1>4, <1>5, <1>6 DEF Return, CallTool

\* Every step of the pool keeps the invariant.
LEMMA NextIInv == IInv /\ [Next]_vars => IInv'
<1> SUFFICES ASSUME IInv, [Next]_vars PROVE IInv'
  OBVIOUS
<1>1. ASSUME NEW c \in Callers, StartCall(c) PROVE IInv'
  <2>1. /\ {} \in SUBSET Waiting /\ "acquire" \in Place
        /\ watcher' \in [Callers -> BOOLEAN] /\ cancelled' \in [Callers -> BOOLEAN] /\ calls' \in Nat
    BY <1>1 DEF StartCall, IInv, TypeOK, Place
  <2> QED
    BY <1>1, <2>1, QuietMove DEF StartCall, Busy
<1>2. ASSUME NEW c \in Callers, Acquire(c) PROVE IInv'
  BY <1>2, AcquireIInv
<1>3. ASSUME NEW c \in Callers, Return(c) PROVE IInv'
  BY <1>3, ReturnIInv
<1>4. ASSUME NEW c \in Callers, Cancel(c) PROVE IInv'
  <2>1. TypeOK'
    BY <1>4 DEF Cancel, IInv, TypeOK
  <2>2. SlotsAccounted' /\ OneLease' /\ Owned'
    BY <1>4 DEF Cancel, IInv, SlotsAccounted, Leased, Connecting, OneLease, Owned
  <2> QED
    BY <2>1, <2>2 DEF IInv
<1>5. ASSUME NEW c \in Callers, WatcherFires(c) PROVE IInv'
  <2>1. /\ pc' \in [Callers -> Place] /\ Leased' = Leased /\ Connecting' = Connecting
        /\ \A d \in Callers : pc'[d] \in Busy <=> pc[d] \in Busy
    BY <1>5, Broadcast DEF WatcherFires, IInv, Busy
  <2>2. TypeOK'
    BY <1>5, <2>1 DEF WatcherFires, IInv, TypeOK
  <2>3. SlotsAccounted'
    BY <1>5, <2>1 DEF WatcherFires, IInv, SlotsAccounted
  <2>4. OneLease' /\ Owned'
    BY <1>5, <2>1, OwnQuiet DEF WatcherFires, IInv
  <2> QED
    BY <2>2, <2>3, <2>4 DEF IInv
<1>6. CASE Close
  <2>1. SlotsAccounted' /\ size' \in Nat /\ pc' \in [Callers -> Place]
    BY <1>6, SlotClose DEF IInv
  <2>2. TypeOK'
    BY <1>6, <2>1 DEF Close, IInv, TypeOK
  <2>3. \A d \in Callers : pc'[d] \in Busy <=> pc[d] \in Busy
    BY <1>6, Broadcast DEF Close, IInv, Busy
  <2>4. /\ ~closed /\ closed' = TRUE /\ draining = {}
        /\ draining' = idle /\ idle' = {} /\ live' = live /\ held' = held
    BY <1>6 DEF Close, IInv, Owned
  <2>5. OneLease'
    BY <2>3, <2>4 DEF IInv, OneLease, Busy
  <2>6. Owned'
    BY <2>3, <2>4 DEF IInv, Owned
  <2> QED
    BY <2>1, <2>2, <2>5, <2>6 DEF IInv
<1>7. CASE CloseIdleSession
  <2>1. PICK s \in draining : draining' = draining \ {s} /\ live' = live \ {s}
    BY <1>7 DEF CloseIdleSession
  <2>2. UNCHANGED <<size, closed, idle, pc, held, cancelled, watcher, calls>>
    BY <1>7 DEF CloseIdleSession
  <2>3. TypeOK' /\ SlotsAccounted'
    BY <2>1, <2>2 DEF IInv, TypeOK, SlotsAccounted, Leased, Connecting
  <2>4. OneLease'
    BY <2>1, <2>2 DEF IInv, OneLease
  <2>5. Owned'
    BY <2>1, <2>2 DEF IInv, Owned
  <2> QED
    BY <2>3, <2>4, <2>5 DEF IInv
<1>8. CASE UNCHANGED vars
  BY <1>8 DEF vars, IInv, TypeOK, SlotsAccounted, Leased, Connecting, OneLease, Owned
<1> QED
  BY <1>1, <1>2, <1>3, <1>4, <1>5, <1>6, <1>7, <1>8 DEF Next

\* The invariant leaves nothing behind once Close and all calls are over.
LEMMA NothingLeft == IInv => NoSessionLeak
<1> SUFFICES ASSUME IInv, closed, draining = {}, \A c \in Callers : pc[c] = "out"
             PROVE  live = {} /\ size = 0
  BY DEF NoSessionLeak
<1>1. idle = {} /\ live = {}
  BY DEF IInv, Owned, Busy
<1>2. Leased = {} /\ Connecting = {}
  BY DEF Leased, Connecting
<1>3. Cardinality({}) = 0
  BY FS_EmptySet
<1>4. size = Cardinality({}) + Cardinality({}) + Cardinality({})
  BY <1>1, <1>2 DEF IInv, SlotsAccounted
<1> QED
  BY <1>1, <1>3, <1>4

-----------------------------------------------------------------------------
(* What the pool guarantees, for any callers, sessions and pool size.      *)

\* The pool's invariant holds in every reachable state.
THEOREM PoolInvariant == Spec => []IInv
BY InitIInv, NextIInv, PTL DEF Spec

\* p.size equals the slots in use and stays within maxSize, through every
\* order of releases, discards, failed connects, cancellations and Close.
THEOREM SlotSafety == Spec => []SlotsAccounted
<1>1. IInv => SlotsAccounted
  BY DEF IInv
<1> QED
  BY <1>1, PoolInvariant, PTL

\* No session is leased twice, and no session is closed under a lease.
THEOREM LeaseSafety == Spec => []OneLease
<1>1. IInv => OneLease
  BY DEF IInv
<1> QED
  BY <1>1, PoolInvariant, PTL

\* After Close and the last call no session is alive and no slot is taken.
THEOREM CloseSafety == Spec => []NoSessionLeak
BY NothingLeft, PoolInvariant, PTL
=============================================================================
