----------------------- MODULE ExecutionStoresProofs ------------------------
(***************************************************************************)
(* Every backend of ExecutionStore implements the versioned log, for any   *)
(* number of holders, operations, lost replies and expirations.            *)
(***************************************************************************)
EXTENDS ExecutionStores, TLAPS

Copy == [version : Nat, payload : Seq(Holders)]

XType ==
  /\ rec \in Copy /\ held \in [Holders -> Copy]
  /\ writes \in Seq(Holders) /\ lives \in Nat

\* Before a record has ever expired a copy is never ahead of the record, and
\* a copy of the record's version is the record.
Behind ==
  lives = 0 => \A c \in Holders :
                 /\ held[c].version <= rec.version
                 /\ held[c].version = rec.version /\ rec.version # 0 => held[c] = rec

XInv == XType /\ Behind

\* A save goes over the saver's own copy.
OverOwnCopy ==
  \A c \in Holders : rec' # rec /\ rec'.payload = <<c>> /\ rec.version # 0 /\ lives = 0
     => held[c] = rec

-----------------------------------------------------------------------------
(* One write.                                                              *)

\* A write that advances the version by one keeps the invariant and is a
\* write of the abstract log, whether its reply arrives or not.
LEMMA PutWrites ==
  ASSUME XInv, NEW c \in Holders, Put(c, rec.version + 1)
  PROVE  XInv' /\ Record!Write(c)
<1> DEFINE v == rec.version + 1
<1>1. /\ rec' = [version |-> v, payload |-> <<c>>] /\ writes' = Append(writes, c) /\ lives' = lives
      /\ \/ held' = [held EXCEPT ![c] = rec'] /\ told' = told \cup {<<c, v>>}
         \/ held' = held /\ told' = told
  BY DEF Put
<1>2. rec.version \in Nat /\ v \in Nat /\ v > rec.version /\ <<c>> \in Seq(Holders)
  BY DEF XInv, XType, Copy
<1>3. rec' \in Copy /\ rec'.version = v
  BY <1>1, <1>2 DEF Copy
<1>4. writes' \in Seq(Holders) /\ Len(writes') > Len(writes) /\ SubSeq(writes', 1, Len(writes)) = writes
  <2>1. writes \in Seq(Holders)
    BY DEF XInv, XType
  <2> QED
    BY <1>1, <2>1
<1>5. XType'
  BY <1>1, <1>3, <1>4 DEF XInv, XType
<1>6. Behind'
  <2> SUFFICES ASSUME lives = 0, NEW d \in Holders
               PROVE  /\ held'[d].version <= rec'.version
                      /\ held'[d].version = rec'.version /\ rec'.version # 0 => held'[d] = rec'
    BY <1>1 DEF Behind
  <2>1. held[d].version <= rec.version /\ held[d].version \in Nat
    BY DEF XInv, Behind, XType, Copy
  <2>2. held'[d] = held[d] \/ held'[d] = rec'
    BY <1>1 DEF XInv, XType
  <2> QED
    BY <1>2, <1>3, <2>1, <2>2
<1>7. told' \in {told, told \cup {<<c, v>>}}
  BY <1>1
<1>8. Record!Write(c)
  BY <1>3, <1>4, <1>7 DEF Record!Write
<1> QED
  BY <1>5, <1>6, <1>8 DEF XInv

\* A refused call, and a load, change nothing of the log.
LEMMA RefuseStutters ==
  ASSUME XInv, Refuse
  PROVE  XInv' /\ UNCHANGED Record!vvars /\ OverOwnCopy
BY DEF Refuse, XInv, XType, Behind, Record!vvars, OverOwnCopy

\* A write by a current holder is a write over that holder's copy.
LEMMA CurrentWrites ==
  ASSUME XInv, NEW c \in Holders, rec.version = 0 \/ Current(c), Put(c, rec.version + 1)
  PROVE  XInv' /\ Record!VNext /\ OverOwnCopy
<1>1. XInv' /\ Record!Write(c)
  BY PutWrites
<1>2. OverOwnCopy
  <2> SUFFICES ASSUME NEW d \in Holders, rec'.payload = <<d>>, rec.version # 0, lives = 0
               PROVE  held[d] = rec
    BY DEF OverOwnCopy
  <2>1. d = c
    BY DEF Put
  <2> QED
    BY <2>1 DEF Current, XInv, Behind
<1> QED
  BY <1>1, <1>2 DEF Record!VNext

-----------------------------------------------------------------------------
(* The steps.                                                              *)

Simulated == XInv' /\ (Record!VNext \/ UNCHANGED Record!vvars) /\ OverOwnCopy

\* Every step of every backend is a step of the log or leaves it alone.
LEMMA StepSimulated == XInv /\ [XNext]_xvars => Simulated
<1> SUFFICES ASSUME XInv, [XNext]_xvars PROVE Simulated
  OBVIOUS
<1>1. ASSUME NEW c \in Holders, Create(c) PROVE Simulated
  <2>1. CASE rec.version = 0
    BY <1>1, <2>1, CurrentWrites DEF Create, Simulated
  <2>2. CASE rec.version # 0
    BY <1>1, <2>2, RefuseStutters DEF Create, Simulated
  <2> QED
    BY <2>1, <2>2
<1>2. ASSUME NEW c \in Holders, LoadRecord(c) PROVE Simulated
  <2>1. CASE rec.version = 0
    BY <1>2, <2>1, RefuseStutters DEF LoadRecord, Simulated
  <2>2. CASE rec.version # 0
    <3>1. held' = [held EXCEPT ![c] = rec] /\ UNCHANGED <<rec, lives, writes, told>>
      BY <1>2, <2>2 DEF LoadRecord
    <3>2. XType'
      BY <3>1 DEF XInv, XType
    <3>3. Behind'
      BY <3>1 DEF XInv, XType, Copy, Behind
    <3>4. OverOwnCopy /\ UNCHANGED Record!vvars
      BY <3>1 DEF OverOwnCopy, Record!vvars
    <3> QED
      BY <3>2, <3>3, <3>4 DEF XInv, Simulated
  <2> QED
    BY <2>1, <2>2
<1>3. ASSUME NEW c \in Holders, SaveMemory(c) \/ SavePostgres(c) \/ SaveRedis(c) \/ SaveDynamo(c)
      PROVE  Simulated
  <2>1. CASE Current(c)
    <3>1. Put(c, rec.version + 1)
      BY <1>3, <2>1 DEF SaveMemory, SavePostgres, SaveRedis, SaveDynamo, Current
    <3> QED
      BY <2>1, <3>1, CurrentWrites DEF Simulated
  <2>2. CASE ~Current(c)
    <3>1. Refuse
      BY <1>3, <2>2 DEF SaveMemory, SavePostgres, SaveRedis, SaveDynamo
    <3> QED
      BY <3>1, RefuseStutters DEF Simulated
  <2> QED
    BY <2>1, <2>2
<1>4. CASE ExpireRecord
  <2>1. /\ rec' = Nothing /\ lives' = lives + 1 /\ writes' = <<>> /\ told' = {} /\ held' = held
    BY <1>4 DEF ExpireRecord
  <2>2. lives \in Nat /\ lives' # 0 /\ Nothing \in Copy /\ Nothing.version = 0
    BY <2>1 DEF XInv, XType, Copy, Nothing
  <2>3. XInv'
    BY <2>1, <2>2 DEF XInv, XType, Behind
  <2>4. Record!Remove
    BY <2>1, <2>2 DEF Record!Remove
  <2>5. OverOwnCopy
    BY <2>1 DEF OverOwnCopy, Nothing
  <2> QED
    BY <2>3, <2>4, <2>5 DEF Simulated, Record!VNext
<1>5. CASE UNCHANGED xvars
  <2>1. UNCHANGED <<rec, held, lives, writes, told>>
    BY <1>5 DEF xvars
  <2> QED
    BY <2>1 DEF xvars, XInv, XType, Behind, Record!vvars, OverOwnCopy, Simulated
<1> QED
  BY <1>1, <1>2, <1>3, <1>4, <1>5 DEF XNext

\* A store without a record satisfies the invariant and starts the log.
LEMMA InitSimulated == XInit => XInv /\ Record!VInit
BY DEF XInit, XInv, XType, Copy, Behind, Nothing, Record!VInit

-----------------------------------------------------------------------------
\* The in-memory, PostgreSQL, Redis and DynamoDB stores implement the versioned
\* log under any number of holders, lost replies and expirations, and a save
\* always replaces exactly the copy it was made from (ExecutionStore.Save).
THEOREM StoresImplementLog == XSpec => RecordContract
<1>1. XInit => XInv /\ Record!VInit
  BY InitSimulated
<1>2. XInv /\ [XNext]_xvars => XInv' /\ [Record!VNext]_(Record!vvars) /\ [OverOwnCopy]_xvars
  BY StepSimulated DEF Simulated
<1>3. XSpec => Record!VSpec /\ [][OverOwnCopy]_xvars
  BY <1>1, <1>2, PTL DEF XSpec, Record!VSpec
<1> QED
  BY <1>3 DEF RecordContract, OverOwnCopy
=============================================================================
