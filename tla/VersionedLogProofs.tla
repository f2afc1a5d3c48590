------------------------- MODULE VersionedLogProofs -------------------------
(***************************************************************************)
(* What a caller may conclude from the contract of a versioned log.        *)
(***************************************************************************)
EXTENDS VersionedLog, TLAPS

LogType == rev \in Nat /\ acks \subseteq Writers \X Nat

\* The revision is a number and acknowledgements name one.
LEMMA LogTyped == VSpec => []LogType
<1>1. VInit => LogType
  BY DEF VInit, LogType
<1>2. LogType /\ [VNext]_vvars => LogType'
  <2> SUFFICES ASSUME LogType, [VNext]_vvars PROVE LogType'
    OBVIOUS
  <2>1. ASSUME NEW w \in Writers, Write(w) PROVE LogType'
    <3>1. rev' \in Nat /\ <<w, rev + 1>> \in Writers \X Nat
      BY <2>1 DEF Write, LogType
    <3> QED
      BY <2>1, <3>1 DEF Write, LogType
  <2>2. CASE Remove
    BY <2>2 DEF Remove, LogType
  <2>3. CASE UNCHANGED vvars
    BY <2>3 DEF vvars, LogType
  <2> QED
    BY <2>1, <2>2, <2>3 DEF VNext
<1> QED
  BY <1>1, <1>2, PTL DEF VSpec

\* Whatever implements the contract reports a revision to one writer only, so
\* a successful compare-and-swap is a lock for the one that made it.
THEOREM Winner == VSpec => []OneWinner
<1>1. VInit => OneWinner
  BY DEF VInit, OneWinner
<1>2. LogType /\ OneWinner /\ [VNext]_vvars => OneWinner'
  <2> SUFFICES ASSUME LogType, OneWinner, [VNext]_vvars PROVE OneWinner'
    OBVIOUS
  <2>1. ASSUME NEW w \in Writers, Write(w) PROVE OneWinner'
    <3>1. rev' = rev + 1 /\ rev \in Nat
      BY <2>1 DEF Write, LogType
    <3>2. \A a \in acks : a[2] \in 1 .. rev /\ a[2] # rev + 1
      BY <3>1 DEF OneWinner
    <3>3. \A a \in acks' : a \in acks \/ a = <<w, rev + 1>>
      BY <2>1 DEF Write
    <3>4. <<w, rev + 1>>[2] = rev + 1
      OBVIOUS
    <3>5. \A a \in acks' : a[2] \in 1 .. rev'
      BY <3>1, <3>2, <3>3, <3>4
    <3>6. \A a, b \in acks' : a[2] = b[2] => a = b
      BY <3>2, <3>3, <3>4 DEF OneWinner
    <3> QED
      BY <3>5, <3>6 DEF OneWinner
  <2>2. CASE Remove
    BY <2>2 DEF Remove, OneWinner
  <2>3. CASE UNCHANGED vvars
    BY <2>3 DEF vvars, OneWinner
  <2> QED
    BY <2>1, <2>2, <2>3 DEF VNext
<1> QED
  BY <1>1, <1>2, LogTyped, PTL DEF VSpec
=============================================================================
