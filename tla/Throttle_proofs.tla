--------------------------- MODULE Throttle_proofs ---------------------------
(***************************************************************************)
(* The debt of a shared budget is bounded, for any number of connections,  *)
(* any burst and any cost of a line. The invariant looks ahead: whatever   *)
(* may be spent without waiting again, at any tick from now, is covered.   *)
(***************************************************************************)
EXTENDS Throttle, FiniteSetTheorems, TLAPS

Room == Cardinality(Conns) * MaxLine
Bytes == Conns \X (1 .. MaxLine)
Inv == TypeOK /\ \A j \in Nat : Covered(j)

LEMMA Sizes ==
  /\ IsFiniteSet(Conns) /\ Cardinality(Conns) \in Nat
  /\ Burst \in Nat /\ MaxLine \in Nat /\ Room \in Nat
  /\ IsFiniteSet(Bytes) /\ Cardinality(Bytes) = Room
<1>1. IsFiniteSet(Conns) /\ Burst \in Nat /\ MaxLine \in Nat
  BY SharingConstants DEF SharingConstants
<1>2. Cardinality(Conns) \in Nat
  BY <1>1, FS_CardinalityType
<1>3. IsFiniteSet(1 .. MaxLine) /\ Cardinality(1 .. MaxLine) = MaxLine
  BY <1>1, FS_Interval
<1>4. IsFiniteSet(Bytes) /\ Cardinality(Bytes) = Room
  BY <1>1, <1>3, FS_Product DEF Bytes, Room
<1>5. Room \in Nat
  BY <1>1, <1>2 DEF Room
<1> QED BY <1>1, <1>2, <1>4, <1>5

(* No more can be granted than a line of each.                             *)
LEMMA GrantedSize ==
  ASSUME NEW j
  PROVE  /\ IsFiniteSet(Granted(j)) /\ Cardinality(Granted(j)) \in Nat
         /\ Cardinality(Granted(j)) <= Room
<1>1. Granted(j) \in SUBSET Bytes
  BY DEF Granted, Bytes
<1>2. IsFiniteSet(Granted(j)) /\ Cardinality(Granted(j)) <= Cardinality(Bytes)
  BY <1>1, Sizes, FS_Subset
<1>3. Cardinality(Granted(j)) \in Nat
  BY <1>2, FS_CardinalityType
<1> QED BY <1>2, <1>3, Sizes

LEMMA GrantedSizeNext ==
  ASSUME NEW j
  PROVE  /\ IsFiniteSet(Granted(j)') /\ Cardinality(Granted(j)') \in Nat
         /\ Cardinality(Granted(j)') <= Room
<1>1. Granted(j)' \in SUBSET Bytes
  BY DEF Granted, Bytes
<1>2. IsFiniteSet(Granted(j)') /\ Cardinality(Granted(j)') <= Cardinality(Bytes)
  BY <1>1, Sizes, FS_Subset
<1>3. Cardinality(Granted(j)') \in Nat
  BY <1>2, FS_CardinalityType
<1> QED BY <1>2, <1>3, Sizes

LEMMA NoDebt ==
  ASSUME NEW n \in Int, NEW used \in Nat, NEW room \in Nat, n >= 0, used <= room
  PROVE  n >= used - room
  OBVIOUS

(* Out of debt j ticks from now, everything is covered then.               *)
LEMMA CoveredWithoutDebt ==
  ASSUME NEW j \in Nat, level' \in Int, level' + j >= 0 PROVE Covered(j)'
<1>1. Cardinality(Granted(j)') \in Nat /\ Cardinality(Granted(j)') <= Room
  BY GrantedSizeNext
<1>2. level' + j \in Int /\ Room \in Nat
  BY Sizes
<1>3. level' + j >= Cardinality(Granted(j)') - Room
  BY <1>1, <1>2, NoDebt
<1> QED BY <1>3 DEF Covered, Room

(* Granting nothing new and spending nothing leaves it covered.            *)
LEMMA CoveredAsBefore ==
  ASSUME NEW j \in Nat, Covered(j), level' = level, Granted(j)' = Granted(j) PROVE Covered(j)'
  BY DEF Covered

LEMMA InitInv == Init => Inv
<1> SUFFICES ASSUME Init PROVE Inv
  OBVIOUS
<1>1. TypeOK
  BY Sizes DEF Init, TypeOK, Pace
<1>2. ASSUME NEW j \in Nat PROVE Covered(j)
  <2>1. Cardinality(Granted(j)) \in Nat /\ Cardinality(Granted(j)) <= Room
    BY GrantedSize
  <2> QED BY <2>1, Sizes DEF Covered, Room, Init
<1> QED BY <1>1, <1>2 DEF Inv

LEMMA WaitInv ==
  ASSUME Inv, NEW c \in Conns, Wait(c) PROVE Inv'
<1>1. level \in Int /\ level' = level /\ pace \in [Conns -> Pace]
  BY DEF Inv, TypeOK, Wait
<1>2. TypeOK'
  <2>1. level < 0 => Asleep(-level) \in Pace
    BY <1>1 DEF Asleep, Pace
  <2>2. Cleared(MaxLine) \in Pace
    BY Sizes DEF Cleared, Pace
  <2> QED BY <1>1, <2>1, <2>2 DEF Wait, TypeOK
<1>3. ASSUME NEW j \in Nat PROVE Covered(j)'
  <2>1. CASE level + j >= 0
    BY <1>1, <2>1, CoveredWithoutDebt
  <2>2. CASE level + j < 0
    <3>1. level < 0 /\ ~(-level <= j)
      BY <1>1, <2>2
    <3>2. pace' = [pace EXCEPT ![c] = Asleep(-level)] /\ pace[c] = Due
      BY <3>1 DEF Wait
    <3>3. \A d \in Conns : Allowance(d, j)' = Allowance(d, j)
      BY <1>1, <3>1, <3>2 DEF Allowance, Asleep, Due
    <3>4. Granted(j)' = Granted(j)
      BY <3>3 DEF Granted
    <3> QED BY <1>1, <3>4, CoveredAsBefore DEF Inv
  <2> QED BY <1>1, <2>1, <2>2
<1> QED BY <1>2, <1>3 DEF Inv

LEMMA WakeInv ==
  ASSUME Inv, NEW c \in Conns, Wake(c) PROVE Inv'
<1>1. /\ level \in Int /\ level' = level /\ pace \in [Conns -> Pace]
      /\ pace[c] = Asleep(0) /\ pace' = [pace EXCEPT ![c] = Cleared(MaxLine)]
  BY DEF Inv, TypeOK, Wake
<1>2. TypeOK'
  <2>1. Cleared(MaxLine) \in Pace
    BY Sizes DEF Cleared, Pace
  <2> QED BY <1>1, <2>1 DEF TypeOK
<1>3. ASSUME NEW j \in Nat PROVE Covered(j)'
  <2>1. \A d \in Conns : Allowance(d, j)' = Allowance(d, j)
    BY <1>1 DEF Allowance, Asleep, Cleared
  <2>2. Granted(j)' = Granted(j)
    BY <2>1 DEF Granted
  <2> QED BY <1>1, <2>2, CoveredAsBefore DEF Inv
<1> QED BY <1>2, <1>3 DEF Inv

(* What is spent was granted, at every tick from now, and is no longer.    *)
LEMMA SpendInv ==
  ASSUME Inv, NEW c \in Conns, NEW bytes \in 0 .. MaxLine, Spend(c, bytes) PROVE Inv'
<1> DEFINE had == pace[c].bytes
<1>1. PICK p \in {Due, Gone} \cup {Cleared(b) : b \in 0 .. had - bytes} :
        pace' = [pace EXCEPT ![c] = p]
  BY DEF Spend
<1>2. /\ level \in Int /\ level' = level - bytes /\ pace \in [Conns -> Pace]
      /\ pace[c].at = "cleared" /\ had \in 0 .. MaxLine /\ bytes <= had /\ bytes \in Nat
  <2>1. pace \in [Conns -> Pace] /\ pace[c].at = "cleared"
    BY DEF Inv, TypeOK, Spend
  <2>2. had \in 0 .. MaxLine
    BY <2>1 DEF Pace, Due, Gone
  <2> QED BY <2>1, <2>2, Sizes DEF Inv, TypeOK, Spend
<1>3. had \in Nat /\ had <= MaxLine
  BY <1>2, Sizes
<1>4. TypeOK'
  <2>1. p \in Pace
    BY <1>1, <1>2, <1>3, Sizes DEF Pace, Cleared
  <2> QED BY <1>1, <1>2, <2>1 DEF TypeOK
<1>5. ASSUME NEW j \in Nat PROVE Covered(j)'
  <2> DEFINE spent == {c} \X (had - bytes + 1 .. had)
  <2>1. Allowance(c, j) = had
    BY <1>2 DEF Allowance
  <2>2. Allowance(c, j)' \in Int /\ Allowance(c, j)' <= had - bytes
    BY <1>1, <1>2, <1>3 DEF Allowance, Due, Gone, Cleared
  <2>3. \A d \in Conns \ {c} : Allowance(d, j)' = Allowance(d, j)
    BY <1>1, <1>2 DEF Allowance
  <2>4. spent \subseteq Granted(j)
    BY <1>2, <1>3, <2>1, Sizes DEF Granted
  <2>5. Granted(j)' \in SUBSET (Granted(j) \ spent)
    <3> SUFFICES ASSUME NEW q \in Granted(j)' PROVE q \in Granted(j) \ spent
      OBVIOUS
    <3>1. q \in Conns \X (1 .. MaxLine) /\ q[2] <= Allowance(q[1], j)'
      BY DEF Granted
    <3>2. CASE q[1] = c
      BY <1>2, <1>3, <2>1, <2>2, <3>1, <3>2, Sizes DEF Granted
    <3>3. CASE q[1] # c
      BY <2>3, <3>1, <3>3 DEF Granted
    <3> QED BY <3>2, <3>3
  <2>6. Cardinality(spent) = bytes
    <3>1. IsFiniteSet({c}) /\ Cardinality({c}) = 1
      BY FS_Singleton
    <3>2. /\ IsFiniteSet(had - bytes + 1 .. had)
          /\ Cardinality(had - bytes + 1 .. had) = bytes
      <4>1. had \in Int /\ had - bytes + 1 \in Int
        BY <1>2, <1>3
      <4>2. /\ IsFiniteSet(had - bytes + 1 .. had)
            /\ Cardinality(had - bytes + 1 .. had) =
                 IF had - bytes + 1 > had THEN 0 ELSE had - (had - bytes + 1) + 1
        BY <4>1, FS_Interval
      <4> QED BY <1>2, <1>3, <4>2
    <3>3. Cardinality(spent) = 1 * bytes
      BY <3>1, <3>2, FS_Product
    <3> QED BY <1>2, <3>3
  <2>7. IsFiniteSet(Granted(j)) /\ Cardinality(Granted(j)) \in Nat
    BY GrantedSize
  <2>8. Granted(j) \cap spent = spent
    BY <2>4
  <2>9. /\ IsFiniteSet(Granted(j) \ spent)
        /\ Cardinality(Granted(j) \ spent) = Cardinality(Granted(j)) - bytes
    <3> HIDE DEF spent
    <3>1. /\ IsFiniteSet(Granted(j) \ spent)
          /\ Cardinality(Granted(j) \ spent) =
               Cardinality(Granted(j)) - Cardinality(Granted(j) \cap spent)
      BY <2>7, FS_Difference
    <3> QED BY <2>6, <2>8, <3>1
  <2>10. Cardinality(Granted(j)') <= Cardinality(Granted(j)) - bytes
    BY <2>5, <2>9, FS_Subset
  <2>11. Cardinality(Granted(j)') \in Nat
    BY GrantedSizeNext
  <2>12. level + j >= Cardinality(Granted(j)) - Room
    BY DEF Inv, Covered, Room
  <2>13. level' + j >= Cardinality(Granted(j)') - Room
    BY <1>2, <2>7, <2>10, <2>11, <2>12, Sizes
  <2> QED BY <2>13 DEF Covered, Room
<1> QED BY <1>4, <1>5 DEF Inv

(* What is granted j ticks from the next one was granted j + 1 from this.  *)
LEMMA TickInv ==
  ASSUME Inv, Tick PROVE Inv'
<1>1. level \in Int /\ level' \in Int /\ pace \in [Conns -> Pace]
  BY Sizes DEF Inv, TypeOK, Tick
<1>2. TypeOK'
  <2>1. \A c \in Conns : pace'[c] \in Pace
    <3> SUFFICES ASSUME NEW c \in Conns PROVE pace'[c] \in Pace
      OBVIOUS
    <3>1. CASE pace[c].at = "asleep" /\ pace[c].left > 0
      <4>1. pace[c].left \in Nat
        BY <1>1, <3>1 DEF Pace, Due, Gone
      <4>2. pace'[c] = Asleep(pace[c].left - 1)
        BY <3>1 DEF Tick
      <4> QED BY <3>1, <4>1, <4>2 DEF Pace, Asleep
    <3>2. CASE ~(pace[c].at = "asleep" /\ pace[c].left > 0)
      BY <1>1, <3>2 DEF Tick
    <3> QED BY <3>1, <3>2
  <2>2. pace' = [c \in Conns |-> pace'[c]]
    BY DEF Tick
  <2> QED BY <1>1, <2>1, <2>2 DEF TypeOK
<1>3. ASSUME NEW j \in Nat PROVE Covered(j)'
  <2>1. CASE level >= Burst
    <3>1. level' + j >= 0
      BY <1>1, <2>1, Sizes DEF Tick
    <3> QED BY <1>1, <3>1, CoveredWithoutDebt
  <2>2. CASE level < Burst
    <3>1. level' = level + 1
      BY <2>2 DEF Tick
    <3>2. \A c \in Conns : Allowance(c, j)' = Allowance(c, j + 1)
      <4> SUFFICES ASSUME NEW c \in Conns PROVE Allowance(c, j)' = Allowance(c, j + 1)
        OBVIOUS
      <4>1. CASE pace[c].at = "asleep"
        <5>1. pace[c].left \in Nat
          BY <1>1, <4>1 DEF Pace, Due, Gone
        <5>2. pace'[c].at = "asleep"
               /\ pace'[c].left = IF pace[c].left > 0 THEN pace[c].left - 1 ELSE pace[c].left
          BY <4>1, <5>1 DEF Tick, Asleep
        <5> QED BY <4>1, <5>1, <5>2 DEF Allowance
      <4>2. CASE pace[c].at # "asleep"
        <5>1. pace'[c] = pace[c]
          BY <4>2 DEF Tick
        <5> QED BY <4>2, <5>1 DEF Allowance
      <4> QED BY <4>1, <4>2
    <3>3. Granted(j)' = Granted(j + 1)
      BY <3>2 DEF Granted
    <3>4. level + (j + 1) >= Cardinality(Granted(j + 1)) - Room
      <4>1. j + 1 \in Nat
        OBVIOUS
      <4> QED BY <4>1 DEF Inv, Covered, Room
    <3>5. level' + j >= Cardinality(Granted(j)') - Room
      BY <1>1, <3>1, <3>3, <3>4
    <3> QED BY <3>5 DEF Covered, Room
  <2> QED BY <1>1, <2>1, <2>2, Sizes
<1> QED BY <1>2, <1>3 DEF Inv

LEMMA NextInv == Inv /\ [Next]_vars => Inv'
<1> SUFFICES ASSUME Inv, [Next]_vars PROVE Inv'
  OBVIOUS
<1>1. CASE \E c \in Conns : Wait(c)
  BY <1>1, WaitInv
<1>2. CASE \E c \in Conns : Wake(c)
  BY <1>2, WakeInv
<1>3. CASE \E c \in Conns, bytes \in 0 .. MaxLine : Spend(c, bytes)
  BY <1>3, SpendInv
<1>4. CASE Tick
  BY <1>4, TickInv
<1>5. CASE UNCHANGED vars
  BY <1>5 DEF vars, Inv, TypeOK, Covered, Granted, Allowance
<1> QED BY <1>1, <1>2, <1>3, <1>4, <1>5 DEF Next

LEMMA InvBounds == Inv => DebtIsBounded
<1> SUFFICES ASSUME Inv PROVE DebtIsBounded
  OBVIOUS
<1>1. level + 0 >= Cardinality(Granted(0)) - Room
  BY DEF Inv, Covered, Room
<1>2. Cardinality(Granted(0)) \in Nat
  BY GrantedSize
<1> QED BY <1>1, <1>2, Sizes DEF DebtIsBounded, Inv, TypeOK, Room

(* The budget is never further in debt than one line of every connection   *)
(* that shares it costs (drpc/throttle.py, drpc/server.py:46-57).          *)
THEOREM BudgetHolds == Spec => []DebtIsBounded
  BY InitInv, NextInv, InvBounds, PTL DEF Spec
=============================================================================
