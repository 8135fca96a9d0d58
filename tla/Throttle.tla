------------------------------- MODULE Throttle -------------------------------
(***************************************************************************)
(* What sharing a byte budget promises (drpc/throttle.py): its level, and  *)
(* how each connection that draws on it keeps pace. A connection is due to *)
(* wait, asleep for some ticks, cleared to spend some more on the line at  *)
(* hand, or gone. Converse implements this.                                *)
(***************************************************************************)
EXTENDS Sharing

VARIABLES level, pace
vars == <<level, pace>>

Due == [at |-> "due"]
Gone == [at |-> "gone"]
Asleep(ticks) == [at |-> "asleep", left |-> ticks]
Cleared(bytes) == [at |-> "cleared", bytes |-> bytes]
Pace == {Due, Gone} \cup [at : {"asleep"}, left : Nat] \cup [at : {"cleared"}, bytes : 0 .. MaxLine]
-----------------------------------------------------------------------------
Init == level = Burst /\ pace \in [Conns -> {Due, Gone}]

(* One sleep, for as long as the debt that is found takes.                 *)
Wait(c) ==
  /\ pace[c] = Due
  /\ pace' = [pace EXCEPT ![c] = IF level < 0 THEN Asleep(-level) ELSE Cleared(MaxLine)]
  /\ UNCHANGED level

Wake(c) ==
  /\ pace[c] = Asleep(0)
  /\ pace' = [pace EXCEPT ![c] = Cleared(MaxLine)]
  /\ UNCHANGED level

Spend(c, bytes) ==
  /\ pace[c].at = "cleared" /\ bytes <= pace[c].bytes
  /\ level' = level - bytes
  /\ \E p \in {Due, Gone} \cup {Cleared(b) : b \in 0 .. pace[c].bytes - bytes} :
       pace' = [pace EXCEPT ![c] = p]

Tick ==
  /\ level' = IF level < Burst THEN level + 1 ELSE level
  /\ pace' = [c \in Conns |->
       IF pace[c].at = "asleep" /\ pace[c].left > 0 THEN Asleep(pace[c].left - 1) ELSE pace[c]]

Next ==
  \/ \E c \in Conns : Wait(c) \/ Wake(c) \/ \E bytes \in 0 .. MaxLine : Spend(c, bytes)
  \/ Tick

Spec == Init /\ [][Next]_vars
-----------------------------------------------------------------------------
TypeOK == level \in Int /\ pace \in [Conns -> Pace]

(* However many connections share the budget, it is never further in debt  *)
(* than one line of each costs.                                            *)
DebtIsBounded == level >= -(Cardinality(Conns) * MaxLine)

(* Why: what is granted is what the connections may have spent j ticks     *)
(* from now without waiting again, byte by byte.                           *)
Allowance(c, j) ==
  IF pace[c].at = "cleared" THEN pace[c].bytes
  ELSE IF pace[c].at = "asleep" THEN (IF pace[c].left <= j THEN MaxLine ELSE 0)
  ELSE 0
Granted(j) == {p \in Conns \X (1 .. MaxLine) : p[2] <= Allowance(p[1], j)}
Covered(j) == level + j >= Cardinality(Granted(j)) - Cardinality(Conns) * MaxLine
=============================================================================
