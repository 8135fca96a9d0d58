------------------------------ MODULE RateLimit ------------------------------
(***************************************************************************)
(* The token bucket of createLimiter (server/rate.js), which refills from  *)
(* the wall clock, and that clock, which may be put back or forward.       *)
(*                                                                         *)
(* Tokens are counted in parts, Unit of them to a token, of which Rps come *)
(* in per tick; the rounding of the floating point division is left out.   *)
(* taken and forward are history variables: the tokens handed out, and how *)
(* far the wall clock has moved forward in all, by itself or by being set. *)
(***************************************************************************)
EXTENDS Integers

CONSTANTS
  Unit, Rps, Burst,
  MaxTime,    \* bound: how far the clock runs
  MaxSet      \* bound: how often it is set

ASSUME BucketConstants ==
  /\ Unit \in Nat \ {0} /\ Rps \in Nat /\ Burst \in Nat
  /\ MaxTime \in Nat /\ MaxSet \in Nat

VARIABLES
  wall,         \* Date.now()
  bucket, last, \* the tokens left, in parts, and the time of the last take
  taken, forward, \* history, see above
  sets          \* how often the clock has been set

clocks == <<wall, forward, sets>>
limiter == <<bucket, last, taken>>
limits == <<clocks, limiter>>

Smaller(a, b) == IF a <= b THEN a ELSE b
Larger(a, b) == IF a >= b THEN a ELSE b
-----------------------------------------------------------------------------
LimitInit ==
  /\ wall = 0 /\ forward = 0 /\ sets = 0
  /\ bucket = Burst * Unit /\ last = wall /\ taken = 0

Refilled_Signed ==   \* mutant: the distance whatever its sign
  Smaller(Burst * Unit, bucket + Larger(last - wall, wall - last) * Rps)
Refilled == Smaller(Burst * Unit, bucket + Larger(0, wall - last) * Rps)

(* take() answers true, or false.                                          *)
TakeOk ==
  /\ Refilled >= Unit
  /\ bucket' = Refilled - Unit
  /\ last' = wall
  /\ taken' = taken + 1

TakeRefused ==
  /\ Refilled < Unit
  /\ bucket' = Refilled
  /\ last' = wall
  /\ UNCHANGED taken

(* Time passes; the clock is set.                                          *)
Pass ==
  /\ forward < MaxTime
  /\ wall' = wall + 1 /\ forward' = forward + 1
  /\ UNCHANGED <<sets, limiter>>

SetForward ==
  /\ forward < MaxTime /\ sets < MaxSet
  /\ sets' = sets + 1
  /\ \E d \in 1 .. MaxTime - forward : wall' = wall + d /\ forward' = forward + d
  /\ UNCHANGED limiter

SetBack ==
  /\ sets < MaxSet
  /\ sets' = sets + 1
  /\ \E d \in 1 .. MaxTime : wall' = wall - d
  /\ UNCHANGED <<forward, limiter>>

Clock == Pass \/ SetForward \/ SetBack
LimitNext == Clock \/ ((TakeOk \/ TakeRefused) /\ UNCHANGED clocks)
LimitSpec == LimitInit /\ [][LimitNext]_limits
-----------------------------------------------------------------------------
LimitTypeOK ==
  /\ wall \in Int /\ forward \in Nat /\ sets \in Nat
  /\ bucket \in Nat /\ bucket <= Burst * Unit
  /\ last \in Int /\ taken \in Nat

(* What has been handed out, is left, and is due at the next take is never *)
(* more than the burst and what the time brought.                          *)
Accounted ==
  taken * Unit + bucket + Larger(0, wall - last) * Rps <= Burst * Unit + forward * Rps

(* Never more requests than the burst and rps times the time that has      *)
(* passed. A clock put back gives nothing extra, though the same readings  *)
(* come round again; one put forward gives what it was put forward by.     *)
BucketBound == taken * Unit <= Burst * Unit + forward * Rps
=============================================================================
