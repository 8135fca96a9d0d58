------------------------------- MODULE Sharing -------------------------------
(* The parameters of a byte budget that connections of one user share      *)
(* (drpc/throttle.py, drpc/service.py:113-122).                            *)
EXTENDS Integers, FiniteSets

CONSTANTS
  Conns,    \* the connections of one user
  Burst,    \* self.burst, where the level starts
  MaxLine   \* what a line may cost, its answer included

ASSUME SharingConstants == IsFiniteSet(Conns) /\ Burst \in Nat /\ MaxLine \in Nat \ {0}
=============================================================================
