------------------------------ MODULE MCPublish ------------------------------
(* Small instances of Publish: entries begun in one minute, so that slugs  *)
(* collide. e1 and e2 are of one user, e3 of another.                      *)
EXTENDS Publish, TLC

CONSTANTS u1, u2, e1, e2, e3

TwoOwners == [e \in Entries |-> IF e = e3 THEN u2 ELSE u1]
SameMinute == [e \in Entries |-> 0]
=============================================================================
