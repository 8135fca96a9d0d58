------------------------------- MODULE MCWriter -------------------------------
(* Small instances of Writer: one device of one user, one journal, bodies  *)
(* of two characters (blank) and more.                                     *)
EXTENDS Writer, TLC

CONSTANTS dev, u1, j1, t1, t2

OneOwner == [s \in Slots |-> u1]
OneJournalOwner == [j \in Journals |-> u1]
OneSlotOf == [e \in Ids |-> dev]
Chars(S) == [chars : S, media : {FALSE}]
Bodies3 == Chars({2, 3, 4})
BodiesText == Chars({3, 4})
BodiesOne == Chars({3})

Link == [chars |-> 0, media |-> TRUE]    \* a link of more than 2048 characters
Links == {Link}
BodiesTextLink == BodiesText \cup Links
BodiesOneLink == BodiesOne \cup Links

(* The two tabs are interchangeable.                                       *)
TabSymmetry == Permutations({t1, t2})
=============================================================================
