------------------------------ MODULE MCEntries ------------------------------
(* Small instances of Entries for TLC. Bodies straddle isBlank's limit.    *)
EXTENDS Entries

CONSTANTS s1, u1, j1, e1, e2, tag1, tag2, bad

Two == [chars |-> 2, media |-> FALSE]     \* blank
Three == [chars |-> 3, media |-> FALSE]
TextBodies == {Two, Three}

(* One device of one user, with one journal.                               *)
OneOwner == [s \in Slots |-> u1]
OneJournalOwner == [j \in Journals |-> u1]
OneSlotOf == [e \in Ids |-> s1]
=============================================================================
