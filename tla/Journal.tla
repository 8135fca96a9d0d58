------------------------------- MODULE Journal -------------------------------
(***************************************************************************)
(* What the journal promises whatever happens to drafts, devices and       *)
(* crashes: a set of entries that is "immutable, and only ever added to"   *)
(* (server/db.js), with one exception, the location of an entry that was   *)
(* tagged when it was committed.                                           *)
(***************************************************************************)
CONSTANTS
  Ids,        \* entry ids, made up by the clients
  Rows,       \* Rows[e]: the rows entry e may be committed as
  Tags,       \* locations an entry can be tagged with
  Untagged,   \* the location of an entry that has none
  NULL        \* no entry

VARIABLE entries   \* [Ids -> row or NULL]

Init == entries = [e \in Ids |-> NULL]

(* One step may commit several entries: a sweep finalizes every due draft. *)
Add ==
  /\ DOMAIN entries' = Ids
  /\ \A e \in Ids :
       \/ entries'[e] = entries[e]
       \/ entries[e] = NULL /\ entries'[e] \in Rows[e]

(* The single exception to immutability.                                   *)
Resolve(e, tag) ==
  /\ entries[e] # NULL
  /\ entries[e].loc # Untagged
  /\ entries' = [entries EXCEPT ![e].loc = tag]

Next == Add \/ \E e \in Ids, tag \in Tags : Resolve(e, tag)

Spec == Init /\ [][Next]_entries
=============================================================================
