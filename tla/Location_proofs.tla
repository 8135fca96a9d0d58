---------------------------- MODULE Location_proofs ----------------------------
(***************************************************************************)
(* Proofs about Location: one resolver for each entry, no tag on an entry  *)
(* it was not made for, and no tag in the place of a later pick.           *)
(***************************************************************************)
EXTENDS Location, TLAPS

USE LocationConstants DEF LocationConstants

(* A tag is where it belongs: on the entry its pick was made for.          *)
Placed(l, e) == l.pick \in Picks \ late => target[l.pick] = e

(* What a task may still do. A task of an entry that is live, or about to  *)
(* be put, has a pick no older than the entry's own; one of no entry is    *)
(* for the pending location.                                               *)
PendingKinds == {"pendingPosition", "pendingNames", "pendingCentroid"}

EntryTask(t) ==
  /\ t.at \notin PendingKinds
  /\ t.entry <= begun /\ t.stamp <= epochs[t.entry]
  /\ IsPut(t) => t.entry # current
  /\ IsPut(t) \/ Live(t) => t.loc.pick >= local[t.entry].pick
  /\ Placed(t.loc, t.entry)

PendingTask(t) ==
  /\ t.at \in PendingKinds
  /\ t.loc.pick # None /\ IsTagged(t.loc) /\ t.stamp <= pendingToken
  /\ t.at # "pendingPosition" /\ t.stamp = pendingToken =>
       pendingLocation # Absent /\ pendingLocation.pick = t.loc.pick

TaskOK(t) ==
  /\ t.loc.pick <= picks
  /\ IF t.entry = None THEN PendingTask(t) ELSE EntryTask(t)

TasksOK == \A t \in tasks : TaskOK(t)

(* Tasks of one generation are of one pick.                                *)
Together(t, u) ==
  /\ t.entry = u.entry
  /\ \/ t.entry = None /\ t.stamp = u.stamp
     \/ t.entry # None /\ t.entry = current /\ Live(t) /\ Live(u)

OnePick == \A t, u \in tasks : Together(t, u) => t.loc.pick = u.loc.pick

PendingOK ==
  pendingLocation # Absent =>
    LET p == pendingLocation.pick
    IN p \in 1 .. picks /\ (target[p] = None \/ p \in late)

(* Rows are of entries that are finished, and never behind the session.    *)
RowOK(r, e) ==
  /\ r.pick <= picks /\ Placed(r, e)
  /\ e = current \/ e > begun => r = Absent
  /\ r # Absent => r.pick >= local[e].pick

RowsOK ==
  /\ current \in {None, begun} /\ picker <= begun
  /\ \A e \in Ids :
       /\ local[e].pick <= picks /\ Placed(local[e], e)
       /\ e > begun => local[e].pick = None
       /\ RowOK(journal[e], e) /\ RowOK(list[e], e) /\ RowOK(seen[e], e)

(* OneResolverEach, element by element.                                    *)
ResolverKinds == {"names", "putName", "centroid", "putResolved"}
Resolves(t, e) == t.entry = e /\ t.at \in ResolverKinds

OneEach ==
  \A e \in Ids :
    /\ e \in resolving <=> \E t \in tasks : Resolves(t, e)
    /\ \A t, u \in tasks : Resolves(t, e) /\ Resolves(u, e) => t = u

IInv == TypeOK /\ TasksOK /\ OnePick /\ PendingOK /\ RowsOK /\ OneEach
-----------------------------------------------------------------------------
LEMMA InvIsOneResolver == OneEach => OneResolverEach
<1> SUFFICES ASSUME OneEach, NEW e \in Ids
             PROVE  LET mine == {t \in tasks : t.entry = e /\ t.at \in ResolverKinds}
                    IN IF e \in resolving THEN \E t \in mine : mine = {t} ELSE mine = {}
  BY DEF OneResolverEach, ResolverKinds
<1> DEFINE mine == {t \in tasks : t.entry = e /\ t.at \in ResolverKinds}
<1>1. CASE e \in resolving
  <2>1. PICK t \in tasks : Resolves(t, e)
    BY <1>1 DEF OneEach
  <2>2. mine = {t}
    BY <2>1 DEF OneEach, Resolves
  <2>3. QED
    BY <1>1, <2>1, <2>2
<1>2. CASE e \notin resolving
  BY <1>2 DEF OneEach, Resolves
<1>3. QED
  BY <1>1, <1>2

LEMMA InvIsPlaced == RowsOK => TagsStayPut
BY DEF RowsOK, RowOK, Placed, TagsStayPut, LandsWhereMade, Shown

LEMMA Kinds ==
  /\ Absent \in Loc /\ Untagged \in Loc
  /\ \A p \in Picks \cup {None} : \A at \in {"off", "raw", "named", "resolved", "absent"} :
       Tag(p, at) \in Loc /\ Tag(p, at).pick = p /\ Tag(p, at).at = at
BY DEF Loc, Absent, Untagged, Tag

LEMMA NewTask ==
  ASSUME NEW e \in Ids \cup {None}, NEW n \in Nat, NEW l \in Loc,
         NEW at \in {"position", "putTag", "names", "putName", "centroid", "putResolved",
                     "putPlace", "pendingPosition", "pendingNames", "pendingCentroid"}
  PROVE  /\ New(at, e, n, l) \in Task /\ New(at, e, n, l).at = at /\ New(at, e, n, l).entry = e
         /\ New(at, e, n, l).stamp = n /\ New(at, e, n, l).loc = l
BY DEF New, Task

LEMMA SameTask ==
  ASSUME NEW t \in Task, NEW l \in Loc,
         NEW at \in {"position", "putTag", "names", "putName", "centroid", "putResolved",
                     "putPlace", "pendingPosition", "pendingNames", "pendingCentroid"}
  PROVE  LET u == [t EXCEPT !.at = at, !.loc = l]
         IN u \in Task /\ u.at = at /\ u.entry = t.entry /\ u.stamp = t.stamp /\ u.loc = l
BY DEF Task

(* The tasks resolveIfNeeded adds.                                         *)
LEMMA ResolveAdds ==
  ASSUME NEW S \in SUBSET Ids, NEW l \in [Ids -> Loc], NEW stamps \in [Ids -> Nat]
  PROVE  /\ ToResolve(S, l) \subseteq S
         /\ \A e \in ToResolve(S, l) : e \notin resolving /\ IsTagged(l[e])
         /\ \A e \in ToResolve(S, l) : \E u \in Resolve(S, l, stamps) : u.entry = e
         /\ \A u \in Resolve(S, l, stamps) :
              /\ u \in Task /\ u.at = "names" /\ u.entry \in ToResolve(S, l)
              /\ u.stamp = stamps[u.entry] /\ u.loc = l[u.entry]
              /\ u = New("names", u.entry, stamps[u.entry], l[u.entry])
<1>1. \A e \in ToResolve(S, l) : e \in S /\ e \notin resolving /\ Unresolved(l[e])
  BY DEF ToResolve
<1>2. ASSUME NEW e \in ToResolve(S, l)
      PROVE  LET u == New("names", e, stamps[e], l[e])
             IN u \in Task /\ u.at = "names" /\ u.entry = e /\ u.stamp = stamps[e] /\ u.loc = l[e]
  <2>1. e \in Ids /\ stamps[e] \in Nat /\ l[e] \in Loc
    BY <1>1
  <2>2. QED
    BY <2>1, NewTask
<1>3. \A e \in ToResolve(S, l) : IsTagged(l[e])
  BY <1>1 DEF Unresolved, IsTagged
<1>4. QED
  BY <1>1, <1>2, <1>3 DEF Resolve

LEMMA ResolversAdded ==
  ASSUME TypeOK, OneEach, NEW S \in SUBSET Ids, NEW l \in [Ids -> Loc],
         NEW stamps \in [Ids -> Nat],
         tasks' = tasks \cup Resolve(S, l, stamps), resolving' = resolving \cup ToResolve(S, l)
  PROVE  tasks' \subseteq Task /\ resolving' \subseteq Ids /\ OneEach'
<1>1. /\ ToResolve(S, l) \subseteq S
      /\ \A e \in ToResolve(S, l) : e \notin resolving
      /\ \A e \in ToResolve(S, l) : \E u \in Resolve(S, l, stamps) : u.entry = e
      /\ \A u \in Resolve(S, l, stamps) :
           /\ u \in Task /\ u.at = "names" /\ u.entry \in ToResolve(S, l)
           /\ u = New("names", u.entry, stamps[u.entry], l[u.entry])
  BY ResolveAdds
<1>2. ASSUME NEW e \in Ids, e \in ToResolve(S, l)
      PROVE  \A t \in tasks : ~Resolves(t, e)
  BY <1>1, <1>2 DEF OneEach
<1>3. \A u \in Resolve(S, l, stamps) : Resolves(u, u.entry)
  BY <1>1 DEF Resolves, ResolverKinds
<1>4. ASSUME NEW e \in Ids
      PROVE  /\ e \in resolving' <=> \E t \in tasks' : Resolves(t, e)
             /\ \A t, u \in tasks' : Resolves(t, e) /\ Resolves(u, e) => t = u
  <2>1. CASE e \in ToResolve(S, l)
    <3>1. \A t \in tasks' : Resolves(t, e) => t = New("names", e, stamps[e], l[e])
      BY <1>1, <1>2, <2>1 DEF Resolves
    <3>2. \E t \in tasks' : Resolves(t, e)
      BY <1>1, <1>3, <2>1
    <3>3. QED
      BY <2>1, <3>1, <3>2
  <2>2. CASE e \notin ToResolve(S, l)
    <3>1. \A u \in Resolve(S, l, stamps) : ~Resolves(u, e)
      BY <1>1, <2>2 DEF Resolves
    <3>2. QED
      BY <2>2, <3>1 DEF OneEach
  <2>3. QED
    BY <2>1, <2>2
<1>5. QED
  BY <1>1, <1>4 DEF TypeOK, OneEach, Resolves

(* What setEntries leaves, whatever rows l it shows.                       *)
LEMMA ShowsStep ==
  ASSUME IInv, NEW l \in [Ids -> Loc],
         tasks' = tasks \cup Resolve(Ids, l, epochs),
         resolving' = resolving \cup ToResolve(Ids, l),
         UNCHANGED <<begun, local, pendingLocation, pendingToken, epochs, picks, target, late>>,
         current' \in {current, None},
         \A e \in Ids : /\ l[e].pick <= picks /\ Placed(l[e], e)
                        /\ e = current' \/ e > begun => l[e] = Absent
                        /\ l[e] # Absent => l[e].pick >= local[e].pick
  PROVE  /\ tasks' \subseteq Task /\ resolving' \subseteq Ids
         /\ TasksOK' /\ OnePick' /\ PendingOK' /\ OneEach'
<1>1. tasks' \subseteq Task /\ resolving' \subseteq Ids /\ OneEach' /\ epochs \in [Ids -> Nat]
      /\ begun \in Nat /\ \A t \in tasks : t \in Task
  <2>1. epochs \in [Ids -> Nat] /\ begun \in Nat /\ \A t \in tasks : t \in Task
    BY DEF IInv, TypeOK, Ids, None
  <2>2. QED
    BY <2>1, ResolversAdded DEF IInv
<1>2. ASSUME NEW u \in Resolve(Ids, l, epochs)
      PROVE  /\ u \in Task /\ u.at = "names" /\ u.entry \in Ids /\ u.stamp = epochs[u.entry]
             /\ u.loc = l[u.entry] /\ u.loc # Absent /\ u.entry # current' /\ u.entry <= begun
  <2>1. /\ u \in Task /\ u.at = "names" /\ u.entry \in ToResolve(Ids, l)
        /\ u.stamp = epochs[u.entry] /\ u.loc = l[u.entry]
    BY <1>1, ResolveAdds
  <2>2. u.entry \in Ids /\ IsTagged(u.loc)
    BY <1>1, <2>1, ResolveAdds
  <2>3. u.loc # Absent
    BY <2>2 DEF IsTagged, Absent
  <2>4. QED
    BY <1>1, <2>1, <2>2, <2>3 DEF Ids
<1>3. ASSUME NEW t \in tasks'
      PROVE  TaskOK(t)'
  <2>1. CASE t \in tasks
    <3>1. TaskOK(t)
      BY <2>1 DEF IInv, TasksOK
    <3>2. CASE t.entry = None
      BY <3>1, <3>2 DEF TaskOK, PendingTask
    <3>3. CASE t.entry # None
      <4>1. EntryTask(t)
        BY <3>1, <3>3 DEF TaskOK
      <4>2. EntryTask(t)'
        BY <3>3, <4>1 DEF EntryTask, Live, IsPut, Placed
      <4>3. QED
        BY <3>1, <3>3, <4>2 DEF TaskOK
    <3>4. QED
      BY <3>2, <3>3
  <2>2. CASE t \in Resolve(Ids, l, epochs)
    <3>1. t.loc.pick <= picks /\ t.loc.pick >= local[t.entry].pick /\ Placed(t.loc, t.entry)
      BY <1>2, <2>2
    <3>2. t.entry # None /\ t.stamp <= epochs[t.entry]
      BY <1>1, <1>2, <2>2 DEF Ids, None
    <3>3. EntryTask(t)'
      BY <1>2, <2>2, <3>1, <3>2 DEF EntryTask, PendingKinds, IsPut, Placed
    <3>4. QED
      BY <3>1, <3>2, <3>3 DEF TaskOK
  <2>3. QED
    BY <2>1, <2>2
<1>4. OnePick'
  <2> SUFFICES ASSUME NEW t \in tasks', NEW u \in tasks', Together(t, u)'
               PROVE  t.loc.pick = u.loc.pick
    BY DEF OnePick
  <2>1. t \in tasks /\ u \in tasks
    BY <1>2 DEF Together, Ids, None
  <2>2. Together(t, u)
    BY <2>1 DEF Together, Live
  <2>3. QED
    BY <2>1, <2>2 DEF IInv, OnePick
<1>5. PendingOK'
  BY DEF IInv, PendingOK
<1>6. QED
  BY <1>1, <1>3, <1>4, <1>5 DEF TasksOK

LEMMA FinishStep ==
  ASSUME IInv, FinishEntry
  PROVE  IInv'
<1> DEFINE l == [seen EXCEPT ![current] = local[current]]
<1>1. /\ current \in Ids /\ current' = None /\ current = begun /\ seen' = l
      /\ l \in [Ids -> Loc] /\ UNCHANGED <<begun, local, journal, list, picker, picks, failures, history>>
      /\ UNCHANGED <<remembered, pendingLocation, pendingToken, epochs>>
  BY DEF FinishEntry, SetEntries, IInv, TypeOK, RowsOK
<1>2. ASSUME NEW e \in Ids
      PROVE  /\ l[e].pick <= picks /\ Placed(l[e], e)
             /\ e = current' \/ e > begun => l[e] = Absent
             /\ l[e] # Absent => l[e].pick >= local[e].pick
  <2>1. local[e].pick <= picks /\ Placed(local[e], e) /\ RowOK(seen[e], e) /\ local[e].pick \in Int
    BY DEF IInv, RowsOK, TypeOK, Loc, Picks, None
  <2>2. e \in Int /\ begun \in Int
    BY DEF IInv, TypeOK, Ids, None
  <2>3. QED
    BY <1>1, <2>1, <2>2 DEF RowOK, IInv, TypeOK, Ids, None
<1>3. /\ tasks' = tasks \cup Resolve(Ids, l, epochs)
      /\ resolving' = resolving \cup ToResolve(Ids, l)
  BY DEF FinishEntry, SetEntries
<1> HIDE DEF l
<1>4. UNCHANGED <<target, late>>
  BY <1>1 DEF history
<1>5. /\ tasks' \subseteq Task /\ resolving' \subseteq Ids
      /\ TasksOK' /\ OnePick' /\ PendingOK' /\ OneEach'
  BY <1>1, <1>2, <1>3, <1>4, ShowsStep
<1>6. RowsOK'
  <2>1. begun' = begun /\ local' = local /\ journal' = journal /\ list' = list /\ picks' = picks
        /\ picker' = picker
    BY <1>1
  <2>2. \A e \in Ids : RowOK(seen[e], e)'
    BY <1>1, <1>2, <1>4 DEF RowOK, Placed
  <2>3. \A e \in Ids : RowOK(journal[e], e)' /\ RowOK(list[e], e)'
    BY <1>1, <1>4, <2>1 DEF IInv, RowsOK, RowOK, Placed, Ids, None
  <2>4. QED
    BY <1>1, <1>4, <2>1, <2>2, <2>3 DEF IInv, RowsOK, Placed
<1>7. TypeOK'
  BY <1>1, <1>4, <1>5 DEF IInv, TypeOK
<1>8. QED
  BY <1>5, <1>6, <1>7 DEF IInv

LEMMA ListStep ==
  ASSUME IInv, ListEntries \/ RefreshEntries
  PROVE  IInv'
<1> DEFINE merged == [e \in Ids |-> IF list[e] # Absent THEN list[e] ELSE seen[e]]
<1>0. /\ seen \in [Ids -> Loc] /\ list \in [Ids -> Loc] /\ journal \in [Ids -> Loc]
      /\ NoRows \in [Ids -> Loc] /\ \A e \in Ids : NoRows[e] = Absent
  BY Kinds DEF IInv, TypeOK, NoRows
<1>1. PICK l \in {seen, merged} :
        /\ seen' = l /\ tasks' = tasks \cup Resolve(Ids, l, epochs)
        /\ resolving' = resolving \cup ToResolve(Ids, l)
  BY DEF ListEntries, RefreshEntries, SetEntries
<1>2. /\ UNCHANGED <<current, begun, local, journal, picker, picks, failures>>
      /\ UNCHANGED <<remembered, pendingLocation, pendingToken, epochs>>
      /\ UNCHANGED <<target, late>> /\ list' \in {journal, NoRows}
  BY DEF ListEntries, RefreshEntries, SetEntries, history
<1>3. l \in [Ids -> Loc]
  BY <1>0, <1>1
<1>4. ASSUME NEW e \in Ids
      PROVE  RowOK(l[e], e)
  BY <1>0, <1>1 DEF IInv, RowsOK
<1> HIDE DEF merged
<1>5. /\ tasks' \subseteq Task /\ resolving' \subseteq Ids
      /\ TasksOK' /\ OnePick' /\ PendingOK' /\ OneEach'
  BY <1>1, <1>2, <1>3, <1>4, ShowsStep DEF RowOK
<1>6. RowsOK'
  <2>1. ASSUME NEW e \in Ids
        PROVE  RowOK(Absent, e)
    <3>1. picks \in Nat /\ Absent.pick = 0
      BY DEF IInv, TypeOK, Absent, None
    <3>2. QED
      BY <3>1 DEF RowOK, Placed, Picks
  <2>3. ASSUME NEW e \in Ids
        PROVE  RowOK(seen[e], e)' /\ RowOK(journal[e], e)' /\ RowOK(list[e], e)'
    <3>1. RowOK(l[e], e) /\ RowOK(journal[e], e) /\ RowOK(Absent, e)
      BY <1>4, <2>1 DEF IInv, RowsOK
    <3>2. seen'[e] = l[e] /\ journal'[e] = journal[e] /\ list'[e] \in {journal[e], Absent}
      BY <1>0, <1>1, <1>2
    <3>3. QED
      BY <1>2, <3>1, <3>2 DEF RowOK, Placed
  <2>4. QED
    BY <1>2, <2>3 DEF IInv, RowsOK, Placed
<1>7. TypeOK'
  BY <1>0, <1>1, <1>2, <1>3, <1>5 DEF IInv, TypeOK
<1>8. QED
  BY <1>5, <1>6, <1>7 DEF IInv

LEMMA CommitStep ==
  ASSUME IInv, NEW e \in Ids, Commit(e)
  PROVE  IInv'
<1>1. /\ e <= begun /\ e # current /\ journal' = [journal EXCEPT ![e] = local[e]]
      /\ UNCHANGED <<current, begun, local, list, seen, picker, tasks, picks, failures>>
      /\ UNCHANGED <<remembered, pendingLocation, pendingToken, epochs, resolving>>
      /\ UNCHANGED <<target, late>>
  BY DEF Commit, service, history
<1>2. TypeOK'
  BY <1>1 DEF IInv, TypeOK
<1>3. RowsOK'
  <2>1. local[e].pick \in Int /\ local[e].pick <= picks /\ Placed(local[e], e) /\ begun \in Int
    BY DEF IInv, RowsOK, TypeOK, Loc, Picks, Ids, None
  <2>2. \A f \in Ids : RowOK(journal[f], f)'
    BY <1>1, <2>1 DEF IInv, RowsOK, RowOK, Placed, TypeOK, Ids
  <2>3. QED
    BY <1>1, <2>2 DEF IInv, RowsOK, RowOK, Placed
<1>4. TasksOK' /\ OnePick' /\ PendingOK' /\ OneEach'
  BY <1>1 DEF IInv, TasksOK, TaskOK, PendingTask, EntryTask, IsPut, Live, Placed, OnePick, Together,
     PendingOK, OneEach, Resolves
<1>5. QED
  BY <1>2, <1>3, <1>4 DEF IInv

LEMMA OpenPickerStep ==
  ASSUME IInv, OpenPicker \/ UNCHANGED vars
  PROVE  IInv'
<1>1. /\ picker' \in {picker, current}
      /\ UNCHANGED <<current, begun, local, journal, list, seen, tasks, picks, failures>>
      /\ UNCHANGED <<remembered, pendingLocation, pendingToken, epochs, resolving>>
      /\ UNCHANGED <<target, late>>
  BY DEF OpenPicker, service, history, rows, vars
<1>2. TypeOK'
  BY <1>1 DEF IInv, TypeOK
<1>3. RowsOK'
  BY <1>1 DEF IInv, RowsOK, RowOK, Placed, TypeOK, Ids, None
<1>4. TasksOK' /\ OnePick' /\ PendingOK' /\ OneEach'
  BY <1>1 DEF IInv, TasksOK, TaskOK, PendingTask, EntryTask, IsPut, Live, Placed, OnePick, Together,
     PendingOK, OneEach, Resolves
<1>5. QED
  BY <1>2, <1>3, <1>4 DEF IInv
-----------------------------------------------------------------------------
(* A pick is new: no tag, task or row has its number yet.                  *)
LEMMA PickIsNew ==
  ASSUME IInv, Picked
  PROVE  /\ picks' = picks + 1 /\ picks' \in Picks /\ picks \in Nat
         /\ target' = [target EXCEPT ![picks'] = picker] /\ target' \in [Picks -> Ids \cup {None}]
         /\ picker \in Ids \cup {None} /\ picker <= begun /\ picker' = Closed
         /\ UNCHANGED <<current, begun, journal, list, seen, late, failures>>
         /\ \A l \in Loc, e \in Ids : l.pick <= picks /\ Placed(l, e) => Placed(l, e)'
         /\ \A e \in Ids : RowOK(journal[e], e) /\ RowOK(list[e], e) /\ RowOK(seen[e], e)
<1>1. /\ picks' = picks + 1 /\ picks' \in Picks /\ picks \in Nat
      /\ target' = [target EXCEPT ![picks'] = picker]
      /\ picker \in Ids \cup {None} /\ picker <= begun /\ picker' = Closed
      /\ UNCHANGED <<current, begun, journal, list, seen, late, failures>>
  BY DEF IInv, TypeOK, RowsOK, Picked, Picks, rows
<1>2. target' \in [Picks -> Ids \cup {None}]
  BY <1>1 DEF IInv, TypeOK
<1>3. ASSUME NEW l \in Loc, NEW e \in Ids, l.pick <= picks, Placed(l, e)
      PROVE  Placed(l, e)'
  <2>1. l.pick \in Int
    BY DEF Loc, Picks, None
  <2>2. l.pick # picks'
    BY <1>1, <1>3, <2>1
  <2>3. QED
    BY <1>1, <1>3, <2>2 DEF Placed, IInv, TypeOK
<1>4. QED
  BY <1>1, <1>2, <1>3 DEF IInv, RowsOK

(* A pick for an entry ends every generation before it.                    *)
LEMMA PickForEntry ==
  ASSUME IInv, Picked, picker \in Ids, Bump(picker),
         pendingLocation' = Absent, pendingToken' = pendingToken + 1,
         remembered' \in BOOLEAN, UNCHANGED resolving,
         NEW l \in Loc, l.pick = picks', NEW u \in Task,
         u.entry = picker /\ u.stamp = epochs'[picker] /\ u.loc.pick = picks',
         u.at \in {"position", "putPlace"}, u.at = "putPlace" => picker # current,
         tasks' \in {tasks, tasks \cup {u}},
         \/ UNCHANGED local
         \/ picker = current /\ local' = [local EXCEPT ![picker] = l]
  PROVE  IInv'
<1>1. /\ picks' = picks + 1 /\ picks' \in Picks /\ picks \in Nat
      /\ target' = [target EXCEPT ![picks'] = picker] /\ target' \in [Picks -> Ids \cup {None}]
      /\ picker <= begun /\ picker' = Closed /\ target'[picks'] = picker
      /\ UNCHANGED <<current, begun, journal, list, seen, late, failures>>
      /\ \A k \in Loc, e \in Ids : k.pick <= picks /\ Placed(k, e) => Placed(k, e)'
      /\ \A e \in Ids : RowOK(journal[e], e) /\ RowOK(list[e], e) /\ RowOK(seen[e], e)
  BY PickIsNew DEF IInv, TypeOK
<1>2. /\ epochs \in [Ids -> Nat] /\ epochs' = [epochs EXCEPT ![picker] = @ + 1]
      /\ epochs' \in [Ids -> Nat] /\ pendingToken \in Nat /\ begun \in Nat /\ current \in Nat
      /\ local \in [Ids -> Loc] /\ local' \in [Ids -> Loc]
      /\ \A k \in Loc : k.pick \in Nat
      /\ \A e \in Ids : e \in Nat /\ e # None
  <2>1. /\ epochs \in [Ids -> Nat] /\ epochs' = [epochs EXCEPT ![picker] = @ + 1]
        /\ local \in [Ids -> Loc] /\ local' \in [Ids -> Loc] /\ pendingToken \in Nat
    BY DEF IInv, TypeOK, Bump
  <2>2. \A k \in Loc : k.pick \in Nat
    BY DEF Loc, Picks, None
  <2>3. (\A e \in Ids : e \in Nat /\ e # None) /\ begun \in Nat /\ current \in Nat
    BY DEF IInv, TypeOK, Ids, None
  <2>4. QED
    BY <2>1, <2>2, <2>3
<1>3. \A t \in tasks : t \in Task /\ t.loc \in Loc /\ t.stamp \in Nat /\ t.entry \in Ids \cup {None}
  BY DEF IInv, TypeOK, Task
<1>4. TypeOK'
  <2>1. pendingLocation' \in {k \in Loc : IsTagged(k)} \cup {Absent} /\ pendingToken' \in Nat
    BY <1>2
  <2>2. picks' \in 0 .. MaxPicks /\ picker' \in Ids \cup {None, Closed} /\ tasks' \subseteq Task
    BY <1>1, <1>3 DEF Picks
  <2>3. QED
    BY <1>1, <1>2, <2>1, <2>2 DEF IInv, TypeOK
<1>5. ASSUME NEW t \in tasks
      PROVE  TaskOK(t)'
  <2>1. TaskOK(t) /\ t.loc.pick \in Nat
    BY <1>2, <1>3 DEF IInv, TasksOK
  <2>2. CASE t.entry = None
    BY <1>1, <1>2, <1>3, <2>1, <2>2 DEF TaskOK, PendingTask
  <2>3. CASE t.entry # None
    <3>1. EntryTask(t) /\ t.entry \in Ids /\ t.loc.pick <= picks
      BY <1>3, <2>1, <2>3 DEF TaskOK
    <3>2. Placed(t.loc, t.entry)' /\ t.stamp <= epochs'[t.entry]
      BY <1>1, <1>2, <1>3, <3>1 DEF EntryTask
    <3>3. t.entry = picker => t.stamp # epochs'[picker]
      BY <1>2, <1>3, <3>1 DEF EntryTask
    <3>4. IsPut(t) \/ Live(t)' => t.loc.pick >= local'[t.entry].pick
      BY <1>1, <1>2, <1>3, <3>1, <3>3 DEF EntryTask, Live
    <3>5. EntryTask(t)'
      BY <1>1, <3>1, <3>2, <3>4 DEF EntryTask, IsPut
    <3>6. QED
      BY <1>1, <2>1, <2>3, <3>1, <3>5 DEF TaskOK
  <2>4. QED
    BY <2>2, <2>3
<1>6. TaskOK(u)'
  <2>1. Placed(u.loc, u.entry)' /\ u.entry # None /\ u.stamp <= epochs'[u.entry]
    BY <1>1, <1>2 DEF Placed
  <2>2. local'[picker].pick <= picks'
    BY <1>1, <1>2 DEF IInv, RowsOK
  <2>3. EntryTask(u)'
    BY <1>1, <1>2, <2>1, <2>2 DEF EntryTask, PendingKinds, IsPut
  <2>4. QED
    BY <1>1, <2>1, <2>3 DEF TaskOK
<1>7. TasksOK'
  BY <1>5, <1>6 DEF TasksOK
<1>8. OnePick'
  <2> SUFFICES ASSUME NEW t \in tasks', NEW v \in tasks', Together(t, v)'
               PROVE  t.loc.pick = v.loc.pick
    BY DEF OnePick
  <2>1. \A w \in tasks : w.entry = picker => w.stamp # epochs'[picker]
    BY <1>2, <1>3 DEF IInv, TasksOK, TaskOK, EntryTask
  <2>2. CASE t.entry = picker
    BY <1>2, <2>1, <2>2 DEF Together, Live
  <2>3. CASE t.entry # picker
    <3>1. t \in tasks /\ v \in tasks
      BY <2>3 DEF Together
    <3>2. Together(t, v)
      BY <1>1, <1>2, <1>3, <2>3, <3>1 DEF Together, Live
    <3>3. QED
      BY <3>1, <3>2 DEF IInv, OnePick
  <2>4. QED
    BY <2>2, <2>3
<1>9. PendingOK'
  BY DEF PendingOK
<1>10. RowsOK'
  <2>1. ASSUME NEW e \in Ids
        PROVE  /\ local'[e].pick <= picks' /\ Placed(local[e], e)'
               /\ e > begun => local'[e].pick = None
    <3>1. local[e].pick <= picks /\ Placed(local[e], e) /\ (e > begun => local[e].pick = None)
      BY DEF IInv, RowsOK
    <3>2. CASE local'[e] = local[e]
      <4>1. Placed(local[e], e)'
        <5>1. local[e] \in Loc
          BY <1>2
        <5>2. target'[local[e].pick] = target[local[e].pick]
          BY <1>1, <1>2, <3>1, <5>1 DEF IInv, TypeOK
        <5>3. QED
          BY <1>1, <3>1, <3>2, <5>2 DEF Placed
      <4>2. QED
        BY <1>1, <1>2, <3>1, <3>2, <4>1
    <3>3. CASE local'[e] # local[e]
      <4>1. e = picker /\ local'[e] = l
        BY <1>2, <3>3
      <4>2. QED
        BY <1>1, <1>2, <4>1 DEF Placed
    <3>4. QED
      BY <3>2, <3>3
  <2>2. ASSUME NEW e \in Ids, NEW r \in Loc, r \in {journal[e], list[e], seen[e]}
        PROVE  r.pick <= picks' /\ Placed(r, e)' /\ (e = current \/ e > begun => r = Absent)
               /\ (r # Absent => r.pick >= local'[e].pick)
    <3>1. RowOK(r, e)
      BY <1>1, <2>2
    <3>2. r # Absent => local'[e] = local[e]
      BY <1>2, <3>1 DEF RowOK
    <3>3. QED
      BY <1>1, <1>2, <3>1, <3>2 DEF RowOK
  <2>3. \A e \in Ids : RowOK(journal[e], e)' /\ RowOK(list[e], e)' /\ RowOK(seen[e], e)'
    <3>1. \A e \in Ids : journal[e] \in Loc /\ list[e] \in Loc /\ seen[e] \in Loc
      BY DEF IInv, TypeOK
    <3>2. QED
      BY <1>1, <2>2, <3>1 DEF RowOK, Placed
  <2>4. QED
    BY <1>1, <1>2, <2>1, <2>3 DEF IInv, RowsOK, Closed
<1>11. OneEach'
  <2>1. \A e \in Ids : ~Resolves(u, e)
    BY DEF Resolves, ResolverKinds
  <2>2. \A e \in Ids, t \in tasks' : Resolves(t, e) => t \in tasks
    BY <2>1
  <2>3. QED
    BY <2>2 DEF IInv, OneEach, Resolves
<1>12. QED
  BY <1>4, <1>7, <1>8, <1>9, <1>10, <1>11 DEF IInv

LEMMA TagEntryStep ==
  ASSUME IInv, NEW on \in BOOLEAN, TagEntry(on)
  PROVE  IInv'
<1> DEFINE l == Tag(picks', "off")
           k == Tag(picks', "raw")
           u == New("position", picker, epochs'[picker], k)
<1>1. Picked /\ picker \in Ids /\ picks' \in Picks /\ Bump(picker)
  BY PickIsNew DEF TagEntry
<1>2. l \in Loc /\ l.pick = picks' /\ k \in Loc /\ k.pick = picks'
  BY <1>1, Kinds
<1>3. epochs'[picker] \in Nat
  BY <1>1 DEF Bump, IInv, TypeOK
<1>4. u \in Task /\ u.at = "position" /\ u.entry = picker /\ u.stamp = epochs'[picker] /\ u.loc = k
  BY <1>1, <1>2, <1>3, NewTask
<1>5. /\ pendingLocation' = Absent /\ pendingToken' = pendingToken + 1
      /\ remembered' \in BOOLEAN /\ UNCHANGED resolving
      /\ tasks' \in {tasks, tasks \cup {u}}
      /\ \/ UNCHANGED local
         \/ picker = current /\ local' = [local EXCEPT ![picker] = l]
  BY DEF TagEntry
<1> HIDE DEF u, l, k
<1>6. QED
  BY <1>1, <1>2, <1>4, <1>5, PickForEntry

LEMMA TagPlaceStep ==
  ASSUME IInv, TagPlace
  PROVE  IInv'
<1> DEFINE l == Tag(picks', "resolved")
           v == New("putPlace", picker, epochs'[picker], l)
           w == New("position", picker, epochs'[picker], l)
<1>1. Picked /\ picker \in Ids /\ picks' \in Picks /\ Bump(picker)
  BY PickIsNew DEF TagPlace
<1>2. l \in Loc /\ l.pick = picks'
  BY <1>1, Kinds
<1>3. epochs'[picker] \in Nat
  BY <1>1 DEF Bump, IInv, TypeOK
<1>4. /\ v \in Task /\ v.at = "putPlace" /\ v.entry = picker /\ v.stamp = epochs'[picker] /\ v.loc = l
      /\ w \in Task /\ w.at = "position" /\ w.entry = picker /\ w.stamp = epochs'[picker] /\ w.loc = l
  BY <1>1, <1>2, <1>3, NewTask
<1>5. /\ pendingLocation' = Absent /\ pendingToken' = pendingToken + 1
      /\ remembered' \in BOOLEAN /\ UNCHANGED resolving
      /\ \/ tasks' = tasks /\ picker = current /\ local' = [local EXCEPT ![picker] = l]
         \/ tasks' = tasks \cup {v} /\ picker # current /\ UNCHANGED local
  BY DEF TagPlace
<1> HIDE DEF v, w, l
<1>6. CASE picker = current
  BY <1>1, <1>2, <1>4, <1>5, <1>6, PickForEntry
<1>7. CASE picker # current
  BY <1>1, <1>2, <1>4, <1>5, <1>7, PickForEntry
<1>8. QED
  BY <1>6, <1>7

(* A pick for no entry ends the pending picks before it.                   *)
LEMMA PickForNone ==
  ASSUME IInv, Picked, picker = None, pendingToken' = pendingToken + 1,
         remembered' \in BOOLEAN, UNCHANGED <<local, epochs, resolving>>,
         NEW l \in Loc, l.pick = picks', IsTagged(l), NEW u \in Task,
         u.entry = None /\ u.stamp = pendingToken' /\ u.loc = l /\ u.at = "pendingPosition",
         tasks' \in {tasks, tasks \cup {u}},
         pendingLocation' \in {pendingLocation, Absent, l}
  PROVE  IInv'
<1>1. /\ picks' = picks + 1 /\ picks' \in Picks /\ picks \in Nat
      /\ target' = [target EXCEPT ![picks'] = None] /\ target' \in [Picks -> Ids \cup {None}]
      /\ picker <= begun /\ picker' = Closed /\ target'[picks'] = None
      /\ UNCHANGED <<current, begun, journal, list, seen, late, failures>>
      /\ \A k \in Loc, e \in Ids : k.pick <= picks /\ Placed(k, e) => Placed(k, e)'
      /\ \A e \in Ids : RowOK(journal[e], e) /\ RowOK(list[e], e) /\ RowOK(seen[e], e)
  BY PickIsNew DEF IInv, TypeOK
<1>2. /\ epochs \in [Ids -> Nat] /\ pendingToken \in Nat /\ begun \in Nat /\ local \in [Ids -> Loc]
      /\ pendingLocation \in {k \in Loc : IsTagged(k)} \cup {Absent}
      /\ \A k \in Loc : k.pick \in Nat
  <2>1. \A k \in Loc : k.pick \in Nat
    BY DEF Loc, Picks, None
  <2>2. QED
    BY <2>1 DEF IInv, TypeOK, Ids, None
<1>3. \A t \in tasks : t \in Task /\ t.loc \in Loc /\ t.stamp \in Nat /\ t.entry \in Ids \cup {None}
  BY DEF IInv, TypeOK, Task
<1>4. TypeOK'
  <2>1. pendingLocation' \in {k \in Loc : IsTagged(k)} \cup {Absent} /\ pendingToken' \in Nat
    BY <1>2
  <2>2. picks' \in 0 .. MaxPicks /\ picker' \in Ids \cup {None, Closed} /\ tasks' \subseteq Task
    BY <1>1, <1>3 DEF Picks
  <2>3. QED
    BY <1>1, <1>2, <2>1, <2>2 DEF IInv, TypeOK
<1>5. ASSUME NEW t \in tasks
      PROVE  TaskOK(t)'
  <2>1. TaskOK(t) /\ t.loc.pick \in Nat
    BY <1>2, <1>3 DEF IInv, TasksOK
  <2>2. CASE t.entry = None
    BY <1>1, <1>2, <1>3, <2>1, <2>2 DEF TaskOK, PendingTask
  <2>3. CASE t.entry # None
    <3>1. EntryTask(t) /\ t.entry \in Ids /\ t.loc.pick <= picks
      BY <1>3, <2>1, <2>3 DEF TaskOK
    <3>2. Placed(t.loc, t.entry)'
      BY <1>1, <1>3, <3>1 DEF EntryTask
    <3>3. EntryTask(t)'
      BY <1>1, <3>1, <3>2 DEF EntryTask, IsPut, Live
    <3>4. QED
      BY <1>1, <2>1, <2>3, <3>1, <3>3 DEF TaskOK
  <2>4. QED
    BY <2>2, <2>3
<1>6. TaskOK(u)'
  <2>1. u.loc.pick # None
    BY <1>1 DEF Picks, None
  <2>2. QED
    BY <1>1, <1>2, <2>1 DEF TaskOK, PendingTask, PendingKinds
<1>7. TasksOK'
  BY <1>5, <1>6 DEF TasksOK
<1>8. OnePick'
  <2> SUFFICES ASSUME NEW t \in tasks', NEW v \in tasks', Together(t, v)'
               PROVE  t.loc.pick = v.loc.pick
    BY DEF OnePick
  <2>1. \A w \in tasks : w.entry = None => w.stamp # pendingToken'
    BY <1>2, <1>3 DEF IInv, TasksOK, TaskOK, PendingTask
  <2>2. CASE t.entry = None /\ t.stamp = pendingToken'
    <3>1. v.entry = None /\ v.stamp = pendingToken'
      BY <2>2 DEF Together
    <3>2. t = u /\ v = u
      BY <2>1, <2>2, <3>1
    <3>3. QED
      BY <3>2
  <2>3. CASE ~(t.entry = None /\ t.stamp = pendingToken')
    <3>1. t \in tasks /\ v \in tasks
      BY <2>3 DEF Together
    <3>2. Together(t, v)
      BY <1>1, <2>3, <3>1 DEF Together, Live
    <3>3. QED
      BY <3>1, <3>2 DEF IInv, OnePick
  <2>4. QED
    BY <2>2, <2>3
<1>9. PendingOK'
  <2>1. CASE pendingLocation' = pendingLocation
    <3> SUFFICES ASSUME pendingLocation # Absent
                 PROVE  LET p == pendingLocation.pick
                        IN p \in 1 .. picks' /\ (target'[p] = None \/ p \in late)
      BY <1>1, <2>1 DEF PendingOK
    <3> DEFINE p == pendingLocation.pick
    <3>1. p \in 1 .. picks /\ (target[p] = None \/ p \in late)
      BY DEF PendingOK, IInv
    <3>2. p \in Picks /\ p # picks'
      BY <1>1, <3>1 DEF Picks
    <3>3. target'[p] = target[p] /\ p \in 1 .. picks'
      BY <1>1, <3>1, <3>2 DEF IInv, TypeOK
    <3>4. QED
      BY <3>1, <3>3
  <2>2. CASE pendingLocation' = l
    BY <1>1, <2>2 DEF PendingOK, Picks
  <2>3. QED
    BY <2>1, <2>2 DEF PendingOK
<1>10. RowsOK'
  <2>1. ASSUME NEW e \in Ids
        PROVE  /\ local'[e].pick <= picks' /\ Placed(local[e], e)'
               /\ e > begun => local'[e].pick = None
    <3>1. local[e].pick <= picks /\ Placed(local[e], e) /\ (e > begun => local[e].pick = None)
      BY DEF IInv, RowsOK
    <3>2. target'[local[e].pick] = target[local[e].pick] /\ local[e].pick \in Nat
      BY <1>1, <1>2, <3>1 DEF IInv, TypeOK
    <3>3. QED
      BY <1>1, <3>1, <3>2 DEF Placed
  <2>2. \A e \in Ids : RowOK(journal[e], e)' /\ RowOK(list[e], e)' /\ RowOK(seen[e], e)'
    <3>1. ASSUME NEW e \in Ids, NEW r \in Loc, r \in {journal[e], list[e], seen[e]}
          PROVE  r.pick <= picks' /\ Placed(r, e)' /\ (e = current \/ e > begun => r = Absent)
                 /\ (r # Absent => r.pick >= local[e].pick)
      <4>1. RowOK(r, e)
        BY <1>1, <3>1
      <4>2. QED
        BY <1>1, <1>2, <4>1 DEF RowOK
    <3>2. \A e \in Ids : journal[e] \in Loc /\ list[e] \in Loc /\ seen[e] \in Loc
      BY DEF IInv, TypeOK
    <3>3. QED
      BY <1>1, <3>1, <3>2 DEF RowOK, Placed
  <2>3. QED
    BY <1>1, <1>2, <2>1, <2>2 DEF IInv, RowsOK, Closed
<1>11. OneEach'
  <2>1. \A e \in Ids : ~Resolves(u, e)
    BY DEF Resolves, ResolverKinds
  <2>2. \A e \in Ids, t \in tasks' : Resolves(t, e) => t \in tasks
    BY <2>1
  <2>3. QED
    BY <2>2 DEF IInv, OneEach, Resolves
<1>12. QED
  BY <1>4, <1>7, <1>8, <1>9, <1>10, <1>11 DEF IInv

LEMMA TagPendingStep ==
  ASSUME IInv, TagPendingPlace \/ \E on \in BOOLEAN : TagPending(on)
  PROVE  IInv'
<1> DEFINE k == Tag(picks', "raw")
           l == Tag(picks', "resolved")
           u == New("pendingPosition", None, pendingToken', k)
           v == New("pendingPosition", None, pendingToken', l)
<1>1. /\ Picked /\ picker = None /\ picks' \in Picks
      /\ pendingToken' = pendingToken + 1 /\ pendingToken' \in Nat
      /\ remembered' \in BOOLEAN /\ UNCHANGED <<local, epochs, resolving>>
  <2>1. /\ Picked /\ picker = None
        /\ pendingToken' = pendingToken + 1
        /\ remembered' \in BOOLEAN /\ UNCHANGED <<local, epochs, resolving>>
    BY DEF TagPending, TagPendingPlace
  <2>2. pendingToken \in Nat
    BY DEF IInv, TypeOK
  <2>3. QED
    BY <2>1, <2>2, PickIsNew
<1>2. l \in Loc /\ l.pick = picks' /\ IsTagged(l) /\ k \in Loc /\ k.pick = picks' /\ IsTagged(k)
  BY <1>1, Kinds DEF IsTagged
<1>3. /\ u \in Task /\ u.at = "pendingPosition" /\ u.entry = None /\ u.stamp = pendingToken' /\ u.loc = k
      /\ v \in Task /\ v.at = "pendingPosition" /\ v.entry = None /\ v.stamp = pendingToken' /\ v.loc = l
  BY <1>1, <1>2, NewTask
<1>4. \/ tasks' \in {tasks, tasks \cup {u}} /\ pendingLocation' \in {pendingLocation, Absent}
      \/ tasks' = tasks /\ pendingLocation' = l
  BY DEF TagPending, TagPendingPlace
<1> HIDE DEF k, l, u, v
<1>5. CASE pendingLocation' \in {pendingLocation, Absent} /\ tasks' \in {tasks, tasks \cup {u}}
  BY <1>1, <1>2, <1>3, <1>5, PickForNone
<1>6. CASE pendingLocation' = l /\ tasks' = tasks
  BY <1>1, <1>2, <1>3, <1>6, PickForNone
<1>7. QED
  BY <1>4, <1>5, <1>6
-----------------------------------------------------------------------------
(* A new entry takes over the picks made for none; nothing knows it yet.   *)
LEMMA AimedKeeps ==
  ASSUME IInv, NEW e \in Ids
  PROVE  /\ Aimed(e) \in [Picks -> Ids \cup {None}]
         /\ \A p \in Picks : Aimed(e)[p] # target[p] => target[p] = None /\ Aimed(e)[p] = e
         /\ \A p \in Picks : p <= picks => Aimed(e)[p] # None
         /\ \A p \in Picks : p <= picks /\ target[p] = None => Aimed(e)[p] = e
<1>1. target \in [Picks -> Ids \cup {None}] /\ e # None
  BY DEF IInv, TypeOK, Ids, None
<1>2. ASSUME NEW p \in Picks
      PROVE  /\ Aimed(e)[p] \in Ids \cup {None}
             /\ Aimed(e)[p] = IF p <= picks /\ target[p] = None THEN e ELSE target[p]
  BY <1>1 DEF Aimed
<1>3. Aimed(e) \in [Picks -> Ids \cup {None}]
  BY <1>2 DEF Aimed
<1>4. ASSUME NEW p \in Picks
      PROVE  /\ Aimed(e)[p] # target[p] => target[p] = None /\ Aimed(e)[p] = e
             /\ p <= picks => Aimed(e)[p] # None
             /\ p <= picks /\ target[p] = None => Aimed(e)[p] = e
  <2>1. CASE p <= picks /\ target[p] = None
    <3>1. Aimed(e)[p] = e
      BY <1>2, <2>1
    <3>2. QED
      BY <1>1, <2>1, <3>1
  <2>2. CASE ~(p <= picks /\ target[p] = None)
    <3>1. Aimed(e)[p] = target[p]
      BY <1>2, <2>2
    <3>2. QED
      BY <1>1, <2>2, <3>1
  <2>3. QED
    BY <2>1, <2>2
<1>5. QED
  BY <1>3, <1>4

LEMMA StartKeeps ==
  ASSUME IInv, NEW e \in Ids, e = begun + 1, current = None, picker = Closed,
         begun' = e, current' = e, UNCHANGED <<journal, list, seen, picker, late, failures, remembered>>,
         picks' \in {picks, picks + 1}, picks' \in 0 .. MaxPicks,
         target' \in [Picks -> Ids \cup {None}],
         \A p \in Picks : p <= picks => target'[p] = Aimed(e)[p],
         epochs' \in {epochs, [epochs EXCEPT ![e] = @ + 1]},
         NEW l \in Loc, local' = [local EXCEPT ![e] = l], l.pick <= picks, Placed(l, e)'
  PROVE  /\ \A t \in tasks : t.entry # None => TaskOK(t)' /\ t.entry # e
         /\ \A k \in Loc, f \in Ids : k.pick <= picks /\ Placed(k, f) => Placed(k, f)'
         /\ RowsOK'
<1>1. /\ picks \in Nat /\ begun \in Nat /\ local \in [Ids -> Loc] /\ epochs \in [Ids -> Nat]
      /\ journal \in [Ids -> Loc] /\ list \in [Ids -> Loc] /\ seen \in [Ids -> Loc]
  BY DEF IInv, TypeOK, Ids, None
<1>2. (\A k \in Loc : k.pick \in Nat) /\ \A f \in Ids : f \in Nat /\ f # None
  BY DEF Loc, Picks, Ids, None
<1>3. ASSUME NEW k \in Loc, NEW f \in Ids, k.pick <= picks, Placed(k, f)
      PROVE  Placed(k, f)'
  <2>1. CASE k.pick \in Picks \ late
    <3>1. target[k.pick] = f /\ f # None
      BY <1>2, <1>3, <2>1 DEF Placed
    <3>2. target'[k.pick] = target[k.pick]
      BY <1>3, <2>1, <3>1, AimedKeeps
    <3>3. QED
      BY <3>1, <3>2 DEF Placed
  <2>2. QED
    BY <2>1 DEF Placed
<1>4. ASSUME NEW t \in tasks, t.entry # None
      PROVE  TaskOK(t)' /\ t.entry # e
  <2>0. EntryTask(t) /\ t.loc.pick <= picks /\ t.entry \in Ids /\ t.loc \in Loc
    BY <1>4 DEF IInv, TasksOK, TaskOK, TypeOK, Task
  <2>1. EntryTask(t) /\ t.loc.pick <= picks /\ t.entry \in Ids /\ t.loc \in Loc
        /\ t.entry <= begun
    BY <2>0 DEF EntryTask
  <2>2. t.entry # e /\ t.entry <= begun'
    <3>1. t.entry \in Nat /\ e \in Nat /\ t.entry <= begun
      BY <1>2, <2>1
    <3>2. QED
      BY <1>1, <3>1
  <2>3. local'[t.entry] = local[t.entry] /\ epochs'[t.entry] = epochs[t.entry]
    BY <1>1, <2>1, <2>2
  <2>4. Placed(t.loc, t.entry)'
    BY <1>3, <2>1 DEF EntryTask
  <2>5. EntryTask(t)'
    BY <2>1, <2>2, <2>3, <2>4 DEF EntryTask, IsPut, Live
  <2>6. t.loc.pick <= picks'
    BY <1>1, <1>2, <2>1
  <2>7. QED
    BY <1>4, <2>2, <2>5, <2>6 DEF TaskOK
<1>5. ASSUME NEW f \in Ids
      PROVE  /\ local'[f].pick <= picks' /\ Placed(local[f], f)' /\ (f > begun' => local'[f].pick = None)
  <2>1. local[f].pick <= picks /\ Placed(local[f], f) /\ (f > begun => local[f].pick = None)
    BY DEF IInv, RowsOK
  <2>2. CASE f = e
    BY <1>1, <1>2, <2>2 DEF Placed
  <2>3. CASE f # e
    <3>1. local'[f] = local[f] /\ local[f] \in Loc
      BY <1>1, <2>3
    <3>2. \A k \in Loc : k.pick <= picks /\ Placed(k, f) => Placed(k, f)'
      BY <1>3
    <3>3. Placed(local[f], f)'
      BY <2>1, <3>1, <3>2 DEF Placed
    <3>4. QED
      BY <1>1, <1>2, <2>1, <3>1, <3>3
  <2>4. QED
    BY <2>2, <2>3
<1>6. ASSUME NEW f \in Ids, NEW r \in Loc, RowOK(r, f)
      PROVE  /\ r.pick <= picks' /\ Placed(r, f)' /\ (f = current' \/ f > begun' => r = Absent)
             /\ (r # Absent => r.pick >= local'[f].pick)
  <2>1. Placed(r, f)' /\ r.pick <= picks'
    BY <1>1, <1>2, <1>3, <1>6 DEF RowOK
  <2>2. f = e => r = Absent
    BY <1>1, <1>2, <1>6 DEF RowOK
  <2>3. f # e => local'[f] = local[f]
    BY <1>1
  <2>4. QED
    BY <1>1, <1>2, <1>6, <2>1, <2>2, <2>3 DEF RowOK
<1>7. \A f \in Ids : RowOK(journal[f], f)' /\ RowOK(list[f], f)' /\ RowOK(seen[f], f)'
  <2>1. \A f \in Ids : RowOK(journal[f], f) /\ RowOK(list[f], f) /\ RowOK(seen[f], f)
    BY DEF IInv, RowsOK
  <2>2. QED
    BY <1>1, <1>6, <2>1 DEF RowOK, Placed
<1>8. RowsOK'
  BY <1>1, <1>5, <1>7 DEF IInv, RowsOK, Closed
<1>9. QED
  BY <1>3, <1>4, <1>8

(* ... with the pending location l, which has its own task to resolve it.  *)
LEMMA PendingStart ==
  ASSUME IInv, NEW e \in Ids, e = begun', StartEntry, AutoTagPending(e),
         NEW l \in Loc, l = pendingLocation
  PROVE  IInv'
<1>1. /\ e = begun + 1 /\ current = None /\ picker = Closed /\ current' = e
      /\ begun \in Nat
      /\ UNCHANGED <<journal, list, seen, picker, late, failures, picks, remembered>>
  BY DEF StartEntry, AutoTagPending, rows, IInv, TypeOK, Ids, None
<1>2. /\ pendingLocation # Absent /\ pendingLocation' = Absent /\ pendingToken' = pendingToken + 1
      /\ epochs' = [epochs EXCEPT ![e] = @ + 1]
      /\ local' = [local EXCEPT ![e] = l]
      /\ tasks' = tasks \cup Resolve({e}, local', epochs')
      /\ resolving' = resolving \cup ToResolve({e}, local')
      /\ target' = Aimed(e)
  BY DEF AutoTagPending, Bump
<1>3. /\ IsTagged(l) /\ l.pick \in 1 .. picks /\ (target[l.pick] = None \/ l.pick \in late)
      /\ picks \in Nat /\ picks \in 0 .. MaxPicks
  BY <1>2 DEF IInv, TypeOK, PendingOK
<1>4. /\ local' \in [Ids -> Loc] /\ local'[e] = l /\ epochs' \in [Ids -> Nat] /\ epochs \in [Ids -> Nat]
      /\ target' \in [Picks -> Ids \cup {None}] /\ pendingToken \in Nat
      /\ \A k \in Ids : k # None
  BY <1>1, <1>2, <1>3, AimedKeeps, SMTT(30) DEF IInv, TypeOK, Ids, None
<1>5. Placed(l, e)'
  <2>1. l.pick \in Picks /\ l.pick <= picks
    BY <1>3 DEF Picks
  <2>2. ASSUME l.pick \notin late
        PROVE  Aimed(e)[l.pick] = e
    BY <1>1, <1>3, <2>1, <2>2, AimedKeeps
  <2>3. QED
    BY <1>1, <1>2, <2>2 DEF Placed
<1>6. /\ \A t \in tasks : t.entry # None => TaskOK(t)' /\ t.entry # e
      /\ RowsOK'
  <2>1. \A p \in Picks : p <= picks => target'[p] = Aimed(e)[p]
    BY <1>2
  <2>2. l.pick <= picks
    BY <1>3
  <2>3. QED
    BY <1>1, <1>2, <1>3, <1>4, <1>5, <2>1, <2>2, StartKeeps
<1>7. /\ tasks' \subseteq Task /\ resolving' \subseteq Ids /\ OneEach'
  BY <1>2, <1>4, ResolversAdded DEF IInv
<1>8. \A u \in Resolve({e}, local', epochs') :
        u \in Task /\ u.at = "names" /\ u.entry = e /\ u.stamp = epochs'[e] /\ u.loc = l
  BY <1>4, ResolveAdds
<1>9. TasksOK'
  <2>1. ASSUME NEW t \in tasks, t.entry = None
        PROVE  TaskOK(t)'
    <3>1. TaskOK(t) /\ t.stamp \in Nat
      BY <2>1 DEF IInv, TasksOK, TypeOK, Task
    <3>2. QED
      BY <1>1, <1>2, <1>4, <2>1, <3>1 DEF TaskOK, PendingTask
  <2>2. ASSUME NEW u \in Resolve({e}, local', epochs')
        PROVE  TaskOK(u)'
    <3>1. u.at = "names" /\ u.entry = e /\ u.stamp = epochs'[e] /\ u.loc = l
      BY <1>8
    <3>2. l.pick <= picks /\ l.pick >= local'[e].pick /\ u.entry # None /\ u.stamp <= epochs'[u.entry]
      BY <1>3, <1>4, <3>1
    <3>3. Placed(u.loc, u.entry)'
      BY <1>5, <3>1 DEF Placed
    <3>4. EntryTask(u)'
      BY <1>1, <1>4, <3>1, <3>2, <3>3 DEF EntryTask, PendingKinds, IsPut
    <3>5. QED
      BY <1>1, <3>1, <3>2, <3>4 DEF TaskOK
  <2>3. QED
    BY <1>2, <1>6, <2>1, <2>2 DEF TasksOK
<1>10. OnePick'
  <2> SUFFICES ASSUME NEW t \in tasks', NEW u \in tasks', Together(t, u)'
               PROVE  t.loc.pick = u.loc.pick
    BY DEF OnePick
  <2>1. CASE t.entry = None
    <3>1. u.entry = None /\ t.stamp = u.stamp
      BY <2>1 DEF Together
    <3>2. t \in tasks /\ u \in tasks
      BY <1>2, <1>4, <1>8, <2>1, <3>1
    <3>3. Together(t, u)
      BY <2>1, <3>1 DEF Together
    <3>4. QED
      BY <3>2, <3>3 DEF IInv, OnePick
  <2>2. CASE t.entry # None
    <3>1. t.entry = e /\ u.entry = e
      BY <1>1, <2>2 DEF Together
    <3>2. t.loc = l /\ u.loc = l
      BY <1>2, <1>4, <1>6, <1>8, <3>1
    <3>3. QED
      BY <3>2
  <2>3. QED
    BY <2>1, <2>2
<1>11. PendingOK'
  BY <1>2 DEF PendingOK
<1>12. TypeOK'
  <2>1. current' \in Ids /\ begun' \in Ids /\ picker' \in Ids \cup {None, Closed}
    BY <1>1 DEF IInv, TypeOK
  <2>2. {journal, list, seen}' \subseteq [Ids -> Loc] /\ remembered' \in BOOLEAN
    BY <1>1 DEF IInv, TypeOK
  <2>3. pendingLocation' \in {k \in Loc : IsTagged(k)} \cup {Absent} /\ pendingToken' \in Nat
    BY <1>2, <1>4
  <2>4. picks' \in 0 .. MaxPicks /\ failures' \in 0 .. MaxFailures /\ late' \subseteq Picks
    BY <1>1, <1>3 DEF IInv, TypeOK
  <2>5. QED
    BY <1>4, <1>7, <2>1, <2>2, <2>3, <2>4 DEF TypeOK
<1>13. QED
  BY <1>6, <1>7, <1>9, <1>10, <1>11, <1>12 DEF IInv

(* ... with no pending location: it is tagged automatically, or not.       *)
LEMMA RememberedStart ==
  ASSUME IInv, NEW e \in Ids, e = begun', StartEntry, AutoTagRemembered(e),
         NEW l \in Loc, l = local[e]
  PROVE  IInv'
<1> DEFINE k == Tag(picks', "raw")
           u == New("position", e, epochs'[e], k)
<1>1. /\ e = begun + 1 /\ current = None /\ picker = Closed /\ current' = e
      /\ begun \in Nat
      /\ UNCHANGED <<journal, list, seen, picker, late, failures, remembered>>
      /\ UNCHANGED <<local, pendingLocation, pendingToken, resolving>> /\ pendingLocation = Absent
  BY DEF StartEntry, AutoTagRemembered, rows, IInv, TypeOK, Ids, None
<1>2. /\ picks \in Nat /\ local \in [Ids -> Loc] /\ epochs \in [Ids -> Nat] /\ picks \in 0 .. MaxPicks
      /\ \A f \in Ids : f # None
  BY DEF IInv, TypeOK, Ids, None
<1>3. l.pick = None /\ Placed(l, e)' /\ l.pick <= picks
  <2>1. e > begun
    BY <1>1
  <2>2. l.pick = None
    BY <2>1 DEF IInv, RowsOK
  <2>3. QED
    BY <1>2, <2>2 DEF Placed, Picks, None
<1>4. \/ tasks' = tasks /\ picks' = picks /\ epochs' = epochs /\ target' = Aimed(e)
      \/ /\ picks' = picks + 1 /\ picks' \in Picks /\ epochs' = [epochs EXCEPT ![e] = @ + 1]
         /\ tasks' = tasks \cup {u} /\ target' = [Aimed(e) EXCEPT ![picks'] = e]
  BY <1>2 DEF AutoTagRemembered, Bump, Picks
<1>5. /\ epochs' \in [Ids -> Nat] /\ picks' \in 0 .. MaxPicks /\ picks' \in {picks, picks + 1}
      /\ epochs' \in {epochs, [epochs EXCEPT ![e] = @ + 1]}
      /\ target' \in [Picks -> Ids \cup {None}]
      /\ \A p \in Picks : p <= picks => target'[p] = Aimed(e)[p]
  <2>1. Aimed(e) \in [Picks -> Ids \cup {None}]
    BY AimedKeeps
  <2>2. CASE tasks' = tasks /\ picks' = picks /\ epochs' = epochs /\ target' = Aimed(e)
    BY <1>2, <2>1, <2>2
  <2>3. CASE /\ picks' = picks + 1 /\ picks' \in Picks /\ epochs' = [epochs EXCEPT ![e] = @ + 1]
             /\ target' = [Aimed(e) EXCEPT ![picks'] = e]
    <3>1. \A p \in Picks : p <= picks => p # picks'
      BY <1>2, <2>3 DEF Picks
    <3>2. QED
      BY <1>2, <2>1, <2>3, <3>1 DEF Picks
  <2>4. QED
    BY <1>4, <2>2, <2>3
<1>6. /\ \A t \in tasks : t.entry # None => TaskOK(t)' /\ t.entry # e
      /\ RowsOK'
  <2>1. local' = [local EXCEPT ![e] = l]
    BY <1>1, <1>2
  <2>2. QED
    BY <1>1, <1>3, <1>5, <2>1, StartKeeps
<1>7. tasks' \in {tasks, tasks \cup {u}}
  BY <1>4
<1>8. tasks' = tasks \cup {u} =>
        tasks' = tasks \/
        /\ u \in Task /\ u.at = "position" /\ u.entry = e /\ u.stamp = epochs'[e] /\ u.loc = k
        /\ k \in Loc /\ k.pick = picks' /\ picks' \in Picks /\ target'[picks'] = e
  <2>1. CASE picks' \in Picks /\ target' = [Aimed(e) EXCEPT ![picks'] = e]
    <3>1. k \in Loc /\ k.pick = picks'
      BY <2>1, Kinds
    <3>2. u \in Task /\ u.at = "position" /\ u.entry = e /\ u.stamp = epochs'[e] /\ u.loc = k
      BY <1>5, <3>1, NewTask
    <3>3. target'[picks'] = e
      BY <2>1, AimedKeeps
    <3>4. QED
      BY <2>1, <3>1, <3>2, <3>3
  <2>2. QED
    BY <1>4, <2>1
<1>9. PICK U \in SUBSET {u} :
        /\ tasks' = tasks \cup U
        /\ \A v \in U : /\ v \in Task /\ v.at = "position" /\ v.entry = e /\ v.stamp = epochs'[e]
                        /\ v.loc.pick = picks' /\ picks' \in Picks /\ target'[picks'] = e
                        /\ \A w \in U : w = v
  <2>1. CASE tasks' = tasks
    <3>1. WITNESS {} \in SUBSET {u}
    <3>2. QED
      BY <2>1
  <2>2. CASE tasks' = tasks \cup {u} /\ tasks' # tasks
    <3>1. WITNESS {u} \in SUBSET {u}
    <3>2. QED
      BY <1>8, <2>2
  <2>3. QED
    BY <1>7, <2>1, <2>2
<1> HIDE DEF k, u
<1>10. TasksOK'
  <2>1. ASSUME NEW t \in tasks, t.entry = None
        PROVE  TaskOK(t)'
    <3>1. TaskOK(t) /\ t.loc.pick \in Nat
      BY <2>1 DEF IInv, TasksOK, TypeOK, Task, Loc, Picks, None
    <3>2. t.loc.pick <= picks'
      BY <1>2, <1>5, <3>1 DEF TaskOK
    <3>3. QED
      BY <1>1, <2>1, <3>1, <3>2 DEF TaskOK, PendingTask
  <2>2. ASSUME NEW v \in U
        PROVE  TaskOK(v)'
    <3>1. /\ v.at = "position" /\ v.entry = e /\ v.stamp = epochs'[e] /\ v.loc.pick = picks'
          /\ picks' \in Picks /\ target'[picks'] = e
      BY <1>9
    <3>2. picks' \in Nat /\ epochs'[e] \in Nat /\ local'[e].pick = None
      BY <1>1, <1>3, <1>5
    <3>3. Placed(v.loc, v.entry)' /\ v.stamp <= epochs'[v.entry] /\ v.loc.pick >= local'[v.entry].pick
      BY <3>1, <3>2 DEF Placed, None
    <3>4. EntryTask(v)'
      BY <1>1, <3>1, <3>3 DEF EntryTask, PendingKinds, IsPut
    <3>5. QED
      BY <1>2, <3>1, <3>2, <3>4 DEF TaskOK
  <2>3. QED
    BY <1>6, <1>9, <2>1, <2>2 DEF TasksOK
<1>11. OnePick'
  <2> SUFFICES ASSUME NEW t \in tasks', NEW v \in tasks', Together(t, v)'
               PROVE  t.loc.pick = v.loc.pick
    BY DEF OnePick
  <2>1. CASE t.entry = None
    <3>1. v.entry = None /\ t.stamp = v.stamp
      BY <2>1 DEF Together
    <3>2. t \in tasks /\ v \in tasks
      BY <1>2, <1>9, <2>1, <3>1
    <3>3. Together(t, v)
      BY <2>1, <3>1 DEF Together
    <3>4. QED
      BY <3>2, <3>3 DEF IInv, OnePick
  <2>2. CASE t.entry # None
    <3>1. t.entry = e /\ v.entry = e
      BY <1>1, <2>2 DEF Together
    <3>2. t \in U /\ v \in U
      BY <1>2, <1>6, <1>9, <3>1
    <3>3. QED
      BY <1>9, <3>2
  <2>3. QED
    BY <2>1, <2>2
<1>12. PendingOK'
  BY <1>1 DEF PendingOK
<1>13. OneEach'
  <2>1. \A v \in U, f \in Ids : ~Resolves(v, f)
    BY <1>9 DEF Resolves, ResolverKinds
  <2>2. \A f \in Ids, t \in tasks' : Resolves(t, f) => t \in tasks
    BY <1>9, <2>1
  <2>3. QED
    BY <1>1, <1>9, <2>2 DEF IInv, OneEach, Resolves
<1>14. TypeOK'
  <2>1. /\ current' \in Ids /\ begun' \in Ids /\ picker' \in Ids \cup {None, Closed}
        /\ local' \in [Ids -> Loc]
    BY <1>1, <1>2 DEF IInv, TypeOK
  <2>2. {journal, list, seen}' \subseteq [Ids -> Loc] /\ remembered' \in BOOLEAN
    BY <1>1 DEF IInv, TypeOK
  <2>3. pendingLocation' \in {m \in Loc : IsTagged(m)} \cup {Absent} /\ pendingToken' \in Nat
    BY <1>1 DEF IInv, TypeOK
  <2>4. failures' \in 0 .. MaxFailures /\ late' \subseteq Picks /\ resolving' \subseteq Ids
    BY <1>1 DEF IInv, TypeOK
  <2>5. tasks' \subseteq Task
    BY <1>9 DEF IInv, TypeOK
  <2>6. QED
    BY <1>5, <2>1, <2>2, <2>3, <2>4, <2>5 DEF TypeOK
<1>15. QED
  BY <1>6, <1>10, <1>11, <1>12, <1>13, <1>14 DEF IInv

LEMMA StartStep ==
  ASSUME IInv, StartEntry
  PROVE  IInv'
<1>1. begun' \in Ids /\ begun + 1 = begun'
  BY DEF StartEntry, IInv, TypeOK, Ids, None
<1>2. local[begun'] \in Loc
  BY <1>1 DEF IInv, TypeOK
<1>3. CASE AutoTagPending(begun')
  <2>1. pendingLocation \in Loc
    BY <1>3, Kinds DEF IInv, TypeOK, AutoTagPending
  <2>2. QED
    BY <1>1, <1>3, <2>1, PendingStart
<1>4. CASE AutoTagRemembered(begun')
  BY <1>1, <1>2, <1>4, RememberedStart
<1>5. QED
  BY <1>3, <1>4 DEF StartEntry

-----------------------------------------------------------------------------
(* A task ends, or goes on; the resolver of an entry stays its only one.   *)
LEMMA ResolverGoes ==
  ASSUME IInv, NEW t \in tasks, NEW u \in Task, u.entry = t.entry,
         \/ /\ tasks' = tasks \ {t}
            /\ resolving' = IF t.at \in ResolverKinds THEN resolving \ {t.entry} ELSE resolving
         \/ /\ tasks' = (tasks \ {t}) \cup {u} /\ UNCHANGED resolving
            /\ t.at \in ResolverKinds <=> u.at \in ResolverKinds
         \/ /\ tasks' = (tasks \ {t}) \cup {u} /\ resolving' = resolving \cup {t.entry}
            /\ t.entry \in Ids \ resolving /\ t.at \notin ResolverKinds /\ u.at \in ResolverKinds
  PROVE  OneEach' /\ resolving' \subseteq Ids /\ tasks' \subseteq Task
<1>1. resolving \subseteq Ids /\ tasks \subseteq Task
  BY DEF IInv, TypeOK
<1>2. ASSUME NEW e \in Ids
      PROVE  /\ e \in resolving' <=> \E v \in tasks' : Resolves(v, e)
             /\ \A v, w \in tasks' : Resolves(v, e) /\ Resolves(w, e) => v = w
  <2>1. /\ e \in resolving <=> \E v \in tasks : Resolves(v, e)
        /\ \A v, w \in tasks : Resolves(v, e) /\ Resolves(w, e) => v = w
    BY DEF IInv, OneEach
  <2>2. CASE t.entry # e
    <3>1. ~Resolves(t, e) /\ ~Resolves(u, e)
      BY <2>2 DEF Resolves
    <3>2. e \in resolving' <=> e \in resolving
      BY <2>2
    <3>3. \A v : Resolves(v, e) => (v \in tasks' <=> v \in tasks)
      BY <3>1
    <3>4. QED
      BY <2>1, <3>2, <3>3
  <2>3. CASE t.entry = e /\ tasks' = tasks \ {t} /\
             resolving' = IF t.at \in ResolverKinds THEN resolving \ {t.entry} ELSE resolving
    <3>1. CASE t.at \in ResolverKinds
      BY <2>1, <2>3, <3>1 DEF Resolves
    <3>2. CASE t.at \notin ResolverKinds
      BY <2>1, <2>3, <3>2 DEF Resolves
    <3>3. QED
      BY <3>1, <3>2
  <2>4. CASE t.entry = e /\ tasks' = (tasks \ {t}) \cup {u} /\ UNCHANGED resolving
             /\ (t.at \in ResolverKinds <=> u.at \in ResolverKinds)
    <3>1. Resolves(t, e) <=> Resolves(u, e)
      BY <2>4 DEF Resolves
    <3>2. QED
      BY <2>1, <2>4, <3>1
  <2>5. CASE t.entry = e /\ tasks' = (tasks \ {t}) \cup {u} /\ resolving' = resolving \cup {t.entry}
             /\ t.entry \in Ids \ resolving /\ t.at \notin ResolverKinds /\ u.at \in ResolverKinds
    <3>1. Resolves(u, e) /\ \A v \in tasks : ~Resolves(v, e)
      BY <2>1, <2>5 DEF Resolves
    <3>2. QED
      BY <2>5, <3>1
  <2>6. QED
    BY <2>2, <2>3, <2>4, <2>5
<1>3. resolving' \subseteq Ids /\ tasks' \subseteq Task
  BY <1>1
<1>4. QED
  BY <1>2, <1>3 DEF OneEach

(* A task of an entry ends, or goes on as u; it may set the location of    *)
(* the entry while that is open, or of its rows.                           *)
LEMMA EntryGoes ==
  ASSUME IInv, NEW t \in tasks, EntryTask(t), t.entry \in Ids, t.loc.pick <= picks,
         NEW l \in Loc, l.pick = t.loc.pick,
         NEW u \in Task, u.entry = t.entry /\ u.stamp = t.stamp /\ u.loc = l,
         \/ tasks' = tasks \ {t}
         \/ /\ tasks' = (tasks \ {t}) \cup {u} /\ u.at \notin PendingKinds
            /\ IsPut(u) => u.entry # current
            /\ IsPut(t) \/ Live(t),
         \/ UNCHANGED local
         \/ t.entry = current /\ Live(t) /\ local' = [local EXCEPT ![t.entry] = l],
         \/ UNCHANGED <<journal, seen>>
         \/ /\ IsPut(t) /\ IsTagged(journal[t.entry])
            /\ journal' = [journal EXCEPT ![t.entry] = t.loc]
            /\ seen' \in {seen, [seen EXCEPT ![t.entry] = t.loc]},
         OneEach', resolving' \subseteq Ids, tasks' \subseteq Task, failures' \in 0 .. MaxFailures,
         UNCHANGED <<current, begun, list, picker, picks, target, remembered, epochs,
                     pendingLocation, pendingToken, late>>
  PROVE  IInv'
<1>1. /\ local \in [Ids -> Loc] /\ journal \in [Ids -> Loc] /\ seen \in [Ids -> Loc]
      /\ begun \in Nat /\ t.loc \in Loc /\ epochs \in [Ids -> Nat]
      /\ \A k \in Loc : k.pick \in Nat
      /\ \A e \in Ids : e \in Nat /\ e # None
  <2>1. \A k \in Loc : k.pick \in Nat
    BY DEF Loc, Picks, None
  <2>2. (\A e \in Ids : e \in Nat /\ e # None) /\ begun \in Nat
    BY DEF IInv, TypeOK, Ids, None
  <2>3. QED
    BY <2>1, <2>2 DEF IInv, TypeOK, Task
<1>2. \A k \in Loc, e \in Ids : Placed(k, e) <=> target'[k.pick] = e \/ k.pick \notin Picks \ late'
  BY DEF Placed
<1>3. Placed(l, t.entry)
  BY DEF EntryTask, Placed
<1>4. \A e \in Ids : /\ local'[e].pick >= local[e].pick
                     /\ local'[e] # local[e] => e = current /\ e = t.entry /\ Live(t) /\ local'[e] = l
  BY <1>1 DEF EntryTask
<1>5. ASSUME NEW v \in tasks
      PROVE  TaskOK(v)'
  <2>1. TaskOK(v) /\ v.loc \in Loc /\ v.entry \in Ids \cup {None}
    BY DEF IInv, TasksOK, TypeOK, Task
  <2>2. CASE v.entry = None
    BY <2>1, <2>2 DEF TaskOK, PendingTask
  <2>3. CASE v.entry # None
    <3>1. EntryTask(v) /\ v.entry \in Ids /\ v.loc.pick <= picks
      BY <2>1, <2>3 DEF TaskOK
    <3>2. IsPut(v) \/ Live(v) => v.loc.pick >= local'[v.entry].pick
      <4>1. CASE local'[v.entry] = local[v.entry]
        BY <3>1, <4>1 DEF EntryTask
      <4>2. CASE local'[v.entry] # local[v.entry]
        <5>1. v.entry = current /\ v.entry = t.entry /\ Live(t) /\ local'[v.entry] = l
          BY <1>4, <3>1, <4>2
        <5>2. ~IsPut(v)
          BY <3>1, <5>1 DEF EntryTask
        <5>3. Live(v) => v.loc.pick = t.loc.pick
          BY <2>3, <5>1 DEF IInv, OnePick, Together
        <5>4. QED
          BY <1>1, <5>1, <5>2, <5>3
      <4>3. QED
        BY <4>1, <4>2
    <3>3. EntryTask(v)'
      BY <3>1, <3>2 DEF EntryTask, IsPut, Live, Placed
    <3>4. QED
      BY <2>3, <3>1, <3>3 DEF TaskOK
  <2>4. QED
    BY <2>2, <2>3
<1>6. ASSUME u \in tasks', u \notin tasks
      PROVE  TaskOK(u)'
  <2>1. /\ u.at \notin PendingKinds /\ (IsPut(u) => u.entry # current)
        /\ IsPut(t) \/ Live(t)
    BY <1>6
  <2>2. u.loc.pick >= local'[u.entry].pick
    BY <1>1, <1>4, <2>1 DEF EntryTask
  <2>3. Placed(u.loc, u.entry)'
    BY <1>3 DEF Placed
  <2>4. EntryTask(u)'
    BY <2>1, <2>2, <2>3 DEF EntryTask, IsPut
  <2>5. QED
    BY <1>1, <2>4 DEF TaskOK
<1>7. TasksOK'
  BY <1>5, <1>6 DEF TasksOK
<1>8. OnePick'
  <2> SUFFICES ASSUME NEW v \in tasks', NEW w \in tasks', Together(v, w)'
               PROVE  v.loc.pick = w.loc.pick
    BY DEF OnePick
  <2>1. PICK x \in tasks : x.entry = v.entry /\ x.stamp = v.stamp /\ x.loc.pick = v.loc.pick
    OBVIOUS
  <2>2. PICK y \in tasks : y.entry = w.entry /\ y.stamp = w.stamp /\ y.loc.pick = w.loc.pick
    OBVIOUS
  <2>3. Together(x, y)
    BY <2>1, <2>2 DEF Together, Live
  <2>4. QED
    BY <2>1, <2>2, <2>3 DEF IInv, OnePick
<1>9. PendingOK'
  BY DEF IInv, PendingOK
<1>10. RowsOK'
  <2>1. ASSUME NEW e \in Ids
        PROVE  local'[e].pick <= picks /\ Placed(local[e], e)' /\ (e > begun => local'[e].pick = None)
    <3>1. local[e].pick <= picks /\ Placed(local[e], e) /\ (e > begun => local[e].pick = None)
      BY DEF IInv, RowsOK
    <3>2. CASE local'[e] = local[e]
      BY <3>1, <3>2 DEF Placed
    <3>3. CASE local'[e] # local[e]
      BY <1>1, <1>3, <1>4, <3>3 DEF Placed, EntryTask
    <3>4. QED
      BY <3>2, <3>3
  <2>2. ASSUME NEW e \in Ids, NEW r \in Loc, RowOK(r, e)
        PROVE  RowOK(r, e)'
    BY <1>1, <1>4, <2>2 DEF RowOK, Placed
  <2>3. ASSUME IsPut(t), IsTagged(journal[t.entry])
        PROVE  RowOK(t.loc, t.entry)
    BY <1>1, <2>3 DEF EntryTask, RowOK
  <2>4. ASSUME NEW e \in Ids
        PROVE  RowOK(journal'[e], e) /\ RowOK(list'[e], e) /\ RowOK(seen'[e], e)
    <3>1. RowOK(journal[e], e) /\ RowOK(list[e], e) /\ RowOK(seen[e], e)
      BY DEF IInv, RowsOK
    <3>2. QED
      BY <1>1, <2>3, <3>1
  <2>5. ASSUME NEW e \in Ids
        PROVE  RowOK(journal[e], e)' /\ RowOK(list[e], e)' /\ RowOK(seen[e], e)'
    <3>1. journal'[e] \in Loc /\ list'[e] \in Loc /\ seen'[e] \in Loc
      BY <1>1 DEF IInv, TypeOK
    <3>2. QED
      BY <2>2, <2>4, <3>1 DEF RowOK, Placed
  <2>6. QED
    BY <2>1, <2>5 DEF IInv, RowsOK
<1>11. TypeOK'
  <2>1. local' \in [Ids -> Loc] /\ journal' \in [Ids -> Loc] /\ seen' \in [Ids -> Loc]
    BY <1>1
  <2>2. QED
    BY <2>1 DEF IInv, TypeOK
<1>12. QED
  BY <1>7, <1>8, <1>9, <1>10, <1>11 DEF IInv


(* A task of no entry ends, or goes on as u with its tag pending.          *)
LEMMA PendingGoes ==
  ASSUME IInv, NEW t \in tasks, t.entry = None,
         NEW l \in Loc, l.pick = t.loc.pick, IsTagged(l),
         NEW u \in Task, u.entry = None /\ u.stamp = t.stamp /\ u.loc = l,
         \/ tasks' = tasks \ {t} /\ UNCHANGED pendingLocation
         \/ t.stamp = pendingToken /\ pendingLocation' = l /\ tasks' = tasks \ {t}
         \/ /\ t.stamp = pendingToken /\ pendingLocation' = l
            /\ tasks' = (tasks \ {t}) \cup {u}
            /\ u.at \in {"pendingNames", "pendingCentroid"},
         \/ UNCHANGED pendingLocation
         \/ t.at # "pendingPosition" \/ target[t.loc.pick] = None \/ t.loc.pick \in late',
         late' \in {late, late \cup {t.loc.pick}}, failures' \in 0 .. MaxFailures,
         UNCHANGED <<current, begun, local, journal, list, seen, picker, picks, target, remembered,
                     epochs, pendingToken, resolving>>
  PROVE  IInv'
<1>1. /\ PendingTask(t) /\ t.loc.pick \in 1 .. picks /\ t.loc.pick \in Picks /\ l # Absent
      /\ Absent \notin {k \in Loc : IsTagged(k)}
  <2>1. TaskOK(t) /\ t.loc \in Loc /\ picks \in 0 .. MaxPicks
    BY DEF IInv, TasksOK, TypeOK, Task
  <2>2. PendingTask(t) /\ t.loc.pick <= picks
    BY <2>1 DEF TaskOK
  <2>3. t.loc.pick \in Picks
    BY <2>1, <2>2 DEF PendingTask, Loc
  <2>4. l # Absent /\ Absent \notin {k \in Loc : IsTagged(k)}
    BY DEF IsTagged, Absent
  <2>5. QED
    BY <2>1, <2>2, <2>3, <2>4 DEF Picks
<1>2. TypeOK'
  <2>1. tasks' \subseteq Task /\ late' \subseteq Picks
    BY <1>1 DEF IInv, TypeOK
  <2>2. pendingLocation' \in {k \in Loc : IsTagged(k)} \cup {Absent}
    BY DEF IInv, TypeOK
  <2>3. QED
    BY <2>1, <2>2 DEF IInv, TypeOK
<1>3. \A k, e : Placed(k, e) => (k.pick \in Picks \ late' => target'[k.pick] = e)
  BY DEF Placed
<1>4. ASSUME NEW v \in tasks
      PROVE  TaskOK(v)'
  <2>1. TaskOK(v)
    BY DEF IInv, TasksOK
  <2>2. CASE v.entry # None
    <3>1. EntryTask(v) /\ v.loc.pick <= picks
      BY <2>1, <2>2 DEF TaskOK
    <3>2. EntryTask(v)'
      BY <1>3, <3>1 DEF EntryTask, IsPut, Live, Placed
    <3>3. QED
      BY <2>2, <3>1, <3>2 DEF TaskOK
  <2>3. CASE v.entry = None
    <3>1. PendingTask(v) /\ v.loc.pick <= picks
      BY <2>1, <2>3 DEF TaskOK
    <3>2. v.stamp = pendingToken /\ t.stamp = pendingToken => v.loc.pick = t.loc.pick
      BY <2>3 DEF IInv, OnePick, Together
    <3>3. PendingTask(v)'
      BY <1>1, <3>1, <3>2 DEF PendingTask
    <3>4. QED
      BY <2>3, <3>1, <3>3 DEF TaskOK
  <2>4. QED
    BY <2>2, <2>3
<1>5. ASSUME u \in tasks', u \notin tasks
      PROVE  TaskOK(u)'
  BY <1>1, <1>5 DEF TaskOK, PendingTask, PendingKinds
<1>6. TasksOK'
  BY <1>4, <1>5 DEF TasksOK
<1>7. OnePick'
  <2> SUFFICES ASSUME NEW v \in tasks', NEW w \in tasks', Together(v, w)'
               PROVE  v.loc.pick = w.loc.pick
    BY DEF OnePick
  <2>1. PICK x \in tasks : x.entry = v.entry /\ x.stamp = v.stamp /\ x.loc.pick = v.loc.pick
    OBVIOUS
  <2>2. PICK y \in tasks : y.entry = w.entry /\ y.stamp = w.stamp /\ y.loc.pick = w.loc.pick
    OBVIOUS
  <2>3. Together(x, y)
    BY <2>1, <2>2 DEF Together, Live
  <2>4. QED
    BY <2>1, <2>2, <2>3 DEF IInv, OnePick
<1>8. PendingOK'
  <2>1. CASE pendingLocation' = pendingLocation
    BY <2>1 DEF IInv, PendingOK
  <2>2. CASE pendingLocation' # pendingLocation
    <3>1. pendingLocation' = l /\ t.stamp = pendingToken
      BY <2>2
    <3>2. target[t.loc.pick] = None \/ t.loc.pick \in late'
      <4>1. CASE t.at # "pendingPosition"
        BY <1>1, <3>1, <4>1 DEF IInv, PendingOK, PendingTask
      <4>2. QED
        BY <2>2, <4>1
    <3>3. QED
      BY <1>1, <3>1, <3>2 DEF PendingOK
  <2>3. QED
    BY <2>1, <2>2
<1>9. RowsOK'
  <2>1. \A k, e : RowOK(k, e) => k.pick <= picks' /\ (k.pick \in Picks \ late' => target'[k.pick] = e)
                  /\ (e = current' \/ e > begun' => k = Absent)
                  /\ (k # Absent => k.pick >= local'[e].pick)
    BY <1>3 DEF RowOK
  <2>2. QED
    BY <1>3, <2>1 DEF IInv, RowsOK, RowOK, Placed
<1>10. OneEach'
  <2>1. t.at \notin ResolverKinds
    BY <1>1 DEF PendingTask, PendingKinds, ResolverKinds
  <2>2. u.at \in {"pendingNames", "pendingCentroid"} => u.at \notin ResolverKinds
    BY DEF ResolverKinds
  <2>3. QED
    BY <2>1, <2>2, ResolverGoes
<1>11. QED
  BY <1>2, <1>6, <1>7, <1>8, <1>9, <1>10 DEF IInv

(* The kind of a task says whether it is for an entry.                     *)
LEMMA TaskIs ==
  ASSUME IInv, NEW t \in tasks
  PROVE  /\ t \in Task /\ t.loc \in Loc /\ t.loc.pick <= picks /\ t.loc.pick \in Picks \cup {None}
         /\ t.at \notin PendingKinds => EntryTask(t) /\ t.entry \in Ids
         /\ t.at \in PendingKinds => PendingTask(t) /\ t.entry = None
<1>1. t \in Task /\ TaskOK(t) /\ t.loc \in Loc /\ t.entry \in Ids \cup {None}
  BY DEF IInv, TasksOK, TypeOK, Task
<1>2. t.loc.pick \in Picks \cup {None}
  BY <1>1 DEF Loc
<1>3. QED
  BY <1>1, <1>2 DEF TaskOK, EntryTask, PendingTask

LEMMA PendingSteps ==
  ASSUME IInv, NEW t \in tasks, PendingPosition(t) \/ PendingGeocode(t)
  PROVE  IInv'
<1> DEFINE named == Tag(t.loc.pick, "named")
           done == Tag(t.loc.pick, "resolved")
           u == [t EXCEPT !.at = "pendingNames", !.loc = t.loc]
           v == [t EXCEPT !.at = "pendingCentroid", !.loc = named]
           w == [t EXCEPT !.at = "pendingCentroid", !.loc = done]
<1>1. /\ t.at \in PendingKinds
      /\ UNCHANGED <<current, begun, list, picker, picks, failures, target, remembered, epochs>>
      /\ UNCHANGED <<local, journal, seen, pendingToken>>
  <2>1. Task_(t, "pendingPosition") \/ Task_(t, "pendingNames") \/ Task_(t, "pendingCentroid")
    BY DEF PendingPosition, PendingGeocode
  <2>2. t.at \in PendingKinds
    BY <2>1 DEF Task_, PendingKinds
  <2>3. UNCHANGED <<current, begun, list, picker, picks, failures, target, remembered, epochs>>
    BY <2>1 DEF Task_
  <2>4. UNCHANGED <<rows, local, pendingToken>>
    BY DEF PendingPosition, PendingGeocode
  <2>5. QED
    BY <2>2, <2>3, <2>4 DEF rows
<1>2. PendingTask(t) /\ t.entry = None /\ t \in Task /\ t.loc \in Loc /\ t.loc.pick \in Picks \cup {None}
  BY <1>1, TaskIs
<1>3. /\ named \in Loc /\ named.pick = t.loc.pick /\ IsTagged(named)
      /\ done \in Loc /\ done.pick = t.loc.pick /\ IsTagged(done) /\ IsTagged(t.loc)
  BY <1>2, Kinds DEF IsTagged, PendingTask
<1>4. /\ u \in Task /\ u.at = "pendingNames" /\ u.entry = None /\ u.stamp = t.stamp /\ u.loc = t.loc
      /\ v \in Task /\ v.at = "pendingCentroid" /\ v.entry = None /\ v.stamp = t.stamp /\ v.loc = named
      /\ w \in Task /\ w.at = "pendingCentroid" /\ w.entry = None /\ w.stamp = t.stamp /\ w.loc = done
  <2> HIDE DEF named, done
  <2>1. u \in Task /\ u.at = "pendingNames" /\ u.entry = t.entry /\ u.stamp = t.stamp /\ u.loc = t.loc
    BY <1>2, SameTask, ZenonT(40)
  <2>2. v \in Task /\ v.at = "pendingCentroid" /\ v.entry = t.entry /\ v.stamp = t.stamp /\ v.loc = named
    BY <1>2, <1>3, SameTask
  <2>3. w \in Task /\ w.at = "pendingCentroid" /\ w.entry = t.entry /\ w.stamp = t.stamp /\ w.loc = done
    BY <1>2, <1>3, SameTask
  <2>4. QED
    BY <1>2, <2>1, <2>2, <2>3
<1>5. failures' \in 0 .. MaxFailures
  BY <1>1 DEF IInv, TypeOK
<1>6. \/ tasks' = tasks \ {t} /\ UNCHANGED <<pendingLocation, late>>
      \/ /\ t.at = "pendingPosition" /\ t.stamp = pendingToken /\ pendingLocation' = t.loc
         /\ tasks' = (tasks \ {t}) \cup {u}
         /\ late' = IF target[t.loc.pick] # None THEN late \cup {t.loc.pick} ELSE late
      \/ /\ t.at = "pendingNames" /\ t.stamp = pendingToken /\ pendingLocation' = named
         /\ tasks' = (tasks \ {t}) \cup {v} /\ UNCHANGED late
      \/ /\ t.at = "pendingCentroid" /\ t.stamp = pendingToken /\ pendingLocation' = done
         /\ tasks' = tasks \ {t} /\ UNCHANGED late
  BY DEF PendingPosition, PendingGeocode, Task_, Ends, GoesOn
<1>7. UNCHANGED resolving
  BY <1>1 DEF PendingPosition, PendingGeocode, Task_, Ends, GoesOn
<1> HIDE DEF named, done, u, v, w
<1>8. CASE tasks' = tasks \ {t} /\ UNCHANGED <<pendingLocation, late>>
  BY <1>1, <1>2, <1>3, <1>4, <1>5, <1>7, <1>8, PendingGoes
<1>9. CASE /\ t.at = "pendingPosition" /\ t.stamp = pendingToken /\ pendingLocation' = t.loc
           /\ tasks' = (tasks \ {t}) \cup {u}
           /\ late' = IF target[t.loc.pick] # None THEN late \cup {t.loc.pick} ELSE late
  <2>1. target[t.loc.pick] = None \/ t.loc.pick \in late'
    BY <1>9
  <2>2. late' \in {late, late \cup {t.loc.pick}}
    BY <1>9
  <2>3. QED
    BY <1>1, <1>2, <1>3, <1>4, <1>5, <1>7, <1>9, <2>1, <2>2, PendingGoes
<1>10. CASE /\ t.at = "pendingNames" /\ t.stamp = pendingToken /\ pendingLocation' = named
            /\ tasks' = (tasks \ {t}) \cup {v} /\ UNCHANGED late
  BY <1>1, <1>2, <1>3, <1>4, <1>5, <1>7, <1>10, PendingGoes
<1>11. CASE /\ t.at = "pendingCentroid" /\ t.stamp = pendingToken /\ pendingLocation' = done
            /\ tasks' = tasks \ {t} /\ UNCHANGED late
  BY <1>1, <1>2, <1>3, <1>4, <1>5, <1>7, <1>11, PendingGoes
<1>12. QED
  BY <1>6, <1>8, <1>9, <1>10, <1>11


(* What the steps of a task of an entry have in common.                    *)
LEMMA TaskGoes ==
  ASSUME IInv, NEW t \in tasks, t.at \notin PendingKinds,
         NEW l \in Loc, l.pick = t.loc.pick,
         NEW at \in {"putTag", "names", "putName", "centroid", "putResolved"},
         \/ Ends(t)
         \/ /\ GoesOn(t, at, l) /\ UNCHANGED resolving
            /\ t.at \in ResolverKinds <=> at \in ResolverKinds
            /\ at \in {"putTag", "putName", "putResolved"} => t.entry # current
            /\ IsPut(t) \/ Live(t)
         \/ /\ ThenResolve(t, l) /\ at = "names" /\ t.at \notin ResolverKinds
            /\ IsPut(t) \/ Live(t),
         \/ UNCHANGED local
         \/ t.entry = current /\ Live(t) /\ local' = [local EXCEPT ![t.entry] = l],
         \/ UNCHANGED <<journal, seen>>
         \/ /\ IsPut(t) /\ IsTagged(journal[t.entry])
            /\ journal' = [journal EXCEPT ![t.entry] = t.loc]
            /\ seen' \in {seen, [seen EXCEPT ![t.entry] = t.loc]},
         failures' \in 0 .. MaxFailures,
         UNCHANGED <<current, begun, list, picker, picks, target, remembered, epochs,
                     pendingLocation, pendingToken, late>>
  PROVE  IInv'
<1> DEFINE u == [t EXCEPT !.at = at, !.loc = l]
<1>1. t \in Task /\ t.loc.pick <= picks /\ EntryTask(t) /\ t.entry \in Ids
  BY TaskIs
<1>2. u \in Task /\ u.at = at /\ u.entry = t.entry /\ u.stamp = t.stamp /\ u.loc = l
  <2>1. at \in {"position", "putTag", "names", "putName", "centroid", "putResolved",
                "putPlace", "pendingPosition", "pendingNames", "pendingCentroid"}
    OBVIOUS
  <2>2. QED
    BY <1>1, <2>1 DEF Task
<1>3. \/ /\ tasks' = tasks \ {t}
         /\ resolving' = IF t.at \in ResolverKinds THEN resolving \ {t.entry} ELSE resolving
      \/ /\ tasks' = (tasks \ {t}) \cup {u} /\ UNCHANGED resolving
         /\ t.at \in ResolverKinds <=> at \in ResolverKinds
         /\ at \in {"putTag", "putName", "putResolved"} => t.entry # current
         /\ IsPut(t) \/ Live(t)
      \/ /\ tasks' = (tasks \ {t}) \cup {u} /\ resolving' = resolving \cup {t.entry}
         /\ t.entry \notin resolving /\ at = "names" /\ t.at \notin ResolverKinds
         /\ IsPut(t) \/ Live(t)
  BY DEF Ends, GoesOn, ThenResolve, ResolverKinds
<1> HIDE DEF u
<1>4. "names" \in ResolverKinds
  BY DEF ResolverKinds
<1>5. OneEach' /\ resolving' \subseteq Ids /\ tasks' \subseteq Task
  BY <1>1, <1>2, <1>3, <1>4, ResolverGoes
<1>6. at \notin PendingKinds /\ (IsPut(u) => at \in {"putTag", "putName", "putResolved"})
  BY <1>2 DEF PendingKinds, IsPut
<1>7. \/ tasks' = tasks \ {t}
      \/ /\ tasks' = (tasks \ {t}) \cup {u} /\ u.at \notin PendingKinds
         /\ IsPut(u) => u.entry # current
         /\ IsPut(t) \/ Live(t)
  BY <1>2, <1>3, <1>6
<1>8. QED
  BY <1>1, <1>2, <1>5, <1>7, EntryGoes

LEMMA ArrivesSteps ==
  ASSUME IInv, NEW t \in tasks, PositionArrives(t) \/ NamesArrive(t) \/ CentroidArrives(t)
  PROVE  IInv'
<1>1. /\ t.at \in {"position", "names", "centroid"} /\ t.at \notin PendingKinds
      /\ UNCHANGED <<current, begun, list, picker, picks, target, remembered, epochs>>
      /\ UNCHANGED <<journal, seen, pendingLocation, pendingToken, late, failures>>
  <2>1. Task_(t, "position") \/ Task_(t, "names") \/ Task_(t, "centroid")
    BY DEF PositionArrives, NamesArrive, CentroidArrives
  <2>2. NoPending /\ UNCHANGED rows
    BY DEF PositionArrives, NamesArrive, CentroidArrives
  <2>3. QED
    BY <2>1, <2>2 DEF Task_, NoPending, rows, PendingKinds
<1>2. failures' \in 0 .. MaxFailures
  BY <1>1 DEF IInv, TypeOK
<1>3. t.loc \in Loc /\ t.loc.pick \in Picks \cup {None}
  BY TaskIs
<1>4. CASE PositionArrives(t)
  <2>1. t.at = "position" /\ t.at \notin ResolverKinds /\ "putTag" \notin ResolverKinds
    BY <1>4 DEF PositionArrives, Task_, ResolverKinds
  <2>2. \/ Ends(t) /\ UNCHANGED local
        \/ /\ Live(t) /\ t.entry = current /\ local' = [local EXCEPT ![t.entry] = t.loc]
           /\ ThenResolve(t, t.loc)
        \/ /\ Live(t) /\ t.entry # current /\ GoesOn(t, "putTag", t.loc)
           /\ UNCHANGED <<local, resolving>>
    BY <1>4 DEF PositionArrives, ApplyOpen
  <2>3. CASE Ends(t) /\ UNCHANGED local
    BY <1>1, <1>2, <1>3, <2>3, TaskGoes
  <2>4. CASE /\ Live(t) /\ t.entry = current /\ local' = [local EXCEPT ![t.entry] = t.loc]
             /\ ThenResolve(t, t.loc)
    BY <1>1, <1>2, <1>3, <2>1, <2>4, TaskGoes
  <2>5. CASE /\ Live(t) /\ t.entry # current /\ GoesOn(t, "putTag", t.loc)
             /\ UNCHANGED <<local, resolving>>
    BY <1>1, <1>2, <1>3, <2>1, <2>5, TaskGoes
  <2>6. QED
    BY <2>2, <2>3, <2>4, <2>5
<1>5. CASE NamesArrive(t)
  <2> DEFINE named == Tag(t.loc.pick, "named")
  <2>1. /\ t.at \in ResolverKinds /\ "putName" \in ResolverKinds /\ "centroid" \in ResolverKinds
        /\ named \in Loc /\ named.pick = t.loc.pick
    BY <1>3, <1>5, Kinds DEF NamesArrive, Task_, ResolverKinds
  <2>2. \/ Ends(t) /\ UNCHANGED local
        \/ Live(t) /\ GoesOn(t, "centroid", named) /\ UNCHANGED <<local, resolving>>
        \/ /\ Live(t) /\ t.entry = current /\ local' = [local EXCEPT ![t.entry] = named]
           /\ GoesOn(t, "centroid", named) /\ UNCHANGED resolving
        \/ /\ Live(t) /\ t.entry # current /\ GoesOn(t, "putName", named)
           /\ UNCHANGED <<local, resolving>>
    BY <1>5 DEF NamesArrive, ApplyOpen
  <2> HIDE DEF named
  <2>3. CASE Ends(t) /\ UNCHANGED local
    BY <1>1, <1>2, <1>3, <2>3, TaskGoes
  <2>4. CASE Live(t) /\ GoesOn(t, "centroid", named) /\ UNCHANGED <<local, resolving>>
    BY <1>1, <1>2, <2>1, <2>4, TaskGoes
  <2>5. CASE /\ Live(t) /\ t.entry = current /\ local' = [local EXCEPT ![t.entry] = named]
             /\ GoesOn(t, "centroid", named) /\ UNCHANGED resolving
    BY <1>1, <1>2, <2>1, <2>5, TaskGoes
  <2>6. CASE /\ Live(t) /\ t.entry # current /\ GoesOn(t, "putName", named)
             /\ UNCHANGED <<local, resolving>>
    BY <1>1, <1>2, <2>1, <2>6, TaskGoes
  <2>7. QED
    BY <2>2, <2>3, <2>4, <2>5, <2>6
<1>6. CASE CentroidArrives(t)
  <2> DEFINE done == Tag(t.loc.pick, "resolved")
  <2>1. /\ t.at \in ResolverKinds /\ "putResolved" \in ResolverKinds
        /\ done \in Loc /\ done.pick = t.loc.pick
    BY <1>3, <1>6, Kinds DEF CentroidArrives, Task_, ResolverKinds
  <2>2. \/ Ends(t) /\ UNCHANGED local
        \/ /\ Live(t) /\ t.entry = current /\ local' = [local EXCEPT ![t.entry] = done] /\ Ends(t)
        \/ /\ Live(t) /\ t.entry # current /\ GoesOn(t, "putResolved", done)
           /\ UNCHANGED <<local, resolving>>
    BY <1>6 DEF CentroidArrives, ApplyOpen
  <2> HIDE DEF done
  <2>3. CASE Ends(t) /\ UNCHANGED local
    BY <1>1, <1>2, <1>3, <2>3, TaskGoes
  <2>4. CASE Live(t) /\ t.entry = current /\ local' = [local EXCEPT ![t.entry] = done] /\ Ends(t)
    BY <1>1, <1>2, <2>1, <2>4, TaskGoes
  <2>5. CASE /\ Live(t) /\ t.entry # current /\ GoesOn(t, "putResolved", done)
             /\ UNCHANGED <<local, resolving>>
    BY <1>1, <1>2, <2>1, <2>5, TaskGoes
  <2>6. QED
    BY <2>2, <2>3, <2>4, <2>5
<1>7. QED
  BY <1>4, <1>5, <1>6

LEMMA PutSteps ==
  ASSUME IInv, NEW t \in tasks,
         TagIsPut(t) \/ PlaceIsPut(t) \/ NameIsPut(t) \/ ResolvedIsPut(t)
  PROVE  IInv'
<1>1. /\ t.at \in {"putTag", "putPlace", "putName", "putResolved"} /\ t.at \notin PendingKinds
      /\ UNCHANGED <<current, begun, list, picker, picks, target, remembered, epochs>>
      /\ UNCHANGED <<local, pendingLocation, pendingToken, late, failures>>
      /\ IsPut(t) /\ IsTagged(journal[t.entry])
      /\ journal' = [journal EXCEPT ![t.entry] = t.loc]
      /\ seen' \in {seen, [seen EXCEPT ![t.entry] = t.loc]}
  <2>1. Task_(t, "putTag") \/ Task_(t, "putPlace") \/ Task_(t, "putName") \/ Task_(t, "putResolved")
    BY DEF TagIsPut, PlaceIsPut, NameIsPut, ResolvedIsPut
  <2>2. NoPending /\ Put(t)
    BY DEF TagIsPut, PlaceIsPut, NameIsPut, ResolvedIsPut
  <2>3. QED
    BY <2>1, <2>2 DEF Task_, NoPending, Put, IsPut, PendingKinds
<1>2. failures' \in 0 .. MaxFailures
  BY <1>1 DEF IInv, TypeOK
<1>3. t.loc \in Loc
  BY TaskIs
<1>4. CASE Ends(t)
  BY <1>1, <1>2, <1>3, <1>4, TaskGoes
<1>5. CASE TagIsPut(t) /\ ThenResolve(t, t.loc)
  <2>1. t.at \notin ResolverKinds
    BY <1>5 DEF TagIsPut, Task_, ResolverKinds
  <2>2. QED
    BY <1>1, <1>2, <1>3, <1>5, <2>1, TaskGoes
<1>6. CASE NameIsPut(t)
  <2>1. /\ t.at \in ResolverKinds /\ "centroid" \in ResolverKinds
        /\ GoesOn(t, "centroid", t.loc) /\ UNCHANGED resolving
    BY <1>6 DEF NameIsPut, Task_, ResolverKinds
  <2>2. QED
    BY <1>1, <1>2, <1>3, <2>1, TaskGoes
<1>7. QED
  BY <1>4, <1>5, <1>6 DEF TagIsPut, PlaceIsPut, ResolvedIsPut

LEMMA FailSteps ==
  ASSUME IInv, NEW t \in tasks, Refused(t) \/ Fails(t)
  PROVE  IInv'
<1>1. /\ UNCHANGED <<current, begun, list, picker, picks, target, remembered, epochs>>
      /\ UNCHANGED <<local, seen, pendingLocation, pendingToken, late>> /\ Ends(t)
      /\ failures' \in {failures, failures + 1} /\ (failures' = failures \/ failures < MaxFailures)
      /\ \/ UNCHANGED journal
         \/ IsPut(t) /\ IsTagged(journal[t.entry]) /\ journal' = [journal EXCEPT ![t.entry] = t.loc]
  BY DEF Refused, Fails, Elsewhere, history
<1>2. failures' \in 0 .. MaxFailures
  BY <1>1 DEF IInv, TypeOK
<1>3. t.loc \in Loc /\ t \in Task
  BY TaskIs
<1>4. CASE t.at \in PendingKinds
  <2>1. PendingTask(t) /\ t.entry = None
    BY <1>4, TaskIs
  <2>2. IsTagged(t.loc) /\ tasks' = tasks \ {t} /\ UNCHANGED resolving /\ UNCHANGED journal
    BY <1>1, <1>4, <2>1 DEF PendingTask, Ends, PendingKinds, IsPut
  <2>3. QED
    BY <1>1, <1>2, <1>3, <2>1, <2>2, PendingGoes
<1>5. CASE t.at \notin PendingKinds
  BY <1>1, <1>2, <1>3, <1>5, TaskGoes
<1>6. QED
  BY <1>4, <1>5
-----------------------------------------------------------------------------
LEMMA Starts == Init => IInv
<1> SUFFICES ASSUME Init
             PROVE  IInv
  OBVIOUS
<1>1. /\ Absent \in Loc /\ Absent.pick = None /\ Untagged \in Loc /\ Untagged.pick = None
      /\ None \notin Picks /\ None \notin Ids
  BY Kinds DEF Absent, Untagged, Picks, Ids, None
<1>2. TypeOK
  BY <1>1 DEF Init, TypeOK, None
<1>3. TasksOK /\ OnePick /\ OneEach /\ PendingOK
  BY DEF Init, TasksOK, OnePick, OneEach, PendingOK
<1>4. RowsOK
  BY <1>1 DEF Init, RowsOK, RowOK, Placed, None, Ids, Closed
<1>5. QED
  BY <1>2, <1>3, <1>4 DEF IInv

LEMMA Steps == IInv /\ [Next]_vars => IInv'
<1> SUFFICES ASSUME IInv, [Next]_vars
             PROVE  IInv'
  OBVIOUS
<1>1. CASE StartEntry
  BY <1>1, StartStep
<1>2. CASE FinishEntry
  BY <1>2, FinishStep
<1>3. CASE ListEntries \/ RefreshEntries
  BY <1>3, ListStep
<1>4. CASE OpenPicker \/ UNCHANGED vars
  BY <1>4, OpenPickerStep
<1>5. CASE \E e \in Ids : Commit(e)
  BY <1>5, CommitStep
<1>6. CASE \E on \in BOOLEAN : TagEntry(on)
  BY <1>6, TagEntryStep
<1>7. CASE TagPlace
  BY <1>7, TagPlaceStep
<1>8. CASE TagPendingPlace \/ \E on \in BOOLEAN : TagPending(on)
  BY <1>8, TagPendingStep
<1>9. CASE \E t \in tasks : Succeeds(t)
  BY <1>9, ArrivesSteps, PutSteps, PendingSteps DEF Succeeds
<1>10. CASE \E t \in tasks : Refused(t) \/ Fails(t)
  BY <1>10, FailSteps
<1>11. QED
  BY <1>1, <1>2, <1>3, <1>4, <1>5, <1>6, <1>7, <1>8, <1>9, <1>10 DEF Next

(* The location of an entry never goes back to an earlier pick.            *)
LEMMA TagsAdvance ==
  ASSUME IInv, [Next]_vars, NEW e \in Ids
  PROVE  local'[e].pick >= local[e].pick
<1>1. /\ local \in [Ids -> Loc] /\ (\A k \in Loc : k.pick \in Nat) /\ picks \in Nat
      /\ local[e].pick <= picks /\ (e > begun => local[e].pick = None) /\ begun \in Nat
      /\ \A p \in Picks : p >= None
  <2>1. \A k \in Loc : k.pick \in Nat
    BY DEF Loc, Picks, None
  <2>2. QED
    BY <2>1 DEF IInv, TypeOK, RowsOK, Picks, Ids, None
<1>2. CASE UNCHANGED local
  BY <1>1, <1>2
<1>3. CASE StartEntry
  <2>1. begun' = begun + 1 /\ (local' = local \/ local' = [local EXCEPT ![begun'] = pendingLocation])
    BY <1>3 DEF StartEntry, AutoTagPending, AutoTagRemembered
  <2>2. CASE local' = [local EXCEPT ![begun'] = pendingLocation] /\ e = begun'
    <3>1. local'[e] = pendingLocation /\ pendingLocation \in Loc /\ local[e].pick = None
      BY <1>1, <2>1, <2>2, Kinds DEF IInv, TypeOK
    <3>2. pendingLocation.pick \in Nat
      BY <1>1, <3>1
    <3>3. QED
      BY <3>1, <3>2 DEF None
  <2>3. QED
    BY <1>1, <2>1, <2>2
<1>4. CASE TagPlace \/ \E on \in BOOLEAN : TagEntry(on)
  <2>1. /\ Picked /\ \/ UNCHANGED local
                     \/ local' = [local EXCEPT ![picker] = Tag(picks', "off")]
                     \/ local' = [local EXCEPT ![picker] = Tag(picks', "resolved")]
    BY <1>4 DEF TagPlace, TagEntry
  <2>2. picks' = picks + 1 /\ Tag(picks', "off").pick = picks' /\ Tag(picks', "resolved").pick = picks'
    BY <2>1, PickIsNew, Kinds
  <2>3. local'[e] = local[e] \/ local'[e].pick = picks'
    BY <1>1, <2>1, <2>2
  <2>4. QED
    BY <1>1, <2>2, <2>3
<1>5. CASE \E t \in tasks : PositionArrives(t) \/ NamesArrive(t) \/ CentroidArrives(t)
  <2>1. PICK t \in tasks : PositionArrives(t) \/ NamesArrive(t) \/ CentroidArrives(t)
    BY <1>5
  <2>2. /\ EntryTask(t) /\ t.entry \in Ids /\ t.loc \in Loc /\ t.loc.pick \in Picks \cup {None}
    <3>1. t.at \in {"position", "names", "centroid"} /\ t.at \notin PendingKinds
      BY <2>1 DEF PositionArrives, NamesArrive, CentroidArrives, Task_, PendingKinds
    <3>2. QED
      BY <3>1, TaskIs
  <2>3. Tag(t.loc.pick, "named").pick = t.loc.pick /\ Tag(t.loc.pick, "resolved").pick = t.loc.pick
    BY <2>2, Kinds
  <2>4. \/ UNCHANGED local
        \/ /\ Live(t)
           /\ \E l \in {t.loc, Tag(t.loc.pick, "named"), Tag(t.loc.pick, "resolved")} :
                local' = [local EXCEPT ![t.entry] = l]
    BY <2>1 DEF PositionArrives, NamesArrive, CentroidArrives, ApplyOpen
  <2>5. QED
    BY <1>1, <2>2, <2>3, <2>4 DEF EntryTask
<1>6. CASE \E t \in tasks : TagIsPut(t) \/ PlaceIsPut(t) \/ NameIsPut(t) \/ ResolvedIsPut(t)
  <2>1. UNCHANGED local
    BY <1>6 DEF TagIsPut, PlaceIsPut, NameIsPut, ResolvedIsPut, Put
  <2>2. QED
    BY <1>2, <2>1
<1>7. CASE \E t \in tasks : PendingPosition(t) \/ PendingGeocode(t) \/ Refused(t) \/ Fails(t)
  <2>1. UNCHANGED local
    BY <1>7 DEF PendingPosition, PendingGeocode, Refused, Fails, Elsewhere
  <2>2. QED
    BY <1>2, <2>1
<1>8. CASE \/ FinishEntry \/ ListEntries \/ RefreshEntries \/ OpenPicker \/ UNCHANGED vars
           \/ TagPendingPlace \/ (\E f \in Ids : Commit(f)) \/ \E on \in BOOLEAN : TagPending(on)
  <2>1. UNCHANGED local
    BY <1>8 DEF FinishEntry, ListEntries, RefreshEntries, OpenPicker, TagPendingPlace, Commit,
       TagPending, vars
  <2>2. QED
    BY <1>2, <2>1
<1>9. QED
  BY <1>3, <1>4, <1>5, <1>6, <1>7, <1>8 DEF Next, Succeeds

LEMMA Inductive == Spec => []IInv
BY Starts, Steps, PTL DEF Spec

(* Type correctness of the service, the session, the rows and the tasks.   *)
THEOREM LocationTyped == Spec => []TypeOK
<1>1. IInv => TypeOK
  BY DEF IInv
<1>2. QED
  BY <1>1, Inductive, PTL

(* Never two geocodes of one entry, and never a mark in resolving without  *)
(* one: whatever fails and in whatever order the answers come.             *)
THEOREM OneResolver == Spec => []OneResolverEach
<1>1. IInv => OneResolverEach
  BY InvIsOneResolver DEF IInv
<1>2. QED
  BY <1>1, Inductive, PTL

(* A tag is on no entry but the one its pick was made for.                 *)
THEOREM TagsStay == Spec => []TagsStayPut
<1>1. IInv => TagsStayPut
  BY InvIsPlaced DEF IInv
<1>2. QED
  BY <1>1, Inductive, PTL


(* "So a stale GPS/geocode cannot overwrite a later pick": the open entry  *)
(* never goes back to an earlier pick, and the journal never has one from  *)
(* before the pick the entry was finished with.                            *)
THEOREM LaterPicks == Spec => LaterPickStays
<1> DEFINE A == \A e \in Ids :
                  /\ local'[e].pick >= local[e].pick
                  /\ journal'[e] # Absent => journal'[e].pick >= local'[e].pick
<1>1. ASSUME IInv, IInv', [Next]_vars
      PROVE  A
  <2>1. ASSUME NEW e \in Ids
        PROVE  journal'[e] # Absent => journal'[e].pick >= local'[e].pick
    BY <1>1 DEF IInv, RowsOK, RowOK
  <2>2. ASSUME NEW e \in Ids
        PROVE  local'[e].pick >= local[e].pick
    BY <1>1, TagsAdvance
  <2>3. QED
    BY <2>1, <2>2
<1>2. QED
  BY <1>1, Inductive, Steps, PTL DEF Spec, LaterPickStays

=============================================================================
