--------------------------- MODULE Publish_proofs ---------------------------
(***************************************************************************)
(* Proofs about Publish: that a free slug is always found and an address   *)
(* never moves; and, with one run at a time, that a site comes up in one   *)
(* piece, that half a site is always due, and that a clean watermark means *)
(* that all is published.                                                  *)
(***************************************************************************)
EXTENDS Publish, FiniteSetTheorems, WellFoundedInduction, TLAPS

(* A non-empty set of numbers has a least one.                             *)
LEMMA Least ==
  ASSUME NEW S \in SUBSET Nat, S # {}
  PROVE  \E m \in S : \A k \in S : m <= k
<1>1. PICK m \in S : \A k \in S : ~(<<k, m>> \in OpToRel(<, Nat))
  BY NatLessThanWellFounded, WFMin
<1>2. \A k \in S : ~(k < m)
  BY <1>1 DEF OpToRel
<1> QED BY <1>2

(* A minute has more suffixes than there are other entries.                *)
LEMMA FreeSuffix ==
  ASSUME TypeOK, NEW e \in Entries
  PROVE  \E n \in 1 .. Cardinality(Entries) :
           /\ <<Minute[e], n>> \notin Taken(e)
           /\ \A k \in 1 .. n - 1 : <<Minute[e], k>> \in Taken(e)
<1> DEFINE N == Cardinality(Entries)
           Others == EntriesOf(OwnerOf[e]) \ {e}
           Free == {n \in 1 .. N : <<Minute[e], n>> \notin Taken(e)}
<1>1. IsFiniteSet(Entries) /\ N \in Nat
  BY PublishConstants, FS_CardinalityType DEF PublishConstants
<1>2. IsFiniteSet(Others) /\ Cardinality(Others) \in Nat /\ Cardinality(Others) < N
  <2>1. IsFiniteSet(Entries \ {e}) /\ Cardinality(Entries \ {e}) = N - 1
    BY <1>1, FS_RemoveElement
  <2>2. Others \in SUBSET (Entries \ {e})
    BY DEF EntriesOf
  <2> HIDE DEF Others
  <2>3. IsFiniteSet(Others) /\ Cardinality(Others) <= Cardinality(Entries \ {e})
    BY <2>1, <2>2, FS_Subset
  <2>4. Cardinality(Others) \in Nat
    BY <2>3, FS_CardinalityType
  <2> HIDE DEF N
  <2> QED BY <1>1, <2>1, <2>3, <2>4
<1>3. Free # {}
  <2>1. SUFFICES ASSUME \A n \in 1 .. N : \E f \in Others : slug[f] = <<Minute[e], n>>
                 PROVE  FALSE
    BY DEF Taken
  <2> DEFINE g == [n \in 1 .. N |-> CHOOSE f \in Others : slug[f] = <<Minute[e], n>>]
  <2>2. \A n \in 1 .. N : g[n] \in Others /\ slug[g[n]] = <<Minute[e], n>>
    BY <2>1
  <2>3. g \in [1 .. N -> Others]
    BY <2>2
  <2>4. IsFiniteSet(1 .. N) /\ Cardinality(1 .. N) = N
    BY <1>1, FS_Interval
  <2> HIDE DEF g, N, Others
  <2>5. PICK x, y \in 1 .. N : x # y /\ g[x] = g[y]
    BY <1>1, <1>2, <2>3, <2>4, FS_PigeonHole
  <2>6. <<Minute[e], x>> = <<Minute[e], y>>
    BY <2>2, <2>5
  <2> QED BY <2>5, <2>6
<1>4. Free \in SUBSET Nat
  BY <1>1
<1>5. PICK n \in Free : \A k \in Free : n <= k
  <2> HIDE DEF Free
  <2> QED BY <1>3, <1>4, Least
<1>6. n \in 1 .. N /\ <<Minute[e], n>> \notin Taken(e)
  BY <1>5
<1>7. ASSUME NEW k \in 1 .. n - 1 PROVE <<Minute[e], k>> \in Taken(e)
  <2>1. k \in 1 .. N /\ ~(n <= k)
    BY <1>1, <1>6, <1>7
  <2> QED BY <1>5, <2>1
<1> QED BY <1>6, <1>7

(* allocatePublishSlug keeps a slug, or makes one up that is free.         *)
LEMMA Allocated ==
  ASSUME TypeOK, NEW e \in Entries
  PROVE  LET s == AllocatePublishSlug(e)
         IN s \in Slugs /\ (IF slug[e] # NULL THEN s = slug[e] ELSE s \notin Taken(e))
<1>1. CASE slug[e] # NULL
  BY <1>1 DEF AllocatePublishSlug, TypeOK
<1>2. CASE slug[e] = NULL
  <2> DEFINE P(s) == s \notin Taken(e) /\ \A n \in 1 .. s[2] - 1 : <<Minute[e], n>> \in Taken(e)
             M == {Minute[e]} \X (1 .. Cardinality(Entries))
  <2>1. \E s \in M : P(s)
    <3>1. PICK n \in 1 .. Cardinality(Entries) :
            /\ <<Minute[e], n>> \notin Taken(e)
            /\ \A k \in 1 .. n - 1 : <<Minute[e], k>> \in Taken(e)
      BY FreeSuffix
    <3>2. <<Minute[e], n>> \in M /\ <<Minute[e], n>>[2] = n
      OBVIOUS
    <3>3. P(<<Minute[e], n>>)
      BY <3>1, <3>2
    <3> QED BY <3>2, <3>3
  <2>2. AllocatePublishSlug(e) = CHOOSE s \in M : P(s)
    BY <1>2 DEF AllocatePublishSlug
  <2> HIDE DEF P
  <2>3. AllocatePublishSlug(e) \in M /\ P(AllocatePublishSlug(e))
    BY <2>1, <2>2
  <2>4. M \subseteq Slugs
    BY DEF Slugs, Minutes
  <2> QED BY <1>2, <2>3, <2>4 DEF P
<1> QED BY <1>1, <1>2
-----------------------------------------------------------------------------
LEMMA Constants ==
  /\ Users \cap Strays = {} /\ OwnerOf \in [Entries -> Users]
  /\ MaxTime \in Nat \ {0} /\ MaxFaults \in Nat
  /\ NULL \notin Slugs /\ NULL \notin Names /\ NULL \notin Tree /\ NULL \notin Job
  /\ \A S \in SUBSET Entries : NULL # S
  BY PublishConstants, NullIsNoValue DEF PublishConstants, NullIsNoValue

LEMMA WholeTree == ASSUME NEW S \in SUBSET Entries PROVE Whole(S) \in Tree
  BY DEF Whole, Tree

LEMMA UnlinkedTree ==
  ASSUME NEW tree \in Tree PROVE Bare \in Tree /\ Unlinked(tree) \subseteq Tree
  BY DEF Unlinked, Bare, Tree

LEMMA PublishedRows == ASSUME NEW u PROVE Published(u) \in SUBSET Entries
  BY DEF Published, EntriesOf

(* What each step of a job does to it.                                     *)
LEMMA JobType ==
  ASSUME TypeOK, NEW r \in Runs, runs[r] # NULL
  PROVE  /\ runs[r] \in Job
         /\ \A step \in Steps :
              [runs EXCEPT ![r].at = step] \in [Runs -> Job \cup {NULL}]
         /\ [runs EXCEPT ![r].at = "next", ![r].failed = TRUE] \in [Runs -> Job \cup {NULL}]
<1>1. runs \in [Runs -> Job \cup {NULL}] /\ runs[r] \in Job
  BY DEF TypeOK
<1>2. ASSUME NEW step \in Steps PROVE [runs[r] EXCEPT !.at = step] \in Job
  BY <1>1 DEF Job
<1>3. [runs[r] EXCEPT !.at = "next", !.failed = TRUE] \in Job
  BY <1>1 DEF Job, Steps
<1> QED BY <1>1, <1>2, <1>3

LEMMA InitType == Init => TypeOK
<1> SUFFICES ASSUME Init PROVE TypeOK
  OBVIOUS
<1>1. live \in [Names -> Tree \cup {NULL}]
  BY WholeTree DEF Init, Names
<1> QED BY <1>1, Constants DEF Init, TypeOK, Times, PublishedHaveSlugs

LEMMA SetEntryPublishedType ==
  ASSUME TypeOK, NEW e \in Entries, NEW next \in BOOLEAN, SetEntryPublished(e, next)
  PROVE  TypeOK'
<1>1. slug' \in [Entries -> Slugs \cup {NULL}]
  BY Allocated DEF SetEntryPublished, TypeOK
<1>2. PublishedHaveSlugs'
  <2>1. next => slug'[e] \in Slugs
    BY Allocated DEF SetEntryPublished, TypeOK
  <2>2. \A f \in Entries \ {e} : slug'[f] = slug[f] /\ published'[f] = published[f]
    BY DEF SetEntryPublished, TypeOK
  <2>3. published'[e] = next
    BY DEF SetEntryPublished, TypeOK
  <2> QED BY <2>1, <2>2, <2>3, Constants DEF TypeOK, PublishedHaveSlugs
<1>3. published' \in [Entries -> BOOLEAN]
  BY DEF SetEntryPublished, TypeOK
<1> QED BY <1>1, <1>2, <1>3 DEF SetEntryPublished, TypeOK, disk

LEMMA OnDiskType ==
  ASSUME TypeOK, NEW l \in [Names -> Tree \cup {NULL}], NEW s \in [Users -> Tree \cup {NULL}],
         OnDisk(l, s), runs' \in [Runs -> Job \cup {NULL}]
  PROVE  TypeOK'
  BY DEF OnDisk, db, history, TypeOK, PublishedHaveSlugs

(* The sweep, whatever it finds and clears.                                *)
LEMMA SweptType ==
  ASSUME TypeOK, NEW r \in Runs, NEW found \in SUBSET Strays, Swept(r, found),
         staging' \in [Users -> Tree \cup {NULL}], faults' \in 0 .. MaxFaults
  PROVE  TypeOK'
<1>1. runs[r] \in Job /\ runs \in [Runs -> Job \cup {NULL}]
  BY JobType DEF Swept, At, TypeOK
<1>2. [runs[r] EXCEPT !.at = "next", !.strays = found] \in Job
  BY <1>1 DEF Job, Steps
<1>3. runs' \in [Runs -> Job \cup {NULL}]
  BY <1>1, <1>2 DEF Swept
<1>4. missed' \subseteq Strays
  BY DEF Swept, TreesOfNobody
<1> QED BY <1>3, <1>4 DEF Swept, db, TypeOK, PublishedHaveSlugs

(* The recursive rm of a site, of whatever is there.                       *)
LEMMA UnlinkType ==
  ASSUME TypeOK, NEW r \in Runs, runs[r] # NULL, Unlink(r) PROVE TypeOK'
<1>1. PICK tree \in Unlinked(live[User(r)]) : OnDisk(LiveWith(User(r), tree), staging)
  BY DEF Unlink
<1>2. live \in [Names -> Tree \cup {NULL}] /\ runs' = runs /\ live[User(r)] # NULL
  BY DEF TypeOK, Unlink
<1>3. LiveWith(User(r), tree) \in [Names -> Tree \cup {NULL}]
  <2>1. CASE User(r) \in Names
    <3>1. tree \in Tree
      BY <1>1, <1>2, <2>1, UnlinkedTree
    <3> QED BY <1>2, <3>1 DEF LiveWith
  <2>2. CASE User(r) \notin Names
    BY <1>2, <2>2 DEF LiveWith
  <2> QED BY <2>1, <2>2
<1> QED BY <1>1, <1>2, <1>3, OnDiskType DEF TypeOK

LEMMA RunStepType ==
  ASSUME TypeOK, NEW r \in Runs, RunStep(r) PROVE TypeOK'
<1>1. runs[r] # NULL
  BY DEF RunStep, At, SweepDisk, ReadRows, ClearStaging, NothingPublished, MakeStaging, WritePage,
         WriteIndex, RemoveLive, RenameStaging, UndoStaging, UndoLive, RemoveStray, MarkSuccess, Swept, Done
<1>2. runs[r] \in Job
  BY <1>1, JobType
<1>3. /\ live \in [Names -> Tree \cup {NULL}] /\ staging \in [Users -> Tree \cup {NULL}]
      /\ runs \in [Runs -> Job \cup {NULL}]
  BY DEF TypeOK
<1>4. \A t \in Tree \cup {NULL} :
        /\ LiveWith(User(r), t) \in [Names -> Tree \cup {NULL}]
        /\ StagingWith(User(r), t) \in [Users -> Tree \cup {NULL}]
  BY <1>3 DEF LiveWith, StagingWith
<1>5. ASSUME NEW step \in Steps, Goto(r, step) PROVE runs' \in [Runs -> Job \cup {NULL}]
  BY <1>1, <1>5, JobType DEF Goto
<1>6. /\ \A step \in {"next", "clear", "none", "mkdir", "pages", "index", "remove", "rename",
                      "undo", "undoLive"} : step \in Steps
  BY DEF Steps
<1>7. CASE SweepDisk(r)
  <2>1. Swept(r, TreesOfNobody) /\ TreesOfNobody \in SUBSET Strays
    BY <1>7 DEF SweepDisk, TreesOfNobody
  <2>2. staging' \in [Users -> Tree \cup {NULL}] /\ faults' \in 0 .. MaxFaults
    BY <1>7 DEF SweepDisk, TypeOK
  <2> QED BY <2>1, <2>2, SweptType
<1>8. CASE ReadRows(r)
  <2>1. PICK u \in runs[r].users :
          runs' = [runs EXCEPT ![r].at = "clear", ![r].user = u, ![r].users = @ \ {u},
                               ![r].rows = Published(u)]
    BY <1>8 DEF ReadRows
  <2>2. u \in Users /\ runs[r].users \ {u} \in SUBSET Users
    BY <1>2 DEF Job
  <2>3. [runs[r] EXCEPT !.at = "clear", !.user = u, !.users = @ \ {u}, !.rows = Published(u)] \in Job
    BY <1>2, <2>2, PublishedRows DEF Job, Steps
  <2>4. runs' \in [Runs -> Job \cup {NULL}]
    BY <2>1, <2>3, <1>3
  <2> QED BY <2>4, <1>8 DEF ReadRows, db, disk, history, TypeOK, PublishedHaveSlugs
<1>9. CASE ClearStaging(r)
  BY <1>3, <1>4, <1>5, <1>6, <1>9, OnDiskType DEF ClearStaging
<1>10. CASE NothingPublished(r)
  BY <1>1, <1>3, <1>4, <1>5, <1>6, <1>10, OnDiskType, UnlinkType DEF NothingPublished, Rmdir
<1>11. CASE MakeStaging(r)
  <2>1. Bare \in Tree
    BY DEF Bare, Tree
  <2>2. PICK s \in [Users -> Tree \cup {NULL}] : OnDisk(live, s)
    BY <2>1, <1>3, <1>4, <1>11 DEF MakeStaging
  <2>3. runs' \in [Runs -> Job \cup {NULL}]
    BY <1>5, <1>6, <1>11 DEF MakeStaging
  <2> QED BY <2>2, <2>3, <1>3, OnDiskType
<1>12. CASE WritePage(r)
  <2>1. CASE staging[User(r)] = NULL
    BY <2>1, <1>3, <1>5, <1>6, <1>12, OnDiskType DEF WritePage, Broken
  <2>2. CASE staging[User(r)] # NULL
    <3>1. PICK e \in runs[r].rows :
            /\ Goto(r, IF runs[r].rows \subseteq staging[User(r)].pages \cup {e} THEN "index" ELSE "pages")
            /\ OnDisk(live, [staging EXCEPT ![User(r)].pages = @ \cup {e}])
      BY <2>2, <1>12 DEF WritePage
    <3>2. e \in Entries
      BY <1>2 DEF Job
    <3>3. CASE User(r) \in Users
      <4>1. staging[User(r)] \in Tree
        BY <2>2, <3>3, <1>3
      <4>2. [staging[User(r)] EXCEPT !.pages = @ \cup {e}] \in Tree
        BY <3>2, <4>1 DEF Tree
      <4>3. [staging EXCEPT ![User(r)].pages = @ \cup {e}] \in [Users -> Tree \cup {NULL}]
        BY <4>2, <1>3
      <4> QED BY <3>1, <4>3, <1>3, <1>5, <1>6, OnDiskType
    <3>4. CASE User(r) \notin Users
      <4>1. [staging EXCEPT ![User(r)].pages = @ \cup {e}] \in [Users -> Tree \cup {NULL}]
        BY <3>4, <1>3
      <4> QED BY <3>1, <4>1, <1>3, <1>5, <1>6, OnDiskType
    <3> QED BY <3>3, <3>4
  <2> QED BY <2>1, <2>2
<1>13. CASE WriteIndex(r)
  <2>1. CASE staging[User(r)] = NULL
    BY <2>1, <1>3, <1>5, <1>6, <1>13, OnDiskType DEF WriteIndex, Broken
  <2>2. CASE staging[User(r)] # NULL
    <3>1. runs[r].rows \in SUBSET Entries
      BY <1>2 DEF Job
    <3>2. ASSUME User(r) \in Users
          PROVE  [staging[User(r)] EXCEPT !.index = runs[r].rows] \in Tree
      BY <3>1, <3>2, <2>2, <1>3 DEF Tree
    <3>3. [staging EXCEPT ![User(r)].index = runs[r].rows] \in [Users -> Tree \cup {NULL}]
      BY <3>2, <1>3
    <3> QED BY <3>3, <2>2, <1>3, <1>5, <1>6, <1>13, OnDiskType DEF WriteIndex
  <2> QED BY <2>1, <2>2
<1>14. CASE RemoveLive(r)
  BY <1>1, <1>3, <1>4, <1>5, <1>6, <1>14, OnDiskType, UnlinkType DEF RemoveLive, Rmdir
<1>15. CASE RenameStaging(r)
  <2>1. CASE staging[User(r)] = NULL \/ live[User(r)] # NULL
    BY <2>1, <1>3, <1>5, <1>6, <1>15, OnDiskType DEF RenameStaging, Broken
  <2>2. CASE staging[User(r)] # NULL /\ live[User(r)] = NULL
    <3>1. LiveWith(User(r), staging[User(r)]) \in [Names -> Tree \cup {NULL}]
      <4>1. CASE User(r) \in Users
        BY <4>1, <1>3, <1>4
      <4>2. CASE User(r) \notin Users
        <5>1. User(r) \notin Names
          BY <4>2, <1>2, Constants DEF User, Job
        <5> QED BY <5>1, <1>3 DEF LiveWith
      <4> QED BY <4>1, <4>2
    <3> QED BY <3>1, <2>2, <1>3, <1>4, <1>5, <1>6, <1>15, OnDiskType DEF RenameStaging
  <2> QED BY <2>1, <2>2
<1>16. CASE UndoStaging(r)
  BY <1>3, <1>4, <1>5, <1>6, <1>16, OnDiskType DEF UndoStaging
<1>17. CASE UndoLive(r)
  BY <1>1, <1>3, <1>4, <1>17, JobType, OnDiskType, UnlinkType DEF UndoLive, Rmdir, TurnFails
<1>18. CASE RemoveStray(r)
  <2>1. PICK n \in runs[r].strays :
          /\ runs' = [runs EXCEPT ![r].strays = @ \ {n}]
          /\ OnDisk(LiveWith(n, NULL), staging)
    BY <1>18 DEF RemoveStray
  <2>2. [runs[r] EXCEPT !.strays = @ \ {n}] \in Job
    BY <1>2 DEF Job
  <2>3. runs' \in [Runs -> Job \cup {NULL}]
    BY <2>1, <2>2, <1>3
  <2>4. LiveWith(n, NULL) \in [Names -> Tree \cup {NULL}]
    BY <1>3 DEF LiveWith
  <2> QED BY <2>1, <2>3, <2>4, <1>3, OnDiskType
<1>19. CASE MarkSuccess(r)
  <2>1. runs[r].started \in Times
    BY <1>2 DEF Job
  <2>2. runs' \in [Runs -> Job \cup {NULL}]
    BY <1>3, <1>19 DEF MarkSuccess
  <2> QED BY <2>1, <2>2, <1>19 DEF MarkSuccess, disk, history, TypeOK, PublishedHaveSlugs
<1> QED BY <1>7, <1>8, <1>9, <1>10, <1>11, <1>12, <1>13, <1>14, <1>15, <1>16, <1>17, <1>18, <1>19
        DEF RunStep

LEMMA StepType == TypeOK /\ [Next]_vars => TypeOK'
<1> SUFFICES ASSUME TypeOK, [Next]_vars PROVE TypeOK'
  OBVIOUS
<1>1. CASE Tick
  BY <1>1, Constants DEF Tick, db, disk, history, TypeOK, Times, PublishedHaveSlugs
<1>2. CASE Crash
  <2>1. faults' \in 0 .. MaxFaults
    BY <1>2, Constants DEF Crash, Fault, TypeOK
  <2>2. runs' \in [Runs -> Job \cup {NULL}]
    BY <1>2 DEF Crash
  <2> QED BY <1>2, <2>1, <2>2 DEF Crash, db, disk, history, TypeOK, PublishedHaveSlugs
<1>3. ASSUME NEW e \in Entries, NEW next \in BOOLEAN, SetEntryPublished(e, next) PROVE TypeOK'
  BY <1>3, SetEntryPublishedType
<1>4. ASSUME NEW r \in Runs, StartRun(r) PROVE TypeOK'
  <2>1. [at |-> "sweep", started |-> clock, users |-> Users, strays |-> {}, user |-> NULL,
         rows |-> {}, failed |-> FALSE] \in Job
    BY DEF TypeOK, Job, Steps
  <2>2. runs' \in [Runs -> Job \cup {NULL}]
    BY <2>1, <1>4 DEF StartRun, TypeOK
  <2> QED BY <2>2, <1>4 DEF StartRun, db, disk, history, TypeOK, PublishedHaveSlugs
<1>5. ASSUME NEW r \in Runs, RunStep(r) PROVE TypeOK'
  BY <1>5, RunStepType
<1>6. ASSUME NEW r \in Runs, DiskFails(r) PROVE TypeOK'
  <2>1. faults' \in 0 .. MaxFaults
    BY <1>6, Constants DEF DiskFails, Fault, TypeOK
  <2>2. "undo" \in Steps
    BY DEF Steps
  <2>3. runs' = [runs EXCEPT ![r].at = "undo"] \/ runs' = [runs EXCEPT ![r].at = "next", ![r].failed = TRUE]
    BY <1>6 DEF DiskFails, Goto, TurnFails
  <2>4. runs[r] # NULL
    BY <1>6 DEF DiskFails
  <2>5. /\ [runs EXCEPT ![r].at = "undo"] \in [Runs -> Job \cup {NULL}]
        /\ [runs EXCEPT ![r].at = "next", ![r].failed = TRUE] \in [Runs -> Job \cup {NULL}]
    BY <2>2, <2>4, JobType
  <2>6. runs' \in [Runs -> Job \cup {NULL}]
    BY <2>3, <2>5
  <2> QED BY <1>6, <2>1, <2>6 DEF DiskFails, db, disk, history, TypeOK, PublishedHaveSlugs
<1>7. ASSUME NEW r \in Runs, SweepFails(r) PROVE TypeOK'
  <2>1. PICK found \in SUBSET TreesOfNobody, cleared \in SUBSET Users :
          /\ Swept(r, found)
          /\ staging' = [u \in Users |-> IF u \in cleared THEN NULL ELSE staging[u]]
    BY <1>7 DEF SweepFails
  <2>2. found \in SUBSET Strays
    BY DEF TreesOfNobody
  <2>3. staging' \in [Users -> Tree \cup {NULL}]
    BY <2>1 DEF TypeOK
  <2>4. faults' \in 0 .. MaxFaults
    BY <1>7, Constants DEF SweepFails, Fault, TypeOK
  <2> QED BY <2>1, <2>2, <2>3, <2>4, SweptType
<1>8. ASSUME NEW r \in Runs, StrayStays(r) PROVE TypeOK'
  <2>1. PICK n \in runs[r].strays :
          runs' = [runs EXCEPT ![r].strays = @ \ {n}, ![r].failed = TRUE]
    BY <1>8 DEF StrayStays
  <2>2. runs[r] \in Job /\ runs \in [Runs -> Job \cup {NULL}]
    BY <1>8, JobType DEF StrayStays, At, TypeOK
  <2>3. [runs[r] EXCEPT !.strays = @ \ {n}, !.failed = TRUE] \in Job
    BY <2>2 DEF Job
  <2>4. runs' \in [Runs -> Job \cup {NULL}]
    BY <2>1, <2>2, <2>3
  <2>5. faults' \in 0 .. MaxFaults
    BY <1>8, Constants DEF StrayStays, Fault, TypeOK
  <2> QED BY <1>8, <2>4, <2>5 DEF StrayStays, db, disk, history, TypeOK, PublishedHaveSlugs
<1>9. CASE UNCHANGED vars
  BY <1>9 DEF vars, db, disk, history, TypeOK, PublishedHaveSlugs
<1> QED BY <1>1, <1>2, <1>3, <1>4, <1>5, <1>6, <1>7, <1>8, <1>9 DEF Next

(* Published entries have slugs, and all else is of its type.              *)
THEOREM TypeCorrect == Spec => []TypeOK
  BY InitType, StepType, PTL DEF Spec
-----------------------------------------------------------------------------
(* No two entries of a user have one slug.                                 *)
Apart == \A e, f \in Entries : slug[e] # NULL /\ OwnerOf[f] = OwnerOf[e] /\ f # e => slug[f] # slug[e]

(* Only setEntryPublished touches slugs, that of one entry.                *)
LEMMA SlugStep ==
  ASSUME TypeOK, [Next]_vars
  PROVE  \/ UNCHANGED slug
         \/ \E e \in Entries : /\ slug[e] = NULL /\ slug' = [slug EXCEPT ![e] = AllocatePublishSlug(e)]
<1>1. ASSUME NEW e \in Entries, NEW next \in BOOLEAN, SetEntryPublished(e, next)
      PROVE  \/ UNCHANGED slug
             \/ slug[e] = NULL /\ slug' = [slug EXCEPT ![e] = AllocatePublishSlug(e)]
  <2>1. CASE slug[e] # NULL
    <3>1. AllocatePublishSlug(e) = slug[e]
      BY <2>1 DEF AllocatePublishSlug
    <3> QED BY <1>1, <3>1 DEF SetEntryPublished, TypeOK
  <2> QED BY <1>1, <2>1 DEF SetEntryPublished
<1>2. ASSUME NEW r \in Runs,
             StartRun(r) \/ RunStep(r) \/ DiskFails(r) \/ SweepFails(r) \/ StrayStays(r)
      PROVE  UNCHANGED slug
  BY <1>2 DEF StartRun, RunStep, DiskFails, SweepFails, StrayStays, Swept, Unlink, Rmdir, OnDisk, Broken, db, SweepDisk, ReadRows, ClearStaging,
              NothingPublished, MakeStaging, WritePage, WriteIndex, RemoveLive, RenameStaging,
              UndoStaging, UndoLive, RemoveStray, MarkSuccess
<1> QED BY <1>1, <1>2 DEF Next, vars, Tick, Crash, db

LEMMA SlugsHold ==
  ASSUME TypeOK, Apart, [Next]_vars
  PROVE  /\ Apart'
         /\ \A e \in Entries : slug[e] # NULL =>
              /\ slug'[e] = slug[e]
              /\ \A f \in EntriesOf(OwnerOf[e]) \ {e} : slug'[f] # slug[e]
<1>1. CASE UNCHANGED slug
  BY <1>1 DEF Apart, EntriesOf
<1>2. ASSUME NEW e \in Entries, slug[e] = NULL, slug' = [slug EXCEPT ![e] = AllocatePublishSlug(e)]
      PROVE  Apart' /\ \A f \in Entries \ {e} : slug'[f] = slug[f]
  <2>1. slug'[e] \notin Taken(e) /\ slug'[e] # NULL /\ \A f \in Entries \ {e} : slug'[f] = slug[f]
    BY <1>2, Allocated, Constants DEF TypeOK
  <2>2. \A f \in Entries \ {e} : slug[f] # NULL /\ OwnerOf[f] = OwnerOf[e] => slug[f] # slug'[e]
    BY <2>1 DEF Taken, EntriesOf
  <2> QED BY <2>1, <2>2 DEF Apart
<1> QED BY <1>1, <1>2, SlugStep DEF Apart, EntriesOf

(* An address, once given, stays with its entry, for any number of entries *)
(* of one minute, published and unpublished in any order.                  *)
THEOREM AddressesKept == Spec => AddressesHold
<1>1. Init => Apart
  BY DEF Init, Apart
<1>2. TypeOK /\ Apart /\ [Next]_vars => Apart'
  BY SlugsHold
<1>3. TypeOK /\ Apart /\ [Next]_vars =>
        [\A e \in Entries :
           slug[e] # NULL =>
             /\ slug'[e] = slug[e]
             /\ \A f \in EntriesOf(OwnerOf[e]) \ {e} : slug'[f] # slug[e]]_vars
  BY SlugsHold
<1> QED BY <1>1, <1>2, <1>3, TypeCorrect, PTL DEF Spec, AddressesHold
-----------------------------------------------------------------------------
(* One run at a time, which a run that ends before the next tick gives.    *)
OneRun == \A r, q \in Runs : r = q

Servable(tree) == tree = NULL \/ IsSite(tree)

(* The user a job is at work on, if any.                                   *)
Between == {"sweep", "next"}
InHand(r) == IF runs[r].at \in Between THEN {} ELSE {User(r)}

(* What a job has built so far is in its staging directory, and only a     *)
(* fault makes it undo that.                                               *)
Staged(r) ==
  LET rows == runs[r].rows
      built == staging[User(r)]
      at == runs[r].at
  IN /\ at \notin Between => User(r) \in Users
     /\ at = "none" => rows = {}
     /\ at \in {"mkdir", "pages", "index", "remove", "rename"} => rows # {}
     /\ at = "mkdir" => built = NULL
     /\ at = "pages" => \E done \in SUBSET rows : done # rows /\ built = [pages |-> done, index |-> NULL]
     /\ at = "index" => built = [pages |-> rows, index |-> NULL]
     /\ at \in {"remove", "rename"} => built = Whole(rows)
     /\ at = "rename" => live[User(r)] = NULL
     /\ at \in {"undo", "undoLive"} => faults > 0

(* A job that has not failed, and since whose start nothing has changed.   *)
Undisturbed(r) == ~runs[r].failed /\ changeAt <= runs[r].started /\ unseen = {}

(* The users such a job has done have their sites, and the one in hand is  *)
(* to get what is published. Flips or not, what it has done is whole.      *)
UsersDone(r) ==
  /\ Undisturbed(r) =>
       /\ \A v \in Users \ (runs[r].users \cup InHand(r)) : live[v] = Site(v)
       /\ runs[r].at \notin Between \cup {"undo", "undoLive"} => runs[r].rows = Published(User(r))
  /\ ~runs[r].failed => \A v \in Users \ (runs[r].users \cup InHand(r)) : Servable(live[v])

StraysKnown(r) ==
  /\ runs[r].at = "sweep" => runs[r].users = Users
  /\ runs[r].at # "sweep" /\ ~runs[r].failed =>
       \A n \in Strays \ missed : live[n] # NULL => n \in runs[r].strays

Dirty(r) == changeAt > lastSuccessAt /\ runs[r].started <= clock

JobInv(r) == runs[r] # NULL => Staged(r) /\ UsersDone(r) /\ StraysKnown(r) /\ Dirty(r)

AtRest == \A r \in Runs : runs[r] = NULL
Clean ==
  AtRest /\ changeAt <= lastSuccessAt =>
    /\ \A u \in Users : Servable(live[u])
    /\ unseen = {} => \A u \in Users : live[u] = Site(u)
    /\ lastSuccessAt > 0 => \A n \in Strays \ missed : live[n] = NULL

(* Before the first fault only the site a job takes down is in pieces.     *)
Removing(r) == runs[r] # NULL /\ runs[r].at \in {"none", "remove"}
Faultless ==
  faults = 0 => \A u \in Users : Servable(live[u]) \/ \E r \in Runs : Removing(r) /\ User(r) = u
Clocks == changeAt <= clock /\ lastSuccessAt <= clock

RunInv == TypeOK /\ Clocks /\ Faultless /\ Clean /\ \A r \in Runs : JobInv(r)

LEMMA InitRun == Init => RunInv
<1> SUFFICES ASSUME Init PROVE RunInv
  OBVIOUS
<1>1. \A u \in Users : live[u] = NULL /\ Published(u) = {}
  BY Constants DEF Init, Names, Published, EntriesOf
<1> QED BY <1>1, InitType DEF Init, RunInv, Clocks, Faultless, Servable, Clean, JobInv, Site

LEMMA JobFacts ==
  ASSUME RunInv, NEW r \in Runs, runs[r] # NULL
  PROVE  /\ runs[r] \in Job /\ runs[r].rows \in SUBSET Entries /\ runs[r].users \in SUBSET Users
         /\ runs[r].strays \in SUBSET Strays /\ runs[r].started \in Times
         /\ Staged(r) /\ UsersDone(r) /\ StraysKnown(r) /\ Dirty(r)
         /\ runs[r].at \notin Between => User(r) \in Users
<1>1. runs[r] \in Job
  BY JobType DEF RunInv
<1> QED BY <1>1 DEF RunInv, JobInv, Staged, Job

LEMMA Numbers ==
  ASSUME RunInv
  PROVE  /\ clock \in Nat /\ changeAt \in Nat /\ lastSuccessAt \in Nat /\ faults \in Nat
         /\ \A r \in Runs : runs[r] # NULL => runs[r].started \in Nat
  BY JobFacts, Constants DEF RunInv, TypeOK, Times

(* A flip spares what is on the disk; a job it reaches is disturbed.       *)
LEMMA FlipRun ==
  ASSUME OneRun, RunInv, NEW e \in Entries, NEW next \in BOOLEAN, SetEntryPublished(e, next)
  PROVE  RunInv'
<1>1. /\ changeAt' = clock /\ UNCHANGED <<lastSuccessAt, live, staging, runs, clock, faults, missed>>
      /\ unseen' = IF InStartedMs THEN unseen \cup {e} ELSE unseen
  BY DEF SetEntryPublished, disk
<1>2. TypeOK'
  BY SetEntryPublishedType DEF RunInv
<1>3. Clocks'
  BY <1>1, Numbers DEF RunInv, Clocks
<1>4. Faultless'
  <2>1. \A r \in Runs : Removing(r)' = Removing(r) /\ User(r)' = User(r)
    BY <1>1 DEF Removing, User
  <2> QED BY <1>1, <2>1 DEF RunInv, Faultless
<1>5. Clean'
  <2> SUFFICES ASSUME AtRest, clock <= lastSuccessAt
               PROVE  /\ \A u \in Users : Servable(live[u])
                      /\ unseen' # {}
                      /\ lastSuccessAt > 0 => \A n \in Strays \ missed : live[n] = NULL
    BY <1>1 DEF Clean, AtRest, Servable
  <2>1. changeAt <= lastSuccessAt
    BY Numbers DEF RunInv, Clocks
  <2> QED BY <1>1, <2>1 DEF RunInv, Clean, InStartedMs
<1>6. ASSUME NEW r \in Runs PROVE JobInv(r)'
  <2> SUFFICES ASSUME runs[r] # NULL PROVE Staged(r)' /\ UsersDone(r)' /\ StraysKnown(r)' /\ Dirty(r)'
    BY <1>1 DEF JobInv
  <2>1. Staged(r)' /\ StraysKnown(r)'
    <3>1. Staged(r) /\ StraysKnown(r)
      BY JobFacts
    <3> QED BY <1>1, <3>1 DEF Staged, StraysKnown, User
  <2>2. Dirty(r)'
    BY <1>1, JobFacts, Numbers DEF RunInv, Dirty, Clocks
  <2>3. ~Undisturbed(r)'
    BY <1>1, Numbers DEF Undisturbed, InStartedMs
  <2>4. UsersDone(r)'
    <3>1. InHand(r)' = InHand(r)
      BY <1>1 DEF InHand, User
    <3>2. UsersDone(r)
      BY JobFacts
    <3> QED BY <1>1, <2>3, <3>1, <3>2 DEF UsersDone, Servable
  <2> QED BY <2>1, <2>2, <2>4
<1> QED BY <1>2, <1>3, <1>4, <1>5, <1>6 DEF RunInv

(* All sites but the one in hand are whole, before the first fault.        *)
LEMMA OthersServable ==
  ASSUME OneRun, RunInv, faults = 0, NEW u \in Users,
         \A r \in Runs : ~(Removing(r) /\ User(r) = u)
  PROVE  Servable(live[u])
  BY DEF RunInv, Faultless

LEMMA StartRunRun ==
  ASSUME OneRun, RunInv, NEW r \in Runs, StartRun(r) PROVE RunInv'
<1> DEFINE j == [at |-> "sweep", started |-> clock, users |-> Users, strays |-> {}, user |-> NULL,
                 rows |-> {}, failed |-> FALSE]
<1>1. /\ runs' = [runs EXCEPT ![r] = j] /\ runs'[r] = j /\ PublishIsDirty /\ runs[r] = NULL
      /\ UNCHANGED <<changeAt, lastSuccessAt, live, staging, clock, published, faults>>
  BY DEF StartRun, db, disk, RunInv, TypeOK
<1>2. TypeOK'
  BY StepType DEF RunInv, Next
<1>3. runs'[r] # NULL
  <2>1. j \in Job
    BY DEF RunInv, TypeOK, Job, Steps
  <2> QED BY <2>1, <1>1, Constants
<1>4. Clocks' /\ Clean'
  BY <1>1, <1>3 DEF RunInv, Clocks, Clean, AtRest
<1>5. Faultless'
  <2>1. faults = 0 => \A u \in Users : Servable(live[u])
    BY <1>1, OthersServable DEF Removing, OneRun
  <2> QED BY <1>1, <2>1 DEF Faultless, Servable
<1>6. JobInv(r)'
  <2>1. Staged(r)'
    BY <1>1 DEF Staged, User, Between
  <2>2. StraysKnown(r)' /\ UsersDone(r)'
    BY <1>1 DEF StraysKnown, UsersDone, Between
  <2>3. Dirty(r)'
    BY <1>1, Constants DEF Dirty, PublishIsDirty, RunInv, TypeOK, Times
  <2> QED BY <2>1, <2>2, <2>3 DEF JobInv
<1> QED BY <1>2, <1>4, <1>5, <1>6 DEF RunInv, OneRun

(* What is common to the steps of a job but the last: the database and the *)
(* clock stay as they are, and the job is still there.                     *)
LEMMA StillThere ==
  ASSUME OneRun, RunInv, [Next]_vars, NEW r \in Runs, runs[r] # NULL, runs'[r] # NULL,
         runs'[r].started = runs[r].started, Faultless', Staged(r)', UsersDone(r)', StraysKnown(r)',
         UNCHANGED <<db, clock>>
  PROVE  RunInv'
<1>1. TypeOK'
  BY StepType DEF RunInv
<1>2. Clocks' /\ Clean'
  BY DEF RunInv, Clocks, Clean, AtRest, db
<1>3. JobInv(r)'
  BY DEF RunInv, JobInv, Dirty, db
<1> QED BY <1>1, <1>2, <1>3 DEF RunInv, OneRun

LEMMA Going ==
  ASSUME TypeOK, NEW r \in Runs, runs[r] # NULL, NEW step \in Steps, Goto(r, step)
  PROVE  /\ runs'[r] # NULL /\ runs'[r].at = step /\ User(r)' = User(r)
         /\ runs'[r].started = runs[r].started /\ runs'[r].users = runs[r].users
         /\ runs'[r].strays = runs[r].strays /\ runs'[r].rows = runs[r].rows
         /\ runs'[r].failed = runs[r].failed
<1>1. runs'[r] = [runs[r] EXCEPT !.at = step] /\ runs[r] \in Job
  BY JobType DEF Goto, TypeOK
<1>2. runs'[r] \in Job
  BY <1>1 DEF Job
<1> QED BY <1>1, <1>2, Constants DEF Job, User

LEMMA Unflipped ==
  ASSUME UNCHANGED db PROVE \A u \in Users : Published(u)' = Published(u) /\ Site(u)' = Site(u)
  BY DEF db, Published, Site, EntriesOf

(* A fault, or the catch of rebuildUser after one, gives the user up.      *)
LEMMA GivesUp ==
  ASSUME OneRun, RunInv, [Next]_vars, NEW r \in Runs, runs[r] # NULL,
         runs[r].at \notin Between, faults' > 0,
         UNCHANGED <<db, live, clock, history>>,
         \/ Goto(r, "undo")
         \/ Goto(r, "undoLive")
         \/ TurnFails(r)
  PROVE  RunInv'
<1>1. runs[r] \in Job /\ Staged(r) /\ UsersDone(r) /\ StraysKnown(r)
  BY JobFacts
<1>2. Faultless'
  BY DEF Faultless
<1>3. ASSUME NEW step \in {"undo", "undoLive"}, Goto(r, step) PROVE RunInv'
  <2>1. step \in Steps
    BY DEF Steps
  <2>2. runs'[r] # NULL /\ runs'[r].started = runs[r].started
    BY <1>3, <2>1, Going DEF RunInv
  <2>3. Staged(r)'
    BY <1>1, <1>3, <2>1, Going DEF RunInv, Staged, Between
  <2>4. Undisturbed(r)' => Undisturbed(r)
    BY <1>3, <2>1, Going DEF RunInv, Undisturbed, db, history
  <2>5. UsersDone(r)'
    <3>1. InHand(r)' = InHand(r) /\ runs'[r].users = runs[r].users /\ runs'[r].failed = runs[r].failed
      BY <1>3, <2>1, Going DEF RunInv, InHand, Between
    <3>2. runs'[r].at \in {"undo", "undoLive"}
      BY <1>3, <2>1, Going DEF RunInv
    <3> QED BY <1>1, <2>4, <3>1, <3>2, Unflipped DEF UsersDone, Servable
  <2>6. StraysKnown(r)'
    BY <1>1, <1>3, <2>1, Going DEF RunInv, StraysKnown, Between, history
  <2> QED BY <1>2, <2>2, <2>3, <2>5, <2>6, StillThere
<1>4. CASE TurnFails(r)
  <2>1. runs'[r] = [runs[r] EXCEPT !.at = "next", !.failed = TRUE]
    BY <1>4 DEF TurnFails, RunInv, TypeOK
  <2>2. /\ runs'[r] \in Job /\ runs'[r].at = "next" /\ runs'[r].failed
        /\ runs'[r].started = runs[r].started
    BY <1>1, <2>1 DEF Job, Steps
  <2>3. Staged(r)' /\ UsersDone(r)' /\ StraysKnown(r)'
    BY <2>2 DEF Staged, UsersDone, StraysKnown, Undisturbed, Between
  <2> QED BY <1>2, <2>2, <2>3, Constants, StillThere
<1> QED BY <1>3, <1>4

(* A step of a job that is well under way, of those it does on the disk.   *)
LEMMA GoesOn ==
  ASSUME OneRun, RunInv, [Next]_vars, NEW r \in Runs, runs[r] # NULL, NEW step \in Steps,
         Goto(r, step), UNCHANGED <<db, clock, history>>,
         Faultless', Staged(r)', StraysKnown(r)',
         Undisturbed(r) =>
           /\ \A v \in Users \ (runs[r].users \cup InHand(r)') : live'[v] = Site(v)
           /\ step \notin Between \cup {"undo", "undoLive"} => runs[r].rows = Published(User(r)),
         ~runs[r].failed => \A v \in Users \ (runs[r].users \cup InHand(r)') : Servable(live'[v])
  PROVE  RunInv'
<1>1. /\ runs'[r] # NULL /\ runs'[r].at = step /\ User(r)' = User(r)
      /\ runs'[r].started = runs[r].started /\ runs'[r].users = runs[r].users
      /\ runs'[r].rows = runs[r].rows /\ runs'[r].failed = runs[r].failed
  BY Going DEF RunInv
<1>2. Undisturbed(r)' => Undisturbed(r)
  BY <1>1 DEF Undisturbed, db, history
<1>3. UsersDone(r)'
  <2>1. Undisturbed(r)' =>
          \A v \in Users \ (runs'[r].users \cup InHand(r)') : live'[v] = Site(v)'
    BY <1>1, <1>2, Unflipped
  <2>2. Undisturbed(r)' /\ runs'[r].at \notin Between \cup {"undo", "undoLive"} =>
          runs'[r].rows = Published(User(r))'
    <3>1. step \notin Between \cup {"undo", "undoLive"} => User(r) \in Users
      BY <1>1 DEF Staged
    <3> QED BY <1>1, <1>2, <3>1, Unflipped
  <2> QED BY <1>1, <2>1, <2>2 DEF UsersDone, Servable
<1> QED BY <1>1, <1>3, StillThere

(* What happens to the tree of one name leaves all others as they are.     *)
LEMMA OneTree ==
  ASSUME TypeOK, NEW n \in Names, NEW t, live' = LiveWith(n, t)
  PROVE  live'[n] = t /\ \A m \in Names \ {n} : live'[m] = live[m]
  BY DEF LiveWith, TypeOK

LEMMA UserTree ==
  ASSUME TypeOK, NEW u \in Users, NEW t, live' = LiveWith(u, t)
  PROVE  /\ live'[u] = t /\ \A v \in Users \ {u} : live'[v] = live[v]
         /\ \A n \in Strays : live'[n] = live[n]
  BY OneTree, Constants DEF Names

LEMMA SweptRun ==
  ASSUME OneRun, RunInv, [Next]_vars, NEW r \in Runs, NEW found \in SUBSET TreesOfNobody,
         Swept(r, found), faults' \in {faults, faults + 1}
  PROVE  RunInv'
<1> DEFINE j == [runs[r] EXCEPT !.at = "next", !.strays = found]
<1>1. /\ runs[r] # NULL /\ runs[r].at = "sweep" /\ runs'[r] = j
      /\ UNCHANGED <<db, live, clock, unseen>> /\ missed' = TreesOfNobody \ found
  BY DEF Swept, At, RunInv, TypeOK
<1>2. /\ j \in Job /\ j.at = "next" /\ j.users = Users /\ j.started = runs[r].started
      /\ j.strays = found
  <2>1. runs[r] \in Job /\ runs[r].users = Users
    BY <1>1, JobFacts DEF StraysKnown
  <2>2. found \in SUBSET Strays
    BY DEF TreesOfNobody
  <2> QED BY <2>1, <2>2 DEF Job, Steps
<1>3. runs'[r] # NULL
  BY <1>1, <1>2, Constants
<1>4. Staged(r)' /\ UsersDone(r)'
  BY <1>1, <1>2 DEF Staged, UsersDone, Between
<1>5. StraysKnown(r)'
  BY <1>1, <1>2 DEF StraysKnown, TreesOfNobody
<1>6. Faultless'
  <2>1. faults' = 0 => \A u \in Users : Servable(live[u])
    BY <1>1, Numbers, OthersServable DEF Removing, OneRun
  <2> QED BY <1>1, <2>1 DEF Faultless, Servable
<1> QED BY <1>1, <1>2, <1>3, <1>4, <1>5, <1>6, StillThere

LEMMA ReadRowsRun ==
  ASSUME OneRun, RunInv, [Next]_vars, NEW r \in Runs, ReadRows(r) PROVE RunInv'
<1>1. PICK u \in runs[r].users :
        runs' = [runs EXCEPT ![r].at = "clear", ![r].user = u, ![r].users = @ \ {u},
                             ![r].rows = Published(u)]
  BY DEF ReadRows
<1> DEFINE j == [runs[r] EXCEPT !.at = "clear", !.user = u, !.users = @ \ {u}, !.rows = Published(u)]
<1>2. /\ runs[r] # NULL /\ runs[r].at = "next" /\ runs'[r] = j
      /\ UNCHANGED <<db, live, clock, faults, history>>
  BY <1>1 DEF ReadRows, At, disk, RunInv, TypeOK
<1>3. u \in Users
  BY <1>2, JobFacts
<1>4. /\ j \in Job /\ j.at = "clear" /\ j.user = u /\ j.users = runs[r].users \ {u}
      /\ j.rows = Published(u) /\ j.started = runs[r].started /\ j.strays = runs[r].strays
      /\ j.failed = runs[r].failed
  <2>1. runs[r] \in Job /\ runs[r].users \ {u} \in SUBSET Users
    BY <1>2, JobFacts
  <2>2. Published(u) \in SUBSET Entries
    BY PublishedRows
  <2> QED BY <1>3, <2>1, <2>2 DEF Job, Steps
<1>5. runs'[r] # NULL
  BY <1>2, <1>4, Constants
<1>6. Staged(r)' /\ StraysKnown(r)'
  BY <1>2, <1>3, <1>4, JobFacts DEF Staged, StraysKnown, Between, User, history
<1>7. InHand(r)' = {u} /\ InHand(r) = {}
  BY <1>2, <1>4 DEF InHand, Between, User
<1>8. UsersDone(r)'
  BY <1>2, <1>3, <1>4, <1>7, JobFacts, Unflipped DEF UsersDone, Undisturbed, User, db, history, Servable
<1>9. Faultless'
  <2>1. faults = 0 => \A v \in Users : Servable(live[v])
    BY <1>2, OthersServable DEF Removing, OneRun
  <2> QED BY <1>2, <2>1 DEF Faultless, Servable
<1> QED BY <1>2, <1>4, <1>5, <1>6, <1>8, <1>9, StillThere

LEMMA MarkSuccessRun ==
  ASSUME OneRun, RunInv, [Next]_vars, NEW r \in Runs, MarkSuccess(r) PROVE RunInv'
<1>1. /\ runs[r] # NULL /\ runs[r].at = "next" /\ runs[r].users = {} /\ runs[r].strays = {}
      /\ runs' = [runs EXCEPT ![r] = NULL]
      /\ lastSuccessAt' = IF runs[r].failed THEN lastSuccessAt ELSE runs[r].started
      /\ UNCHANGED <<published, changeAt, live, clock, faults, history>>
  BY DEF MarkSuccess, Done, At, disk
<1>2. TypeOK' /\ runs'[r] = NULL
  BY <1>1, StepType DEF RunInv, TypeOK
<1>3. Staged(r) /\ UsersDone(r) /\ StraysKnown(r) /\ Dirty(r) /\ InHand(r) = {}
  BY <1>1, JobFacts DEF InHand, Between
<1>4. Clocks'
  BY <1>1, <1>3 DEF RunInv, Clocks, Dirty
<1>5. Faultless'
  <2>1. faults = 0 => \A v \in Users : Servable(live[v])
    BY <1>1, OthersServable DEF Removing, OneRun
  <2> QED BY <1>1, <2>1 DEF Faultless, Servable
<1>6. Clean'
  <2> SUFFICES ASSUME changeAt' <= lastSuccessAt'
               PROVE  /\ \A u \in Users : Servable(live[u])
                      /\ unseen = {} => \A u \in Users : live[u] = Site(u)
                      /\ \A n \in Strays \ missed : live[n] = NULL
    <3>1. \A u \in Users : Site(u)' = Site(u)
      BY <1>1 DEF Site, Published
    <3> QED BY <1>1, <3>1 DEF Clean, Servable, history
  <2>1. ~runs[r].failed /\ changeAt <= runs[r].started
    BY <1>1, <1>3, Numbers DEF Dirty
  <2> QED BY <1>1, <1>3, <2>1 DEF UsersDone, Undisturbed, StraysKnown
<1>7. \A q \in Runs : JobInv(q)'
  BY <1>2 DEF JobInv, OneRun
<1> QED BY <1>2, <1>4, <1>5, <1>6, <1>7 DEF RunInv

(* A tree of nobody goes, or fails to.                                     *)
LEMMA StrayRun ==
  ASSUME OneRun, RunInv, [Next]_vars, NEW r \in Runs, RemoveStray(r) \/ StrayStays(r) PROVE RunInv'
<1>1. PICK n \in runs[r].strays :
        \/ /\ runs' = [runs EXCEPT ![r].strays = @ \ {n}]
           /\ live' = LiveWith(n, NULL) /\ UNCHANGED faults
        \/ /\ runs' = [runs EXCEPT ![r].strays = @ \ {n}, ![r].failed = TRUE]
           /\ live' = live /\ faults' = faults + 1
  BY DEF RemoveStray, StrayStays, OnDisk, Fault, disk
<1>2. /\ runs[r] # NULL /\ runs[r].at = "next" /\ runs[r].users = {}
      /\ UNCHANGED <<db, clock, history>>
  BY DEF RemoveStray, StrayStays, OnDisk, At
<1>3. runs[r] \in Job /\ n \in Strays /\ UsersDone(r) /\ StraysKnown(r)
  BY <1>1, <1>2, JobFacts
<1> DEFINE left == [runs[r] EXCEPT !.strays = @ \ {n}]
           lost == [runs[r] EXCEPT !.strays = @ \ {n}, !.failed = TRUE]
<1>4. /\ left \in Job /\ left.at = "next" /\ left.started = runs[r].started
      /\ left.users = {} /\ left.failed = runs[r].failed /\ left.strays = runs[r].strays \ {n}
      /\ lost \in Job /\ lost.at = "next" /\ lost.started = runs[r].started
      /\ lost.users = {} /\ lost.failed
  BY <1>2, <1>3 DEF Job
<1>5. runs'[r] \in {left, lost}
  BY <1>1 DEF RunInv, TypeOK
<1>6. \A u \in Users : live'[u] = live[u]
  <2>1. CASE live' = LiveWith(n, NULL)
    BY <1>3, <2>1, OneTree, Constants DEF RunInv, Names
  <2> QED BY <1>1, <2>1
<1>7. runs'[r] # NULL /\ runs'[r].started = runs[r].started /\ runs'[r].at = "next"
  BY <1>4, <1>5, Constants
<1>8. Staged(r)'
  BY <1>7 DEF Staged, Between
<1>9. InHand(r) = {} /\ InHand(r)' = {} /\ runs'[r].users = {}
  BY <1>2, <1>4, <1>5, <1>7 DEF InHand, Between
<1>10. Faultless'
  <2>1. faults' = 0 => \A u \in Users : Servable(live[u])
    BY <1>1, <1>2, Numbers, OthersServable DEF Removing, OneRun
  <2> QED BY <1>6, <2>1 DEF Faultless, Servable
<1>11. CASE runs'[r].failed
  BY <1>2, <1>7, <1>8, <1>10, <1>11, StillThere DEF UsersDone, Undisturbed, StraysKnown
<1>12. CASE ~runs'[r].failed
  <2>1. runs'[r] = left /\ live' = LiveWith(n, NULL) /\ ~runs[r].failed
    <3>1. runs'[r] = left /\ ~runs[r].failed
      BY <1>4, <1>5, <1>12
    <3>2. ~(runs' = [runs EXCEPT ![r].strays = @ \ {n}, ![r].failed = TRUE])
      <4>1. SUFFICES ASSUME runs' = [runs EXCEPT ![r].strays = @ \ {n}, ![r].failed = TRUE]
                     PROVE  runs'[r] = lost
        BY <1>4, <1>12
      <4> QED BY <4>1 DEF RunInv, TypeOK
    <3> QED BY <1>1, <3>1, <3>2
  <2>2. StraysKnown(r)'
    <3>1. live'[n] = NULL /\ \A m \in Strays \ {n} : live'[m] = live[m]
      BY <1>3, <2>1, OneTree DEF RunInv, Names
    <3> QED BY <1>2, <1>3, <1>4, <1>7, <2>1, <3>1 DEF StraysKnown, history
  <2>3. UsersDone(r)'
    <3>1. Undisturbed(r)' => Undisturbed(r)
      BY <1>2, <1>4, <2>1 DEF Undisturbed, db, history
    <3> QED BY <1>2, <1>3, <1>6, <1>7, <1>9, <2>1, <3>1, Unflipped DEF UsersDone, Between, Servable
  <2> QED BY <1>2, <1>7, <1>8, <1>10, <2>2, <2>3, StillThere
<1> QED BY <1>11, <1>12

(* The job stays with the user in hand, whose site, if it touches it, is   *)
(* gone.                                                                   *)
LEMMA StaysInHand ==
  ASSUME OneRun, RunInv, [Next]_vars, NEW r \in Runs, runs[r] # NULL,
         runs[r].at \notin Between \cup {"undo", "undoLive"},
         NEW step \in Steps \ Between, Goto(r, step), UNCHANGED <<db, clock, faults, history>>,
         \/ live' = live /\ ~Removing(r)
         \/ live' = LiveWith(User(r), NULL),
         Staged(r)'
  PROVE  RunInv'
<1>1. User(r) \in Users /\ UsersDone(r) /\ StraysKnown(r)
  BY JobFacts
<1>2. /\ runs'[r].at = step /\ User(r)' = User(r) /\ runs'[r].strays = runs[r].strays
      /\ runs'[r].failed = runs[r].failed
  BY Going DEF RunInv
<1>3. /\ \A v \in Users \ {User(r)} : live'[v] = live[v]
      /\ \A n \in Strays : live'[n] = live[n]
      /\ live' = live \/ live'[User(r)] = NULL
  BY <1>1, UserTree DEF RunInv
<1>4. Faultless'
  <2>1. faults = 0 => \A v \in Users : Servable(live'[v])
    <3> SUFFICES ASSUME faults = 0, NEW v \in Users PROVE Servable(live'[v])
      OBVIOUS
    <3>1. CASE v # User(r) \/ ~Removing(r)
      <4>1. Servable(live[v])
        BY <3>1, OthersServable DEF OneRun
      <4> QED BY <1>3, <3>1, <4>1 DEF Servable
    <3>2. CASE v = User(r) /\ Removing(r)
      BY <1>1, <3>2, UserTree DEF RunInv, Servable
    <3> QED BY <3>1, <3>2
  <2> QED BY <2>1 DEF Faultless, Servable
<1>5. InHand(r)' = {User(r)} /\ InHand(r) = {User(r)}
  BY <1>2 DEF InHand
<1>6. StraysKnown(r)'
  BY <1>1, <1>2, <1>3 DEF StraysKnown, Between, history
<1>7. Undisturbed(r) =>
        /\ \A v \in Users \ (runs[r].users \cup InHand(r)') : live'[v] = Site(v)
        /\ runs[r].rows = Published(User(r))
  BY <1>1, <1>3, <1>5 DEF UsersDone
<1>8. ~runs[r].failed => \A v \in Users \ (runs[r].users \cup InHand(r)') : Servable(live'[v])
  BY <1>1, <1>3, <1>5 DEF UsersDone, Servable
<1> QED BY <1>4, <1>6, <1>7, <1>8, GoesOn

(* A file of the user in hand goes.                                        *)
LEMMA UnlinkRun ==
  ASSUME OneRun, RunInv, [Next]_vars, NEW r \in Runs, runs[r] # NULL,
         runs[r].at \in {"none", "remove", "undoLive"}, Unlink(r)
  PROVE  RunInv'
<1>1. PICK tree : live' = LiveWith(User(r), tree)
  BY DEF Unlink, OnDisk
<1>2. UNCHANGED <<db, staging, runs, clock, faults, history>>
  BY DEF Unlink, OnDisk
<1>3. User(r) \in Users /\ Staged(r) /\ UsersDone(r) /\ StraysKnown(r)
  BY JobFacts DEF Between
<1>4. User(r)' = User(r) /\ InHand(r) = {User(r)} /\ InHand(r)' = {User(r)}
  BY <1>2 DEF User, InHand, Between
<1>5. /\ \A v \in Users \ {User(r)} : live'[v] = live[v]
      /\ \A n \in Strays : live'[n] = live[n]
  BY <1>1, <1>3, UserTree DEF RunInv
<1>6. Staged(r)'
  BY <1>2, <1>3, <1>4 DEF Staged, Between
<1>7. StraysKnown(r)'
  BY <1>2, <1>3, <1>5 DEF StraysKnown, history
<1>8. UsersDone(r)'
  <2>1. Undisturbed(r)' = Undisturbed(r)
    BY <1>2 DEF Undisturbed, db, history
  <2> QED BY <1>2, <1>3, <1>4, <1>5, <2>1, Unflipped DEF UsersDone, Servable
<1>9. Faultless'
  <2>1. SUFFICES ASSUME faults = 0, NEW v \in Users
                 PROVE  Servable(live'[v]) \/ (Removing(r) /\ User(r) = v)
    BY <1>2, <1>4 DEF Faultless, Removing, Servable
  <2>2. Removing(r)
    BY <1>3, <2>1 DEF Staged, Removing
  <2>3. v # User(r) => Servable(live[v])
    BY <2>1, OthersServable DEF OneRun
  <2> QED BY <1>5, <2>2, <2>3 DEF Servable
<1> QED BY <1>2, <1>6, <1>7, <1>8, <1>9, StillThere

(* The user in hand has its site, and the next one's turn comes.           *)
LEMMA HasSite ==
  ASSUME OneRun, RunInv, [Next]_vars, NEW r \in Runs, runs[r] # NULL,
         runs[r].at \in {"none", "rename"}, Goto(r, "next"), UNCHANGED <<db, clock, faults, history>>,
         live' = LiveWith(User(r), IF runs[r].rows = {} THEN NULL ELSE Whole(runs[r].rows))
  PROVE  RunInv'
<1>1. User(r) \in Users /\ UsersDone(r) /\ StraysKnown(r) /\ runs[r].rows \in SUBSET Entries
  BY JobFacts DEF Between
<1>2. "next" \in Steps
  BY DEF Steps
<1>3. runs'[r].at = "next" /\ runs'[r].strays = runs[r].strays /\ runs'[r].failed = runs[r].failed
  BY <1>2, Going DEF RunInv
<1> DEFINE t == IF runs[r].rows = {} THEN NULL ELSE Whole(runs[r].rows)
<1>4. /\ live'[User(r)] = t
      /\ \A v \in Users \ {User(r)} : live'[v] = live[v]
      /\ \A n \in Strays : live'[n] = live[n]
  BY <1>1, UserTree DEF RunInv
<1>5. Servable(t)
  BY <1>1 DEF Servable, IsSite
<1> HIDE DEF t
<1>6. InHand(r)' = {} /\ InHand(r) = {User(r)}
  BY <1>3 DEF InHand, Between
<1>7. Staged(r)' /\ StraysKnown(r)'
  BY <1>1, <1>3, <1>4 DEF Staged, StraysKnown, Between, history
<1>8. Faultless'
  <2>1. faults = 0 => \A v \in Users \ {User(r)} : Servable(live[v])
    BY OthersServable DEF OneRun
  <2> QED BY <1>4, <1>5, <2>1 DEF Faultless, Servable
<1>9. ASSUME Undisturbed(r), NEW v \in Users \ runs[r].users PROVE live'[v] = Site(v)
  <2>1. CASE v = User(r)
    <3>1. runs[r].rows = Published(User(r))
      BY <1>1, <1>9 DEF UsersDone, Between
    <3> QED BY <1>4, <2>1, <3>1 DEF Site, t
  <2>2. CASE v # User(r)
    BY <1>1, <1>4, <1>6, <1>9, <2>2 DEF UsersDone
  <2> QED BY <2>1, <2>2
<1>10. ASSUME ~runs[r].failed, NEW v \in Users \ runs[r].users PROVE Servable(live'[v])
  <2>1. v # User(r) => Servable(live[v])
    BY <1>1, <1>6, <1>10 DEF UsersDone
  <2> QED BY <1>4, <1>5, <2>1 DEF Servable
<1> QED BY <1>2, <1>6, <1>7, <1>8, <1>9, <1>10, GoesOn DEF Between

(* The catch has taken the site down, and the job is no clean pass.        *)
LEMMA UndoLiveRun ==
  ASSUME OneRun, RunInv, [Next]_vars, NEW r \in Runs, UndoLive(r) PROVE RunInv'
<1>1. runs[r] # NULL /\ runs[r].at = "undoLive" /\ (Unlink(r) \/ (Rmdir(r) /\ TurnFails(r)))
  BY DEF UndoLive, At
<1>2. CASE Unlink(r)
  BY <1>1, <1>2, UnlinkRun
<1>3. CASE Rmdir(r) /\ TurnFails(r)
  <2>1. runs[r] \in Job /\ faults > 0 /\ UNCHANGED <<db, clock, faults>>
    BY <1>1, <1>3, JobFacts DEF Staged, Rmdir, OnDisk
  <2>2. runs'[r] = [runs[r] EXCEPT !.at = "next", !.failed = TRUE]
    BY <1>3 DEF TurnFails, RunInv, TypeOK
  <2>3. /\ runs'[r] \in Job /\ runs'[r].at = "next" /\ runs'[r].failed
        /\ runs'[r].started = runs[r].started
    BY <2>1, <2>2 DEF Job, Steps
  <2>4. Staged(r)' /\ UsersDone(r)' /\ StraysKnown(r)'
    BY <2>3 DEF Staged, UsersDone, StraysKnown, Undisturbed, Between
  <2>5. Faultless'
    BY <2>1 DEF Faultless
  <2> QED BY <1>1, <2>1, <2>3, <2>4, <2>5, Constants, StillThere
<1> QED BY <1>1, <1>2, <1>3

LEMMA RunStepRun ==
  ASSUME OneRun, RunInv, [Next]_vars, NEW r \in Runs, RunStep(r) PROVE RunInv'
<1> DEFINE u == User(r)
           rows == runs[r].rows
           Steady(l, s) == live' = l /\ staging' = s /\ UNCHANGED <<db, clock, faults, history>>
<1>1. runs[r] # NULL
  BY DEF RunStep, At, SweepDisk, ReadRows, ClearStaging, NothingPublished, MakeStaging, WritePage,
         WriteIndex, RemoveLive, RenameStaging, UndoStaging, UndoLive, RemoveStray, MarkSuccess,
         Swept, Done
<1>2. Staged(r) /\ rows \in SUBSET Entries
  BY <1>1, JobFacts
<1>3. staging \in [Users -> Tree \cup {NULL}] /\ TypeOK /\ live \in [Names -> Tree \cup {NULL}]
  BY DEF RunInv, TypeOK
<1>4. \A step \in {"next", "clear", "none", "mkdir", "pages", "index", "remove", "rename",
                   "undoLive"} : step \in Steps
  BY DEF Steps
<1>5. ASSUME NEW step \in Steps, Goto(r, step)
      PROVE  runs'[r].at = step /\ User(r)' = u /\ runs'[r].rows = rows
  BY <1>1, <1>3, <1>5, Going
<1>6. CASE ClearStaging(r)
  <2> DEFINE step == IF rows = {} THEN "none" ELSE "mkdir"
  <2>1. runs[r].at = "clear" /\ Goto(r, step) /\ Steady(live, StagingWith(u, NULL))
    BY <1>6 DEF ClearStaging, At, OnDisk
  <2>2. step \in Steps \ Between
    BY DEF Steps, Between
  <2>3. u \in Users /\ staging'[u] = NULL
    BY <1>2, <1>3, <2>1 DEF Staged, Between, StagingWith
  <2>4. Staged(r)'
    BY <1>5, <2>1, <2>2, <2>3 DEF Staged, Between
  <2> QED BY <1>1, <2>1, <2>2, <2>4, StaysInHand DEF Between, Removing
<1>7. CASE MakeStaging(r)
  <2>1. runs[r].at = "mkdir" /\ u \in Users /\ staging[u] = NULL /\ rows # {}
    BY <1>2, <1>7 DEF MakeStaging, At, Staged, Between
  <2>2. Goto(r, "pages") /\ Steady(live, StagingWith(u, Bare))
    BY <1>7, <2>1 DEF MakeStaging, OnDisk
  <2>3. staging'[u] = [pages |-> {}, index |-> NULL]
    BY <1>3, <2>1, <2>2 DEF StagingWith, Bare
  <2>4. "pages" \in Steps \ Between
    BY DEF Steps, Between
  <2>5. Staged(r)'
    BY <1>5, <2>1, <2>2, <2>3, <2>4 DEF Staged, Between
  <2> QED BY <1>1, <2>1, <2>2, <2>4, <2>5, StaysInHand DEF Between, Removing
<1>8. CASE WritePage(r)
  <2>1. runs[r].at = "pages" /\ u \in Users /\ rows # {}
    BY <1>2, <1>8 DEF WritePage, At, Staged, Between
  <2>2. PICK done \in SUBSET rows : staging[u] = [pages |-> done, index |-> NULL]
    BY <1>2, <2>1 DEF Staged
  <2>3. staging[u] # NULL
    <3>1. [pages |-> done, index |-> NULL] \in Tree
      BY <1>2 DEF Tree
    <3> QED BY <2>2, <3>1, Constants
  <2>4. PICK e \in rows :
          /\ Goto(r, IF rows \subseteq staging[u].pages \cup {e} THEN "index" ELSE "pages")
          /\ Steady(live, [staging EXCEPT ![u].pages = @ \cup {e}])
    BY <1>8, <2>3 DEF WritePage, OnDisk
  <2> DEFINE now == done \cup {e}
             step == IF rows \subseteq now THEN "index" ELSE "pages"
  <2>5. Goto(r, step)
    BY <2>2, <2>4
  <2>6. staging'[u] = [pages |-> now, index |-> NULL]
    BY <1>3, <2>1, <2>2, <2>4
  <2>7. step \in Steps \ Between
    BY DEF Steps, Between
  <2>8. now \in SUBSET rows /\ (rows \subseteq now => now = rows)
    BY <2>4
  <2>9. Staged(r)'
    <3>1. CASE rows \subseteq now
      <4>1. Goto(r, "index") /\ "index" \in Steps
        BY <1>4, <2>5, <3>1
      <4> QED BY <1>5, <2>1, <2>6, <2>8, <3>1, <4>1 DEF Staged, Between
    <3>2. CASE ~(rows \subseteq now)
      <4>1. Goto(r, "pages") /\ "pages" \in Steps /\ now # rows
        BY <1>4, <2>5, <3>2
      <4> HIDE DEF now
      <4> QED BY <1>5, <2>1, <2>6, <2>8, <4>1 DEF Staged, Between
    <3> QED BY <3>1, <3>2
  <2> QED BY <1>1, <2>1, <2>4, <2>5, <2>7, <2>9, StaysInHand DEF Between, Removing
<1>9. CASE WriteIndex(r)
  <2>1. /\ runs[r].at = "index" /\ u \in Users /\ rows # {}
        /\ staging[u] = [pages |-> rows, index |-> NULL]
    BY <1>2, <1>9 DEF WriteIndex, At, Staged, Between
  <2>2. staging[u] # NULL
    <3>1. [pages |-> rows, index |-> NULL] \in Tree
      BY <1>2 DEF Tree
    <3> QED BY <2>1, <3>1, Constants
  <2>3. Goto(r, "remove") /\ Steady(live, [staging EXCEPT ![u].index = rows])
    BY <1>9, <2>2 DEF WriteIndex, OnDisk
  <2>4. staging'[u] = Whole(rows)
    BY <1>3, <2>1, <2>3 DEF Whole
  <2>5. "remove" \in Steps \ Between
    BY DEF Steps, Between
  <2>6. Staged(r)'
    BY <1>5, <2>1, <2>3, <2>4, <2>5 DEF Staged, Between, Whole
  <2> QED BY <1>1, <2>1, <2>3, <2>5, <2>6, StaysInHand DEF Between, Removing
<1>10. CASE RemoveLive(r)
  <2>1. runs[r].at = "remove" /\ u \in Users /\ rows # {} /\ staging[u] = Whole(rows)
    BY <1>2, <1>10 DEF RemoveLive, At, Staged, Between
  <2>2. CASE Unlink(r)
    BY <1>1, <2>1, <2>2, UnlinkRun
  <2>3. CASE Rmdir(r) /\ Goto(r, "rename")
    <3>1. Goto(r, "rename") /\ Steady(LiveWith(u, NULL), staging)
      BY <2>3 DEF Rmdir, OnDisk
    <3>2. live'[u] = NULL
      BY <1>3, <2>1, <3>1 DEF LiveWith, Names
    <3>3. "rename" \in Steps \ Between
      BY DEF Steps, Between
    <3>4. Staged(r)'
      BY <1>5, <2>1, <3>1, <3>2, <3>3 DEF Staged, Between, Whole
    <3> QED BY <1>1, <2>1, <3>1, <3>3, <3>4, StaysInHand DEF Between
  <2> QED BY <1>10, <2>2, <2>3 DEF RemoveLive
<1>11. CASE NothingPublished(r)
  <2>1. runs[r].at = "none" /\ rows = {}
    BY <1>2, <1>11 DEF NothingPublished, At, Staged
  <2>2. CASE Unlink(r)
    BY <1>1, <2>1, <2>2, UnlinkRun
  <2>3. CASE Rmdir(r) /\ Goto(r, "next")
    <3>1. Goto(r, "next") /\ Steady(LiveWith(u, NULL), staging)
      BY <2>3 DEF Rmdir, OnDisk
    <3> QED BY <1>1, <2>1, <3>1, HasSite
  <2> QED BY <1>11, <2>2, <2>3 DEF NothingPublished
<1>12. CASE RenameStaging(r)
  <2>1. /\ runs[r].at = "rename" /\ rows # {} /\ staging[u] = Whole(rows) /\ live[u] = NULL
    BY <1>2, <1>12 DEF RenameStaging, At, Staged
  <2>2. staging[u] # NULL
    BY <1>2, <2>1, WholeTree, Constants
  <2>3. Goto(r, "next") /\ Steady(LiveWith(u, Whole(rows)), StagingWith(u, NULL))
    BY <1>12, <2>1, <2>2 DEF RenameStaging, OnDisk
  <2> QED BY <1>1, <2>1, <2>3, HasSite
<1>13. CASE UndoStaging(r)
  <2>1. /\ runs[r].at = "undo" /\ Goto(r, "undoLive") /\ UNCHANGED <<db, live, clock, faults, history>>
    BY <1>13 DEF UndoStaging, At, OnDisk
  <2>2. faults' > 0
    BY <1>2, <2>1 DEF Staged
  <2> QED BY <1>1, <2>1, <2>2, GivesUp DEF Between
<1>14. CASE SweepDisk(r)
  BY <1>14, SweptRun DEF SweepDisk
<1> QED BY <1>6, <1>7, <1>8, <1>9, <1>10, <1>11, <1>12, <1>13, <1>14, ReadRowsRun,
           MarkSuccessRun, StrayRun, UndoLiveRun DEF RunStep

LEMMA DiskFailsRun ==
  ASSUME OneRun, RunInv, [Next]_vars, NEW r \in Runs, DiskFails(r) PROVE RunInv'
<1>1. runs[r] # NULL /\ runs[r].at \notin Between /\ UNCHANGED <<db, live, clock, history>>
  BY DEF DiskFails, Between, disk
<1>2. faults' > 0
  BY Numbers DEF DiskFails, Fault
<1>3. \/ Goto(r, "undo")
      \/ TurnFails(r)
  BY DEF DiskFails
<1> QED BY <1>1, <1>2, <1>3, GivesUp

LEMMA SweepFailsRun ==
  ASSUME OneRun, RunInv, [Next]_vars, NEW r \in Runs, SweepFails(r) PROVE RunInv'
<1>1. PICK found \in SUBSET TreesOfNobody : Swept(r, found)
  BY DEF SweepFails
<1>2. faults' = faults + 1
  BY DEF SweepFails, Fault
<1> QED BY <1>1, <1>2, SweptRun

LEMMA StepRun ==
  ASSUME OneRun PROVE RunInv /\ [Next]_vars => RunInv'
<1> SUFFICES ASSUME RunInv, [Next]_vars PROVE RunInv'
  OBVIOUS
<1>1. TypeOK'
  BY StepType DEF RunInv
<1>2. CASE Tick \/ UNCHANGED vars
  <2>1. UNCHANGED <<db, disk, runs, faults, history>> /\ clock' \in {clock, clock + 1}
    BY <1>2 DEF Tick, vars
  <2>2. Clocks' /\ Clean'
    BY <2>1, Numbers, Unflipped DEF RunInv, Clocks, Clean, AtRest, Servable, db, disk, history
  <2>3. Faultless'
    <3>1. \A r \in Runs : Removing(r)' = Removing(r) /\ User(r)' = User(r)
      BY <2>1 DEF Removing, User
    <3> QED BY <2>1, <3>1 DEF RunInv, Faultless, Servable, disk
  <2>4. ASSUME NEW r \in Runs PROVE JobInv(r)'
    <3> SUFFICES ASSUME runs[r] # NULL
                 PROVE  Staged(r)' /\ UsersDone(r)' /\ StraysKnown(r)' /\ Dirty(r)'
      BY <2>1 DEF JobInv
    <3>1. Staged(r)' /\ StraysKnown(r)'
      <4>1. Staged(r)' = Staged(r) /\ StraysKnown(r)' = StraysKnown(r)
        BY <2>1 DEF Staged, StraysKnown, User, disk, history
      <4> QED BY <4>1, JobFacts
    <3>2. UsersDone(r)'
      <4>1. Undisturbed(r)' = Undisturbed(r) /\ InHand(r)' = InHand(r) /\ User(r)' = User(r)
        BY <2>1 DEF Undisturbed, InHand, User, db, history
      <4>2. UsersDone(r) /\ (runs[r].at \notin Between => User(r) \in Users)
        BY JobFacts
      <4> QED BY <2>1, <4>1, <4>2, Unflipped DEF UsersDone, Servable, disk
    <3>3. Dirty(r)'
      BY <2>1, JobFacts, Numbers DEF Dirty, db
    <3> QED BY <3>1, <3>2, <3>3
  <2> QED BY <1>1, <2>2, <2>3, <2>4 DEF RunInv
<1>3. CASE Crash
  <2>1. /\ UNCHANGED <<db, clock>> /\ \A r \in Runs : runs'[r] = NULL
        /\ faults' > 0 /\ \E r \in Runs : runs[r] # NULL
    BY <1>3, Numbers DEF Crash, Fault
  <2>2. changeAt > lastSuccessAt
    BY <2>1 DEF RunInv, JobInv, Dirty
  <2>3. Clean' /\ Clocks' /\ Faultless'
    BY <2>1, <2>2, Numbers DEF RunInv, Clean, Clocks, Faultless, db
  <2> QED BY <1>1, <2>1, <2>3 DEF RunInv, JobInv
<1>4. ASSUME NEW e \in Entries, NEW next \in BOOLEAN, SetEntryPublished(e, next) PROVE RunInv'
  BY <1>4, FlipRun
<1>5. ASSUME NEW r \in Runs,
             StartRun(r) \/ RunStep(r) \/ DiskFails(r) \/ SweepFails(r) \/ StrayStays(r)
      PROVE  RunInv'
  BY <1>5, StartRunRun, RunStepRun, DiskFailsRun, SweepFailsRun, StrayRun
<1> QED BY <1>2, <1>3, <1>4, <1>5 DEF Next
-----------------------------------------------------------------------------
(* With one run at a time half a site is served only while a job takes it  *)
(* down, or once something has failed or crashed, and then a job is due.   *)
THEOREM SitesWhole == ASSUME OneRun PROVE Spec => []SitesAreWhole
<1>1. RunInv => SitesAreWhole
  <2> SUFFICES ASSUME RunInv, NEW u \in Users, live[u] # NULL, ~IsSite(live[u])
               PROVE  /\ PublishIsDirty
                      /\ faults > 0 \/ \E r \in Runs : (At(r, "none") \/ At(r, "remove")) /\ User(r) = u
    BY DEF SitesAreWhole
  <2>1. ~Servable(live[u])
    BY DEF Servable
  <2>2. PublishIsDirty
    <3>1. CASE AtRest
      BY <2>1, <3>1, Numbers DEF RunInv, Clean, PublishIsDirty
    <3>2. CASE ~AtRest
      BY <3>2 DEF RunInv, JobInv, Dirty, AtRest, PublishIsDirty
    <3> QED BY <3>1, <3>2
  <2>3. CASE faults = 0
    BY <2>1, <2>2, <2>3 DEF RunInv, Faultless, Removing, At
  <2>4. CASE faults # 0
    BY <2>2, <2>4, Numbers
  <2> QED BY <2>3, <2>4
<1> QED BY <1>1, InitRun, StepRun, PTL DEF Spec

(* What a step may do to the site of a user.                               *)
Appears(u) ==
  \/ live'[u] = NULL \/ IsSite(live'[u])
  \/ live[u] # NULL /\ live'[u] \in Unlinked(live[u]) \cup {live[u]}

LEMMA StepAppears ==
  ASSUME OneRun, RunInv, [Next]_vars, NEW u \in Users PROVE Appears(u)
<1>1. live[u] = live'[u] => Appears(u)
  BY DEF Appears
<1>2. ASSUME NEW r \in Runs, NEW t, runs[r] # NULL, runs[r].at \notin Between,
             live' = LiveWith(User(r), t)
      PROVE  live'[u] = live[u] \/ (u = User(r) /\ live'[u] = t)
  BY <1>2, JobFacts, UserTree DEF RunInv
<1>3. ASSUME NEW r \in Runs, runs[r] # NULL, runs[r].at \notin Between, Unlink(r) \/ Rmdir(r)
      PROVE  Appears(u)
  <2>1. CASE Unlink(r)
    BY <1>1, <1>2, <1>3, <2>1 DEF Unlink, OnDisk, Appears
  <2>2. CASE Rmdir(r)
    BY <1>1, <1>2, <1>3, <2>2 DEF Rmdir, OnDisk, Appears
  <2> QED BY <1>3, <2>1, <2>2
<1>4. ASSUME NEW r \in Runs, NothingPublished(r) \/ RemoveLive(r) \/ UndoLive(r) PROVE Appears(u)
  BY <1>3, <1>4 DEF NothingPublished, RemoveLive, UndoLive, At, Between
<1>5. ASSUME NEW r \in Runs, RenameStaging(r) PROVE Appears(u)
  <2>1. /\ runs[r] # NULL /\ runs[r].at = "rename"
        /\ live' \in {live, LiveWith(User(r), staging[User(r)])}
    BY <1>5 DEF RenameStaging, At, Broken, OnDisk
  <2>2. runs[r].rows \in SUBSET Entries /\ runs[r].rows # {} /\ staging[User(r)] = Whole(runs[r].rows)
    BY <2>1, JobFacts DEF Staged
  <2>3. IsSite(staging[User(r)])
    BY <2>2 DEF IsSite
  <2> QED BY <1>1, <1>2, <2>1, <2>3 DEF Appears, Between
<1>6. ASSUME NEW r \in Runs, RemoveStray(r) PROVE Appears(u)
  <2>1. PICK n \in runs[r].strays : live' = LiveWith(n, NULL)
    BY <1>6 DEF RemoveStray, OnDisk
  <2>2. n \in Strays
    BY <1>6, <2>1, JobFacts DEF RemoveStray, At
  <2>3. live'[u] = live[u]
    BY <2>1, <2>2, OneTree, Constants DEF RunInv, Names
  <2> QED BY <1>1, <2>3
<1>7. ASSUME NEW r \in Runs,
             \/ StartRun(r) \/ DiskFails(r) \/ SweepFails(r) \/ StrayStays(r)
             \/ SweepDisk(r) \/ ReadRows(r) \/ ClearStaging(r) \/ MakeStaging(r) \/ WritePage(r)
             \/ WriteIndex(r) \/ UndoStaging(r) \/ MarkSuccess(r)
      PROVE  Appears(u)
  BY <1>1, <1>7 DEF StartRun, DiskFails, SweepFails, StrayStays, SweepDisk, Swept, ReadRows,
     ClearStaging, MakeStaging, WritePage, WriteIndex, Broken, UndoStaging, MarkSuccess, OnDisk, disk
<1>8. CASE Tick \/ Crash \/ UNCHANGED vars
  BY <1>1, <1>8 DEF Tick, Crash, vars, disk
<1>9. ASSUME NEW e \in Entries, NEW next \in BOOLEAN, SetEntryPublished(e, next) PROVE Appears(u)
  BY <1>1, <1>9 DEF SetEntryPublished, disk
<1> QED BY <1>4, <1>5, <1>6, <1>7, <1>8, <1>9 DEF Next, RunStep

(* With one run at a time a site comes up in one piece, as one run built   *)
(* it, whatever flips, fails or crashes meanwhile.                         *)
THEOREM SitesComeWhole == ASSUME OneRun PROVE Spec => SitesAppearWhole
<1>1. RunInv /\ [Next]_vars =>
        [\A u \in Users :
           \/ live'[u] = NULL \/ IsSite(live'[u])
           \/ live[u] # NULL /\ live'[u] \in Unlinked(live[u]) \cup {live[u]}]_vars
  BY StepAppears DEF Appears
<1> QED BY <1>1, InitRun, StepRun, PTL DEF Spec, SitesAppearWhole

(* With one run at a time a watermark that has caught up means that every  *)
(* site is what is published, and that nobody else has one but who a       *)
(* failing sweep missed.                                                   *)
THEOREM CleanIsPublished == ASSUME OneRun PROVE Spec => []CleanMeansPublished
<1>1. RunInv => CleanMeansPublished
  <2> SUFFICES ASSUME RunInv PROVE CleanMeansPublished
    OBVIOUS
  <2>1. ~PublishIsDirty => changeAt <= lastSuccessAt
    BY Numbers DEF PublishIsDirty
  <2> QED BY <2>1 DEF RunInv, Clean, AtRest, CleanMeansPublished, Settled
<1> QED BY <1>1, InitRun, StepRun, PTL DEF Spec
=============================================================================
