---------------------------- MODULE Writer_proofs ----------------------------
(***************************************************************************)
(* Proofs about Entries, and about Writer, which extends it. Of the        *)
(* server: its type invariant, that accepted scratch is never dropped, and *)
(* that the journal it keeps is that of Journal. Of the client in front of *)
(* it: what a finished entry and the local store may rely on, through      *)
(* lost, late and repeated requests, and that the server this client       *)
(* drives is still the one of Entries.                                     *)
(***************************************************************************)
EXTENDS Writer, SequenceTheorems, FiniteSetTheorems, WellFoundedInduction, TLAPS

(* A sequence without its i-th element.                                    *)
LEMMA RemoveAtProperties ==
  ASSUME NEW S, NEW s \in Seq(S), NEW i \in 1 .. Len(s)
  PROVE  /\ RemoveAt(s, i) \in Seq(S)
         /\ DOMAIN RemoveAt(s, i) = 1 .. Len(s) - 1
         /\ \A k \in 1 .. Len(s) - 1 :
              RemoveAt(s, i)[k] = IF k < i THEN s[k] ELSE s[k + 1]
<1> DEFINE n == Len(s)
           a == SubSeq(s, 1, i - 1)
           b == SubSeq(s, i + 1, n)
           r == a \o b
<1>1. n \in Nat /\ i \in 1 .. n /\ \A k \in 1 .. n : s[k] \in S
  BY LenProperties, ElementOfSeq
<1>2. a \in Seq(S) /\ Len(a) = i - 1 /\ \A k \in 1 .. i - 1 : a[k] = s[k]
  BY <1>1, SubSeqProperties
<1>3. b \in Seq(S) /\ Len(b) = n - i /\ \A k \in 1 .. n - i : b[k] = s[i + k]
  <2>1. i + 1 \in Int /\ n \in Int /\ \A k \in i + 1 .. n : s[k] \in S
    BY <1>1
  <2>2. /\ b \in Seq(S) /\ Len(b) = IF i + 1 <= n THEN n - (i + 1) + 1 ELSE 0
        /\ \A k \in 1 .. n - (i + 1) + 1 : b[k] = s[i + 1 + k - 1]
    BY <2>1, SubSeqProperties
  <2>3. QED
    BY <1>1, <2>2
<1> HIDE DEF n, a, b
<1>4. /\ r \in Seq(S) /\ Len(r) = Len(a) + Len(b)
      /\ \A k \in 1 .. Len(a) + Len(b) : r[k] = IF k <= Len(a) THEN a[k] ELSE b[k - Len(a)]
  BY <1>2, <1>3, ConcatProperties
<1> HIDE DEF r
<1>5. Len(r) = n - 1 /\ DOMAIN r = 1 .. n - 1
  BY <1>1, <1>2, <1>3, <1>4, LenProperties
<1>6. ASSUME NEW k \in 1 .. n - 1
      PROVE  r[k] = IF k < i THEN s[k] ELSE s[k + 1]
  <2>0. k \in 1 .. Len(a) + Len(b)
    BY <1>1, <1>2, <1>3
  <2>1. CASE k < i
    BY <1>1, <1>2, <1>4, <2>0, <2>1
  <2>2. CASE k >= i
    <3>1. k - (i - 1) \in 1 .. n - i /\ r[k] = b[k - (i - 1)]
      BY <1>1, <1>2, <1>4, <2>0, <2>2
    <3>2. b[k - (i - 1)] = s[i + (k - (i - 1))] /\ i + (k - (i - 1)) = k + 1
      BY <1>1, <1>3, <3>1
    <3>3. QED
      BY <1>1, <2>2, <3>1, <3>2
  <2>3. QED
    BY <1>1, <2>1, <2>2
<1>7. QED
  BY <1>4, <1>5, <1>6 DEF RemoveAt, n, a, b, r
-----------------------------------------------------------------------------
(* The facts about the constants that every proof below needs.             *)
USE ConstantsOK, NamesDistinct, NullIsNoValue

LEMMA RequestMakesDraft ==
  ASSUME NEW s \in Slots, NEW p \in Requests(s), p.body \notin BadContents,
         NEW at \in Times, NEW due \in Times
  PROVE  [entry |-> p.entry, journal |-> p.journal, body |-> p.body, loc |-> p.loc,
          clientTime |-> p.clientTime, receivedAt |-> at, finalizeAt |-> due] \in Draft
BY DEF Requests, OwnIds, OwnJournals, Draft, Contents

(* A body that is not blank and a location that is not refused: what the   *)
(* journal admits.                                                         *)
Admitted(e) ==
  {r \in Row : ~IsBlank(r.body) /\ r.journal \in OwnJournals(SlotOf[e])}

LEMMA FinalizedRows ==
  ASSUME TypeOK, NEW S \in SUBSET Slots,
         \A s \in S : drafts[s] # NULL /\ ~Throws(drafts[s])
  PROVE  /\ DOMAIN Finalized(S) = Ids
         /\ \A e \in Ids : \/ Finalized(S)[e] = entries[e]
                           \/ entries[e] = NULL /\ Finalized(S)[e] \in Admitted(e)
<1>1. SUFFICES ASSUME NEW e \in Ids, Finalized(S)[e] # entries[e]
               PROVE  entries[e] = NULL /\ Finalized(S)[e] \in Admitted(e)
  BY DEF Finalized
<1> DEFINE s == SlotOf[e]
           d == drafts[s]
<1>2. s \in S /\ d.entry = e /\ Commits(d) /\ Finalized(S)[e] = RowOf(d)
  BY <1>1 DEF Finalized
<1>3. d \in Draft /\ d.journal \in OwnJournals(s) /\ d.loc \notin Refused
  BY <1>2 DEF TypeOK, Throws
<1>4. RowOf(d) \in Row
  BY <1>3 DEF Draft, Row, RowOf, Locations
<1>5. QED
  BY <1>2, <1>3, <1>4 DEF Admitted, RowOf, Commits
-----------------------------------------------------------------------------
(* What a run of finalizeDraftRow over some slots keeps.                   *)
Held(S) == \A s \in S : drafts[s] # NULL

LEMMA FinalizeTypeOK ==
  ASSUME TypeOK, NEW done \in SUBSET Slots, NEW torn \in SUBSET Slots,
         Held(done \cup torn), Finalize(done, torn)
  PROVE  TypeOK'
<1>1. drafts' \in [Slots -> Draft \cup {NULL}]
      /\ \A s \in Slots : drafts'[s] # NULL => drafts'[s] = drafts[s]
  BY DEF Finalize, Emptied, TypeOK
<1>2. entries' \in [Ids -> Row \cup {NULL}]
  <2>1. entries' = Finalized(done) /\ \A s \in done : drafts[s] # NULL /\ ~Throws(drafts[s])
    BY DEF Finalize, Held
  <2>2. /\ DOMAIN entries' = Ids
        /\ \A e \in Ids : entries'[e] \in Row \cup {NULL}
    BY <2>1, FinalizedRows DEF TypeOK, Admitted
  <2>3. QED
    BY <2>1, <2>2 DEF Finalized
<1>3. lost' \subseteq Ids
  <2>1. \A s \in torn : drafts[s].entry \in Ids
    BY DEF Held, TypeOK, Draft
  <2>2. QED
    BY <2>1 DEF Finalize, TypeOK
<1>4. QED
  BY <1>1, <1>2, <1>3 DEF Finalize, TypeOK, OwnIds, OwnJournals

LEMMA FinalizeKeeps ==
  ASSUME TypeOK, OwedIsKept, NEW done \in SUBSET Slots, NEW torn \in SUBSET Slots,
         Held(done \cup torn), Finalize(done, torn)
  PROVE  OwedIsKept'
<1> SUFFICES ASSUME NEW e \in owed', ~InSlot(e)', e \notin lost'
             PROVE  entries'[e] # NULL
  BY DEF OwedIsKept
<1> DEFINE s == SlotOf[e]
<1>1. e \in Ids /\ e \in owed /\ s \in Slots /\ e \notin lost
  BY DEF Finalize, TypeOK
<1>2. CASE entries[e] # NULL
  BY <1>1, <1>2 DEF Finalize, Finalized, Commits
<1>3. CASE entries[e] = NULL
  <2>1. InSlot(e)
    BY <1>1, <1>3 DEF OwedIsKept
  <2>2. drafts[s] # NULL /\ drafts[s].entry = e /\ Commits(drafts[s])
    BY <2>1, <1>3 DEF InSlot, Commits
  <2>3. s \in done \cup torn
    BY <1>1, <2>1 DEF InSlot, Finalize, Emptied
  <2>4. s \notin torn
    BY <2>2, <1>1 DEF Finalize
  <2>5. entries'[e] = RowOf(drafts[s])
    BY <1>1, <2>2, <2>3, <2>4 DEF Finalize, Finalized
  <2>6. drafts[s].loc \notin Refused /\ drafts[s] \in Draft
    BY <1>1, <2>2, <2>3, <2>4 DEF Finalize, Throws, TypeOK
  <2>7. RowOf(drafts[s]) \in Row
    BY <2>6 DEF Draft, Row, RowOf, Locations
  <2>8. QED
    BY <2>5, <2>7
<1>4. QED
  BY <1>2, <1>3
-----------------------------------------------------------------------------
(* Every way of finalizing is a Finalize over slots that hold a draft.     *)
FinalizeStep ==
  \E done, torn \in SUBSET Slots : Held(done \cup torn) /\ Finalize(done, torn)

LEMMA SweepFinalizes ==
  ASSUME NEW due \in SUBSET Slots, Held(due), Sweep(due)
  PROVE  FinalizeStep
<1>1. CASE Finalize(due, {})
  BY <1>1 DEF FinalizeStep, Held
<1>2. CASE \E s \in due, done \in SUBSET due : Finalize(done, {s})
  <2>1. PICK s \in due, done \in SUBSET due : Finalize(done, {s})
    BY <1>2
  <2>2. {s} \in SUBSET Slots /\ done \in SUBSET Slots /\ Held(done \cup {s})
    BY <2>1 DEF Held
  <2>3. QED
    BY <2>1, <2>2 DEF FinalizeStep
<1>3. QED
  BY <1>1, <1>2 DEF Sweep

LEMMA SweepsAndCrashesFinalize ==
  ASSUME SweepDueDrafts \/ CrashFinalizing \/ \E u \in Users : SweepOrphanedDrafts(u)
  PROVE  FinalizeStep
<1>0. DueDrafts(clock) \in SUBSET Slots /\ Held(DueDrafts(clock))
  BY DEF DueDrafts, Held
<1>1. CASE SweepDueDrafts
  BY <1>0, <1>1, SweepFinalizes DEF SweepDueDrafts
<1>2. ASSUME NEW u \in Users, SweepOrphanedDrafts(u)
      PROVE  FinalizeStep
  <2> DEFINE due == {s \in Slots : Owner[s] = u /\ DraftIsDue(drafts[s], clock)}
  <2>1. due \in SUBSET Slots /\ Held(due)
    BY DEF DraftIsDue, Held
  <2>2. Sweep(due)
    BY <1>2 DEF SweepOrphanedDrafts
  <2>3. QED
    BY <2>1, <2>2, SweepFinalizes
<1>3. CASE CrashFinalizing
  <2>1. PICK S \in {DueDrafts(clock)} \cup
               {{s} : s \in {t \in Slots : drafts[t] # NULL /\ OwnIds(t) # {drafts[t].entry}}} :
          \E done \in SUBSET S, torn \in {{}} \cup {{s} : s \in S} :
            done \cap torn = {} /\ Finalize(done, torn)
    BY <1>3 DEF CrashFinalizing
  <2>2. S \in SUBSET Slots /\ Held(S)
    BY <1>0, <2>1 DEF Held
  <2>3. PICK done \in SUBSET S, torn \in SUBSET S : Finalize(done, torn)
    BY <2>1
  <2>4. done \in SUBSET Slots /\ torn \in SUBSET Slots /\ Held(done \cup torn)
    BY <2>2, <2>3 DEF Held
  <2>5. QED
    BY <2>3, <2>4 DEF FinalizeStep
<1>4. QED
  BY <1>1, <1>2, <1>3
-----------------------------------------------------------------------------
LEMMA DisplacedSlots ==
  ASSUME NEW s \in Slots, NEW p
  PROVE  Displaced(s, p) \in SUBSET Slots /\ Held(Displaced(s, p))
BY DEF Displaced, Held

(* A scratch update that is stored: what it leaves in each slot.           *)
LEMMA PutStores ==
  ASSUME TypeOK, OwedIsKept, NEW s \in Slots, NEW p \in Requests(s),
         p.body \notin BadContents, NEW finalizeIn \in Delays, clock + finalizeIn <= MaxTime,
         \A t \in Displaced(s, p) : ~Throws(drafts[t]),
         entries' = Finalized(Displaced(s, p)),
         drafts' = [drafts EXCEPT ![s] =
             [entry |-> p.entry, journal |-> p.journal, body |-> p.body, loc |-> p.loc,
              clientTime |-> p.clientTime, receivedAt |-> clock,
              finalizeAt |-> clock + finalizeIn]],
         owed' = IF IsBlank(p.body) THEN owed \ {p.entry} ELSE owed \cup {p.entry},
         UNCHANGED <<clock, lost>>
  PROVE  TypeOK' /\ OwedIsKept'
<1> DEFINE d == [entry |-> p.entry, journal |-> p.journal, body |-> p.body, loc |-> p.loc,
                 clientTime |-> p.clientTime, receivedAt |-> clock,
                 finalizeAt |-> clock + finalizeIn]
<1>1. d \in Draft
  <2>1. clock \in Times /\ clock + finalizeIn \in Times
    BY DEF TypeOK, Times
  <2>2. QED
    BY <2>1, RequestMakesDraft
<1>2. p.entry \in OwnIds(s) /\ p.journal \in OwnJournals(s)
  BY DEF Requests
<1>3. /\ DOMAIN entries' = Ids
      /\ \A e \in Ids : \/ entries'[e] = entries[e]
                        \/ entries[e] = NULL /\ entries'[e] \in Admitted(e)
  BY DisplacedSlots, FinalizedRows DEF Held
<1>4. TypeOK'
  <2>1. drafts' \in [Slots -> Draft \cup {NULL}]
    BY <1>1 DEF TypeOK
  <2>2. \A t \in Slots : drafts'[t] # NULL =>
          drafts'[t].entry \in OwnIds(t) /\ drafts'[t].journal \in OwnJournals(t)
    BY <1>2 DEF TypeOK
  <2>3. entries' \in [Ids -> Row \cup {NULL}]
    <3>1. \A e \in Ids : entries'[e] \in Row \cup {NULL}
      BY <1>3 DEF TypeOK, Admitted
    <3>2. QED
      BY <3>1 DEF Finalized
  <2>4. owed' \subseteq Ids
    BY <1>2 DEF TypeOK, OwnIds
  <2>5. QED
    BY <2>1, <2>2, <2>3, <2>4 DEF TypeOK, OwnIds, OwnJournals
<1>5. OwedIsKept'
  <2> SUFFICES ASSUME NEW e \in owed', ~InSlot(e)', e \notin lost'
               PROVE  entries'[e] # NULL
    BY DEF OwedIsKept
  <2>1. e \in Ids /\ SlotOf[e] \in Slots
    BY <1>4 DEF TypeOK
  <2>2. e # p.entry
    <3>1. CASE IsBlank(p.body)
      BY <3>1
    <3>2. ASSUME ~IsBlank(p.body), e = p.entry
          PROVE  FALSE
      <4>1. SlotOf[e] = s
        BY <1>2, <3>2 DEF OwnIds
      <4>2. drafts'[SlotOf[e]] = d /\ d # NULL /\ d.entry = e
        BY <1>1, <3>2, <4>1 DEF TypeOK
      <4>3. QED
        BY <3>2, <4>2 DEF InSlot, IsBlank
    <3>3. QED
      BY <3>1, <3>2
  <2>3. e \in owed
    BY <2>2
  <2>4. CASE entries[e] # NULL
    BY <1>3, <2>1, <2>4
  <2>5. CASE entries[e] = NULL
    <3>1. InSlot(e)
      BY <2>3, <2>5 DEF OwedIsKept
    <3>2. SlotOf[e] = s
      BY <2>1, <3>1 DEF InSlot, TypeOK, IsBlank
    <3>3. SlotOf[e] \in Displaced(s, p) /\ drafts[s].entry = e /\ Commits(drafts[s])
      BY <2>2, <2>5, <3>1, <3>2 DEF InSlot, Displaced, Commits
    <3>4. entries'[e] = RowOf(drafts[s])
      BY <2>1, <3>2, <3>3 DEF Finalized
    <3>5. entries'[e] # entries[e]
      <4>1. drafts[s] \in Draft /\ drafts[s].loc \notin Refused
        BY <2>1, <3>2, <3>3 DEF Throws, TypeOK, Displaced
      <4>2. RowOf(drafts[s]) \in Row
        BY <4>1 DEF Draft, Row, RowOf, Locations
      <4>3. QED
        BY <2>5, <3>4, <4>2
    <3>6. QED
      BY <2>5, <3>5
  <2>6. QED
    BY <2>4, <2>5
<1>6. QED
  BY <1>4, <1>5

LEMMA PutKeeps ==
  ASSUME TypeOK, OwedIsKept, NEW s \in Slots, NEW p \in Requests(s),
         NEW finalizeIn \in Delays, PutCurrent(s, p, finalizeIn)
  PROVE  TypeOK' /\ OwedIsKept'
<1>1. CASE Finalize({}, Displaced(s, p))
  BY <1>1, DisplacedSlots, FinalizeTypeOK, FinalizeKeeps
<1>2. CASE ~Finalize({}, Displaced(s, p))
  BY <1>2, PutStores DEF PutCurrent
<1>3. QED
  BY <1>1, <1>2
-----------------------------------------------------------------------------
(* POST /entries, finished or not, and the smaller handlers.               *)
Insert(p) ==
  /\ entries[p.entry] = NULL /\ Committable(p)
  /\ entries' = [entries EXCEPT ![p.entry] = RowOf(p)]

LEMMA InsertRows ==
  ASSUME TypeOK, NEW s \in Slots, NEW p \in Requests(s), Insert(p)
  PROVE  /\ entries' \in [Ids -> Row \cup {NULL}]
         /\ \A e \in Ids : \/ entries'[e] = entries[e]
                           \/ entries[e] = NULL /\ entries'[e] \in Admitted(e)
         /\ p.entry \in Ids /\ entries'[p.entry] # NULL
<1>1. p.entry \in Ids /\ SlotOf[p.entry] = s
  BY DEF Requests, OwnIds
<1>2. RowOf(p) \in Admitted(p.entry)
  <2>1. RowOf(p) \in Row
    BY DEF Insert, Committable, Requests, OwnJournals, RowOf, Row, Locations, Contents
  <2>2. RowOf(p).body = p.body /\ RowOf(p).journal \in OwnJournals(s)
    BY DEF RowOf, Requests
  <2>3. QED
    BY <1>1, <2>1, <2>2 DEF Insert, Committable, Admitted
<1>3. QED
  BY <1>1, <1>2 DEF Insert, TypeOK, Admitted

LEMMA CommitKeeps ==
  ASSUME TypeOK, OwedIsKept, NEW s \in Slots, NEW p \in Requests(s),
         CommitEntry(s, p) \/ CrashCommitting(p)
  PROVE  TypeOK' /\ OwedIsKept'
<1>1. /\ entries' \in [Ids -> Row \cup {NULL}]
      /\ \A e \in Ids : entries[e] # NULL => entries'[e] # NULL
      /\ p.entry \in Ids /\ (entries'[p.entry] # NULL \/ UNCHANGED drafts)
  <2>1. CASE Insert(p)
    BY <2>1, InsertRows DEF Admitted
  <2>2. CASE entries[p.entry] # NULL /\ UNCHANGED entries
    BY <2>2 DEF TypeOK, Requests, OwnIds
  <2>3. QED
    BY <2>1, <2>2 DEF CommitEntry, CrashCommitting, Insert
<1>2. /\ drafts' \in [Slots -> Draft \cup {NULL}]
      /\ \A t \in Slots : \/ drafts'[t] = drafts[t]
                          \/ drafts'[t] = NULL /\ drafts[t] # NULL
                             /\ drafts[t].entry = p.entry /\ drafts' # drafts
  BY DEF CommitEntry, CrashCommitting, ClearSlotFor, TypeOK
<1>3. TypeOK'
  BY <1>1, <1>2 DEF CommitEntry, CrashCommitting, history, TypeOK, OwnIds, OwnJournals
<1>4. OwedIsKept'
  <2>1. \A e \in Ids : InSlot(e) => InSlot(e)' \/ entries'[e] # NULL
    BY <1>1, <1>2 DEF InSlot, IsBlank
  <2>2. QED
    BY <1>1, <2>1 DEF OwedIsKept, CommitEntry, CrashCommitting, history, TypeOK
<1>5. QED
  BY <1>3, <1>4

LEMMA SmallStepsKeep ==
  ASSUME TypeOK, OwedIsKept,
         \/ Tick
         \/ \E s \in Slots : DiscardDraft(s) \/ \E j \in OwnJournals(s) : ReassignDraft(s, j)
         \/ \E e \in Ids, tag \in Tags : ResolveEntryLocation(e, tag)
  PROVE  TypeOK' /\ OwedIsKept'
<1>1. CASE Tick
  BY <1>1 DEF Tick, history, TypeOK, OwedIsKept, InSlot, OwnIds, OwnJournals, Times
<1>2. ASSUME NEW s \in Slots, DiscardDraft(s)
      PROVE  TypeOK' /\ OwedIsKept'
  <2>1. TypeOK'
    BY <1>2 DEF DiscardDraft, TypeOK, OwnIds, OwnJournals
  <2>2. \A e \in owed' : InSlot(e) => InSlot(e)'
    BY <1>2 DEF DiscardDraft, TypeOK, InSlot, IsBlank
  <2>3. QED
    BY <1>2, <2>1, <2>2 DEF DiscardDraft, OwedIsKept
<1>3. ASSUME NEW s \in Slots, NEW j \in OwnJournals(s), ReassignDraft(s, j)
      PROVE  TypeOK' /\ OwedIsKept'
  <2>1. [drafts[s] EXCEPT !.journal = j] \in Draft
    BY <1>3 DEF ReassignDraft, TypeOK, OwnJournals, Draft
  <2>2. /\ drafts' \in [Slots -> Draft \cup {NULL}]
        /\ \A t \in Slots : drafts'[t] # NULL =>
             drafts'[t].entry \in OwnIds(t) /\ drafts'[t].journal \in OwnJournals(t)
    BY <1>3, <2>1 DEF ReassignDraft, TypeOK, Draft
  <2>3. TypeOK'
    BY <1>3, <2>2 DEF ReassignDraft, history, TypeOK, OwnIds, OwnJournals
  <2>4. \A e \in Ids : InSlot(e) => InSlot(e)'
    BY <1>3, <2>1 DEF ReassignDraft, TypeOK, InSlot, Draft, IsBlank
  <2>5. QED
    BY <1>3, <2>3, <2>4 DEF ReassignDraft, history, OwedIsKept, TypeOK
<1>4. ASSUME NEW e \in Ids, NEW tag \in Tags, ResolveEntryLocation(e, tag)
      PROVE  TypeOK' /\ OwedIsKept'
  <2>1. [entries[e] EXCEPT !.loc = tag] \in Row
    BY <1>4 DEF ResolveEntryLocation, TypeOK, Row
  <2>2. /\ entries' \in [Ids -> Row \cup {NULL}]
        /\ \A f \in Ids : entries[f] # NULL => entries'[f] # NULL
    BY <1>4, <2>1 DEF ResolveEntryLocation, TypeOK
  <2>3. TypeOK'
    BY <1>4, <2>2 DEF ResolveEntryLocation, history, TypeOK, OwnIds, OwnJournals
  <2>4. \A f \in Ids : InSlot(f) <=> InSlot(f)'
    BY <1>4 DEF ResolveEntryLocation, InSlot
  <2>5. QED
    BY <1>4, <2>2, <2>3, <2>4 DEF ResolveEntryLocation, history, OwedIsKept, TypeOK
<1>5. QED
  BY <1>1, <1>2, <1>3, <1>4
-----------------------------------------------------------------------------
(* The inductive invariant. OwedIsKept alone is not inductive: that a      *)
(* rollover finds the displaced draft's entry in its own slot is TypeOK's. *)
IInv == TypeOK /\ OwedIsKept

LEMMA InitIInv == Init => IInv
<1> SUFFICES ASSUME Init PROVE IInv
  OBVIOUS
<1>1. ASSUME NEW s \in Slots, drafts[s] # NULL
      PROVE  /\ drafts[s] \in Draft
             /\ drafts[s].entry \in OwnIds(s) /\ drafts[s].journal \in OwnJournals(s)
  <2>1. drafts[s] \in Legacy(s)
    BY <1>1 DEF Init
  <2>2. 0 \in Times /\ 0 \in Stamps
    BY DEF Times
  <2>3. QED
    BY <2>1, <2>2 DEF Legacy, Draft, OwnIds, OwnJournals, Locations
<1>2. drafts \in [Slots -> Draft \cup {NULL}]
  BY <1>1 DEF Init
<1>3. TypeOK
  BY <1>1, <1>2 DEF Init, TypeOK, Times
<1>4. OwedIsKept
  <2> SUFFICES ASSUME NEW e \in owed PROVE InSlot(e)
    BY DEF OwedIsKept
  <2>1. PICK s \in Slots : drafts[s] # NULL /\ drafts[s].entry = e /\ ~IsBlank(drafts[s].body)
    BY DEF Init
  <2>2. SlotOf[e] = s
    BY <1>1, <2>1 DEF OwnIds
  <2>3. QED
    BY <2>1, <2>2 DEF InSlot
<1>5. QED
  BY <1>3, <1>4 DEF IInv

LEMMA NextIInv == IInv /\ [Next]_vars => IInv'
<1> SUFFICES ASSUME TypeOK, OwedIsKept, [Next]_vars PROVE TypeOK' /\ OwedIsKept'
  BY DEF IInv
<1>1. CASE Tick
  BY <1>1, SmallStepsKeep
<1>2. ASSUME NEW s \in Slots, NEW p \in Requests(s),
             \/ \E finalizeIn \in Delays : PutCurrent(s, p, finalizeIn)
             \/ CommitEntry(s, p)
             \/ CrashCommitting(p)
      PROVE  TypeOK' /\ OwedIsKept'
  BY <1>2, PutKeeps, CommitKeeps
<1>3. CASE \E s \in Slots : DiscardDraft(s) \/ \E j \in OwnJournals(s) : ReassignDraft(s, j)
  BY <1>3, SmallStepsKeep
<1>4. CASE \E e \in Ids, tag \in Tags : ResolveEntryLocation(e, tag)
  BY <1>4, SmallStepsKeep
<1>5. CASE SweepDueDrafts \/ CrashFinalizing \/ \E u \in Users : SweepOrphanedDrafts(u)
  <2>1. FinalizeStep
    BY <1>5, SweepsAndCrashesFinalize
  <2>2. QED
    BY <2>1, FinalizeTypeOK, FinalizeKeeps DEF FinalizeStep
<1>6. CASE UNCHANGED vars
  BY <1>6 DEF vars, TypeOK, OwedIsKept, InSlot, OwnIds, OwnJournals
<1>7. QED
  BY <1>1, <1>2, <1>3, <1>4, <1>5, <1>6 DEF Next

(* Every reachable state is well-typed: each slot only ever holds drafts   *)
(* of its own device and of its user's journals, and no entry carries a    *)
(* location the server refuses, whatever was in the drafts.                *)
THEOREM TypeCorrect == Spec => []TypeOK
BY InitIInv, NextIInv, PTL DEF Spec, IInv

(* Accepted scratch stays in its slot until it is in the journal, through  *)
(* every rollover, sweep, late commit and retry; only a crash or a failed  *)
(* commit between the two statements of finalizeDraftRow loses it.         *)
THEOREM OwedKept == Spec => []OwedIsKept
BY InitIInv, NextIInv, PTL DEF Spec, IInv
-----------------------------------------------------------------------------
(* The refinement: every step of the server is one of the journal, or none.*)
LEMMA StepIsJournalStep == TypeOK /\ [Next]_vars => [J!Next]_entries
<1> SUFFICES ASSUME TypeOK, [Next]_vars, entries' # entries PROVE J!Next
  OBVIOUS
<1> DEFINE Grows == /\ DOMAIN entries' = Ids
                    /\ \A e \in Ids : \/ entries'[e] = entries[e]
                                      \/ entries[e] = NULL /\ entries'[e] \in Admitted(e)
<1>1. Grows => J!Next
  BY DEF J!Next, J!Add, Admitted
<1>2. ASSUME NEW s \in Slots, NEW p \in Requests(s), NEW finalizeIn \in Delays,
             PutCurrent(s, p, finalizeIn)
      PROVE  Grows
  <2>1. \A t \in {} : drafts[t] # NULL /\ ~Throws(drafts[t])
    OBVIOUS
  <2>2. \/ entries' = Finalized({})
        \/ entries' = Finalized(Displaced(s, p))
           /\ \A t \in Displaced(s, p) : drafts[t] # NULL /\ ~Throws(drafts[t])
    BY <1>2, DisplacedSlots DEF PutCurrent, Finalize, Held
  <2>3. QED
    BY <2>1, <2>2, DisplacedSlots, FinalizedRows
<1>3. ASSUME NEW s \in Slots, NEW p \in Requests(s), CommitEntry(s, p) \/ CrashCommitting(p)
      PROVE  Grows
  <2>1. Insert(p)
    BY <1>3 DEF CommitEntry, CrashCommitting, Insert
  <2>2. QED
    BY <2>1, InsertRows
<1>4. ASSUME NEW e \in Ids, NEW tag \in Tags, ResolveEntryLocation(e, tag)
      PROVE  J!Next
  BY <1>4 DEF ResolveEntryLocation, J!Next, J!Resolve
<1>5. CASE SweepDueDrafts \/ CrashFinalizing \/ \E u \in Users : SweepOrphanedDrafts(u)
  <2>1. FinalizeStep
    BY <1>5, SweepsAndCrashesFinalize
  <2>2. PICK done \in SUBSET Slots, torn \in SUBSET Slots :
          Held(done \cup torn) /\ Finalize(done, torn)
    BY <2>1 DEF FinalizeStep
  <2>3. entries' = Finalized(done) /\ \A s \in done : drafts[s] # NULL /\ ~Throws(drafts[s])
    BY <2>2 DEF Finalize, Held
  <2>4. QED
    BY <1>1, <2>3, FinalizedRows
<1>6. CASE Tick \/ \E s \in Slots : DiscardDraft(s) \/ \E j \in OwnJournals(s) : ReassignDraft(s, j)
  BY <1>6 DEF Tick, DiscardDraft, ReassignDraft
<1>7. QED
  BY <1>1, <1>2, <1>3, <1>4, <1>5, <1>6 DEF Next, vars

(* The server implements the journal: entries are only added, never        *)
(* changed but for the location of a tagged one, never removed, and each   *)
(* is non-blank and in a journal of its own user.                          *)
THEOREM JournalImplemented == Spec => IsJournal
<1>1. Init => J!Init
  BY DEF Init, J!Init
<1>2. QED
  BY <1>1, StepIsJournalStep, TypeCorrect, PTL DEF Spec, IsJournal, J!Spec
-----------------------------------------------------------------------------
USE ConstantsOK, NamesDistinct, NullIsNoValue

LEMMA WriterConstants ==
  /\ Device \in Slots /\ Owner[Device] \in Users
  /\ Journal \in Journals /\ Journal \in OwnJournals(Device)
  /\ Ids \subseteq Nat /\ OwnIds(Device) = Ids
  /\ FinishAfter \in Delays /\ FinishAfter \in Nat
  /\ 0 \in Stamps /\ \A n \in Times : n + FinishAfter <= MaxTime => n \in Stamps
BY WriterConstantsOK, FS_CardinalityType DEF OwnJournals

USE WriterConstants
-----------------------------------------------------------------------------
(* What the client sends has no location here, so no commit of it throws.  *)
Plain == {p \in Requests(Device) : p.loc = Untagged}
Seen == {d \in Draft : d.entry \in Ids /\ d.journal \in OwnJournals(Device) /\ d.loc = Untagged}
Rows == {r \in LocalRow : r.journal \in OwnJournals(Device) /\ r.loc = Untagged}
Answers == {r \in Row : r.journal \in OwnJournals(Device) /\ r.loc = Untagged}
Calls == [kind : {"put", "pagehide", "discard", "commit"}, tab : Tabs \cup {NULL},
          load : Plain, reply : Answers \cup {NULL}, rest : SUBSET Plain]

ClientOK ==
  /\ page \in [Tabs -> {"closed", "booting", "open"}]
  /\ seen \in [Tabs -> Seen \cup {NULL}]
  /\ current \in [Tabs -> Plain \cup {NULL}]
  /\ \A t \in Tabs : page[t] # "open" => current[t] = NULL
  /\ unposted \subseteq {t \in Tabs : current[t] # NULL}
  /\ store \in [Ids -> [row : Rows, synced : BOOLEAN] \cup {NULL}]
  /\ minted \in 0 .. Cardinality(Ids)
  /\ finished \in [Ids -> Bodies \cup {NULL}]
  /\ adrift \subseteq Ids

(* The one slot in use, and the journal that comes of it.                  *)
SlotOK ==
  /\ \A s \in Slots : drafts[s] # NULL => s = Device /\ drafts[s].loc = Untagged
  /\ \A e \in Ids : entries[e] # NULL =>
       entries[e].loc = Untagged /\ entries[e].journal \in OwnJournals(Device)
  /\ clock = 0 \/ clock + FinishAfter <= MaxTime

(* A reply is what the journal has.                                        *)
RepliesMatch ==
  \A i \in DOMAIN calls : calls[i].reply # NULL =>
    LET row == entries[calls[i].load.entry]
    IN calls[i].kind = "commit" /\ row # NULL /\ calls[i].reply.body = row.body

CallsOK == calls \in Seq(Calls)

WriterInv == IInv /\ ClientOK /\ CallsOK /\ SlotOK /\ RepliesMatch
SafeInv == WriterInv /\ SyncedMatchesJournal
-----------------------------------------------------------------------------
(* The requests in flight, after each thing that happens to them.          *)
LEMMA CallsAre ==
  ASSUME CallsOK
  PROVE  /\ Len(calls) \in Nat /\ DOMAIN calls = 1 .. Len(calls)
         /\ \A i \in DOMAIN calls : calls[i] \in Calls
BY LenProperties, ElementOfSeq DEF CallsOK

LEMMA Removed ==
  ASSUME CallsOK, NEW i \in DOMAIN calls
  PROVE  /\ RemoveAt(calls, i) \in Seq(Calls)
         /\ DOMAIN RemoveAt(calls, i) = 1 .. Len(calls) - 1
         /\ \A k \in 1 .. Len(calls) - 1 :
              RemoveAt(calls, i)[k] = IF k < i THEN calls[k] ELSE calls[k + 1]
BY CallsAre, RemoveAtProperties DEF CallsOK

LEMMA Appended ==
  ASSUME NEW s \in Seq(Calls), NEW c \in Calls
  PROVE  /\ Append(s, c) \in Seq(Calls)
         /\ Len(Append(s, c)) = Len(s) + 1 /\ Len(s) \in Nat
         /\ DOMAIN Append(s, c) = 1 .. Len(s) + 1
         /\ \A k \in 1 .. Len(s) : Append(s, c)[k] = s[k]
         /\ Append(s, c)[Len(s) + 1] = c
BY AppendProperties, LenProperties

LEMMA Orphans ==
  ASSUME CallsOK, NEW t \in Tabs
  PROVE  /\ Orphaned(t) \in Seq(Calls) /\ Len(Orphaned(t)) = Len(calls)
         /\ DOMAIN Orphaned(t) = DOMAIN calls
         /\ \A i \in DOMAIN calls :
              /\ Orphaned(t)[i].kind = calls[i].kind /\ Orphaned(t)[i].load = calls[i].load
              /\ Orphaned(t)[i].reply = calls[i].reply /\ Orphaned(t)[i].rest = calls[i].rest
<1>1. ASSUME NEW i \in DOMAIN calls
      PROVE  /\ Orphaned(t)[i] \in Calls
             /\ Orphaned(t)[i].kind = calls[i].kind /\ Orphaned(t)[i].load = calls[i].load
             /\ Orphaned(t)[i].reply = calls[i].reply /\ Orphaned(t)[i].rest = calls[i].rest
  <2>1. calls[i] \in Calls
    BY CallsAre
  <2>2. QED
    BY <2>1 DEF Orphaned, Calls
<1>2. Orphaned(t) \in [1 .. Len(calls) -> Calls] /\ Len(calls) \in Nat
  BY <1>1, CallsAre DEF Orphaned
<1>3. Orphaned(t) \in Seq(Calls)
  BY <1>2, SeqDef
<1>4. QED
  BY <1>1, <1>2, <1>3, CallsAre, LenProperties

(* What a reply says is untouched wherever the request has moved to.       *)
OldReplies ==
  \A i \in DOMAIN calls' : calls'[i].reply # NULL =>
    \E k \in DOMAIN calls :
      /\ calls'[i].reply = calls[k].reply /\ calls'[i].kind = calls[k].kind
      /\ calls'[i].load = calls[k].load

LEMMA RemovedCalls ==
  ASSUME CallsOK, NEW i \in DOMAIN calls, calls' = RemoveAt(calls, i)
  PROVE  CallsOK' /\ OldReplies
<1>1. DOMAIN calls = 1 .. Len(calls) /\ Len(calls) \in Nat /\ i \in 1 .. Len(calls)
  BY CallsAre
<1>2. ASSUME NEW j \in DOMAIN calls'
      PROVE  \E k \in DOMAIN calls : calls'[j] = calls[k]
  <2>1. j \in 1 .. Len(calls) - 1 /\ calls'[j] = IF j < i THEN calls[j] ELSE calls[j + 1]
    BY <1>2, Removed
  <2>2. j \in DOMAIN calls /\ j + 1 \in DOMAIN calls
    BY <1>1, <2>1
  <2>3. QED
    BY <2>1, <2>2
<1>3. QED
  BY <1>2, Removed DEF CallsOK, OldReplies

LEMMA SentCalls ==
  ASSUME CallsOK, NEW c \in Calls, c.reply = NULL, calls' = Append(calls, c)
  PROVE  CallsOK' /\ OldReplies
<1>1. DOMAIN calls = 1 .. Len(calls) /\ Len(calls) \in Nat /\ calls \in Seq(Calls)
  BY CallsAre DEF CallsOK
<1>2. ASSUME NEW j \in DOMAIN calls', calls'[j].reply # NULL
      PROVE  j \in DOMAIN calls /\ calls'[j] = calls[j]
  BY <1>1, <1>2, Appended
<1>3. QED
  BY <1>1, <1>2, Appended DEF CallsOK, OldReplies

LEMMA OrphanedCalls ==
  ASSUME CallsOK, NEW t \in Tabs,
         \/ calls' = Orphaned(t)
         \/ \E c \in Calls : c.reply = NULL /\ calls' = Append(Orphaned(t), c)
  PROVE  CallsOK' /\ OldReplies
<1>1. CASE calls' = Orphaned(t)
  BY <1>1, Orphans DEF CallsOK, OldReplies
<1>2. ASSUME NEW c \in Calls, c.reply = NULL, calls' = Append(Orphaned(t), c)
      PROVE  CallsOK' /\ OldReplies
  <2> DEFINE o == Orphaned(t)
  <2>1. o \in Seq(Calls) /\ DOMAIN o = 1 .. Len(o) /\ DOMAIN o = DOMAIN calls
    BY Orphans, CallsAre
  <2> HIDE DEF o
  <2>2. ASSUME NEW j \in DOMAIN calls', calls'[j].reply # NULL
        PROVE  j \in DOMAIN o /\ calls'[j] = o[j]
    <3>0. calls' = Append(o, c)
      BY <1>2 DEF o
    <3>1. DOMAIN calls' = 1 .. Len(o) + 1 /\ Len(o) \in Nat /\ calls'[Len(o) + 1] = c
          /\ \A k \in 1 .. Len(o) : calls'[k] = o[k]
      BY <3>0, <2>1, Appended
    <3>2. j \in 1 .. Len(o) + 1 /\ j # Len(o) + 1
      BY <1>2, <2>2, <3>1
    <3>3. j \in 1 .. Len(o)
      BY <3>1, <3>2
    <3>4. QED
      BY <2>1, <3>1, <3>3
  <2>3. CallsOK'
    BY <1>2, <2>1, Appended DEF CallsOK, o
  <2>4. OldReplies
    <3> SUFFICES ASSUME NEW j \in DOMAIN calls', calls'[j].reply # NULL
                 PROVE  \E k \in DOMAIN calls :
                          /\ calls'[j].reply = calls[k].reply /\ calls'[j].kind = calls[k].kind
                          /\ calls'[j].load = calls[k].load
      BY DEF OldReplies
    <3>1. j \in DOMAIN calls /\ calls'[j] = o[j]
      BY <2>1, <2>2
    <3>2. o[j].reply = calls[j].reply /\ o[j].kind = calls[j].kind /\ o[j].load = calls[j].load
      BY <3>1, Orphans DEF o
    <3>3. QED
      BY <3>1, <3>2
  <2>5. QED
    BY <2>3, <2>4
<1>3. QED
  BY <1>1, <1>2

(* The first of a flush is one of those to send.                           *)
LEMMA LeastOf ==
  ASSUME NEW S \in SUBSET Nat, S # {}
  PROVE  \E m \in S : \A k \in S : m <= k
<1>1. PICK m \in S : \A k \in S : ~(<<k, m>> \in OpToRel(<, Nat))
  BY NatLessThanWellFounded, WFMin
<1>2. \A k \in S : ~(k < m)
  BY <1>1 DEF OpToRel
<1> QED BY <1>2

LEMMA FlushSends ==
  ASSUME NEW rest \in SUBSET Plain, rest # {}, NEW t \in Tabs
  PROVE  /\ FlushCall(t, rest) \in Calls
         /\ FlushCall(t, rest).kind = "commit" /\ FlushCall(t, rest).tab = t
         /\ FlushCall(t, rest).load \in rest
         /\ FlushCall(t, rest).rest \subseteq rest
         /\ FlushCall(t, rest).reply = NULL
<1> DEFINE first == CHOOSE p \in rest : \A q \in rest : p.entry <= q.entry
<1>0. Ids \subseteq Nat
  OBVIOUS
<1>1. \A p \in rest : p.entry \in Nat
  BY <1>0 DEF Plain, Requests, OwnIds
<1> DEFINE named == {p.entry : p \in rest}
<1>2. named \in SUBSET Nat /\ named # {}
  BY <1>1
<1>3. \E p \in rest : \A q \in rest : p.entry <= q.entry
  <2>1. PICK m \in named : \A k \in named : m <= k
    <3> HIDE DEF named
    <3> QED BY <1>2, LeastOf
  <2>2. QED
    BY <2>1
<1>4. first \in rest
  BY <1>3
<1> HIDE DEF first
<1>5. FlushCall(t, rest) = Call("commit", t, first, rest \ {first})
  BY DEF FlushCall, first
<1>6. QED
  BY <1>4, <1>5 DEF Call, Calls
-----------------------------------------------------------------------------
(* What the client does to the server is what any client may do to it.     *)
(* All that the client makes the server do.                                *)
ServerDoes ==
  \/ UNCHANGED server
  \/ Tick /\ clock + FinishAfter < MaxTime
  \/ \E p \in Plain :
       PutCurrent(Device, p, FinishAfter) \/ CommitEntry(Device, p) \/ CrashCommitting(p)
  \/ DiscardDraft(Device)
  \/ SweepDueDrafts \/ SweepOrphanedDrafts(Owner[Device]) \/ CrashFinalizing

LEMMA ServerActs ==
  ASSUME CallsOK, [WriterNext]_allVars
  PROVE  ServerDoes
<1>1. \A i \in DOMAIN calls : calls[i].load \in Plain
  BY CallsAre DEF Calls
<1>2. CASE \E t \in Tabs :
       \/ \E body \in Bodies : Keystroke(t, body) \/ Paste(t, body)
       \/ Finish(t) \/ PostDraft(t) \/ FlushUnsynced(t) \/ MergeEntries(t)
       \/ OpenPage(t) \/ Adopt(t) \/ ClosePage(t) \/ KillPage(t) \/ SignOut(t)
  BY <1>2 DEF Keystroke, Paste, NoteInput, Finish, PostDraft, FlushUnsynced, MergeEntries, OpenPage, Adopt,
     ClosePage, KillPage, SignOut, ServerDoes
<1>3. ASSUME NEW i \in DOMAIN calls,
             ServePut(i) \/ ServeDiscard(i) \/ ServeCommit(i) \/ CommitAnswered(i) \/ Lose(i)
      PROVE  ServerDoes
  BY <1>1, <1>3 DEF ServePut, ServeDiscard, ServeCommit, CommitAnswered, Lose, ServerDoes
<1>4. CASE TimePasses \/ Janitor \/ ServerDies
  BY <1>4 DEF TimePasses, Janitor, ServerDies, ServerDoes
<1>5. CASE UNCHANGED allVars
  BY <1>5 DEF allVars, server, ServerDoes
<1>6. QED
  BY <1>2, <1>3, <1>4, <1>5 DEF WriterNext

LEMMA ServerSteps ==
  ASSUME ServerDoes
  PROVE  [Next]_vars
<1>1. Plain \subseteq Requests(Device) /\ Device \in Slots /\ Owner[Device] \in Users
      /\ FinishAfter \in Delays
  BY DEF Plain
<1>2. QED
  BY <1>1 DEF ServerDoes, Next, server, vars

(* An entry that is in the journal stays there as it is.                   *)
EntriesStay ==
  \A e \in Ids : entries[e] # NULL =>
    entries'[e] # NULL /\ entries'[e].body = entries[e].body

LEMMA JournalStays ==
  ASSUME TypeOK, [Next]_vars
  PROVE  EntriesStay
<1>1. CASE UNCHANGED entries
  BY <1>1 DEF EntriesStay
<1>2. CASE J!Add
  BY <1>2 DEF J!Add, EntriesStay
<1>3. ASSUME NEW f \in Ids, NEW tag \in Tags, J!Resolve(f, tag)
      PROVE  EntriesStay
  <2>1. entries[f] \in Row /\ [entries[f] EXCEPT !.loc = tag] \in Row
    BY <1>3 DEF J!Resolve, TypeOK, Row
  <2>2. QED
    BY <1>3, <2>1 DEF J!Resolve, TypeOK, EntriesStay, Row
<1>4. QED
  BY <1>1, <1>2, <1>3, StepIsJournalStep DEF J!Next

LEMMA SlotStays ==
  ASSUME TypeOK, TypeOK', SlotOK, ServerDoes
  PROVE  SlotOK'
<1>0. FinishAfter \in Nat /\ clock \in Nat
  BY DEF TypeOK, Times
<1>1. ASSUME NEW S \in SUBSET Slots, \A s \in S : drafts[s] # NULL, entries' = Finalized(S)
      PROVE  \A e \in Ids : entries'[e] # NULL =>
               entries'[e].loc = Untagged /\ entries'[e].journal \in OwnJournals(Device)
  <2> SUFFICES ASSUME NEW e \in Ids, entries'[e] # entries[e]
               PROVE  entries'[e].loc = Untagged /\ entries'[e].journal \in OwnJournals(Device)
    BY DEF SlotOK
  <2> DEFINE s == SlotOf[e]
  <2>1. s \in S /\ entries'[e] = RowOf(drafts[s])
    BY <1>1 DEF Finalized
  <2>2. s = Device /\ drafts[s].loc = Untagged /\ drafts[s].journal \in OwnJournals(s)
    BY <1>1, <2>1 DEF SlotOK, TypeOK
  <2>3. QED
    BY <2>1, <2>2 DEF RowOf
<1>2. ASSUME FinalizeStep
      PROVE  SlotOK'
  <2>1. PICK done \in SUBSET Slots, torn \in SUBSET Slots :
          Held(done \cup torn) /\ Finalize(done, torn)
    BY <1>2 DEF FinalizeStep
  <2>2. entries' = Finalized(done) /\ \A s \in done : drafts[s] # NULL
    BY <2>1 DEF Finalize, Held
  <2>3. \A s \in Slots : drafts'[s] # NULL => drafts'[s] = drafts[s]
    BY <2>1 DEF Finalize, Emptied
  <2>4. UNCHANGED clock
    BY <2>1 DEF Finalize
  <2>5. QED
    BY <1>1, <2>2, <2>3, <2>4 DEF SlotOK, OwnJournals
<1>3. ASSUME NEW p \in Plain, PutCurrent(Device, p, FinishAfter)
      PROVE  SlotOK'
  <2>1. CASE Finalize({}, Displaced(Device, p))
    <3> DEFINE old == Displaced(Device, p)
    <3>1. old \in SUBSET Slots /\ {} \in SUBSET Slots /\ Held({} \cup old) /\ Finalize({}, old)
      BY <2>1, DisplacedSlots DEF Held
    <3> HIDE DEF old
    <3>2. FinalizeStep
      BY <3>1 DEF FinalizeStep
    <3>3. QED
      BY <1>2, <3>2
  <2>2. CASE ~Finalize({}, Displaced(Device, p))
    <3>1. entries' = Finalized(Displaced(Device, p)) /\ UNCHANGED clock
      BY <1>3, <2>2 DEF PutCurrent
    <3>2. \A s \in Slots : drafts'[s] # NULL => s = Device /\ drafts'[s].loc = Untagged
      BY <1>3, <2>2 DEF PutCurrent, SlotOK, Plain, TypeOK
    <3>3. QED
      BY <1>1, <3>1, <3>2, DisplacedSlots DEF SlotOK, Held, OwnJournals
  <2>3. QED
    BY <2>1, <2>2
<1>4. ASSUME NEW p \in Plain, CommitEntry(Device, p) \/ CrashCommitting(p)
      PROVE  SlotOK'
  <2>1. UNCHANGED clock /\ \A s \in Slots : drafts'[s] # NULL => drafts'[s] = drafts[s]
    BY <1>4 DEF CommitEntry, CrashCommitting, ClearSlotFor, TypeOK, history
  <2>2. \A e \in Ids : entries'[e] # NULL =>
               entries'[e].loc = Untagged /\ entries'[e].journal \in OwnJournals(Device)
    <3>1. \/ UNCHANGED entries
          \/ entries' = [entries EXCEPT ![p.entry] = RowOf(p)]
      BY <1>4 DEF CommitEntry, CrashCommitting
    <3>2. RowOf(p).loc = Untagged /\ RowOf(p).journal \in OwnJournals(Device)
      BY DEF RowOf, Plain, Requests
    <3>3. QED
      BY <3>1, <3>2 DEF SlotOK, TypeOK
  <2>3. QED
    BY <2>1, <2>2 DEF SlotOK, OwnJournals
<1>5. CASE DiscardDraft(Device)
  BY <1>5 DEF DiscardDraft, SlotOK, OwnJournals
<1>6. CASE Tick /\ clock + FinishAfter < MaxTime
  BY <1>0, <1>6 DEF Tick, SlotOK, OwnJournals
<1>7. CASE UNCHANGED server
  BY <1>7 DEF server, SlotOK, OwnJournals
<1>8. CASE SweepDueDrafts \/ SweepOrphanedDrafts(Owner[Device]) \/ CrashFinalizing
  BY <1>2, <1>8, SweepsAndCrashesFinalize
<1>9. QED
  BY <1>3, <1>4, <1>5, <1>6, <1>7, <1>8 DEF ServerDoes
-----------------------------------------------------------------------------
(* The values the client makes.                                            *)
LEMMA EntryIsPlain ==
  ASSUME TypeOK, SlotOK, NEW e \in Ids, NEW body \in Bodies
  PROVE  Entry(e, body) \in Plain
<1>1. clock \in Stamps
  BY DEF SlotOK, TypeOK, Times
<1>2. Untagged \in Locations
  BY DEF Locations
<1>3. QED
  BY <1>1, <1>2 DEF Entry, Plain, Requests

LEMMA PlainRow ==
  ASSUME NEW c \in Plain
  PROVE  /\ RowOf(c) \in Rows /\ RowOf(c).body = c.body
         /\ c.entry \in Ids /\ c.body \in Bodies /\ c # NULL
<1>1. c \in Requests(Device) /\ c.loc = Untagged
  BY DEF Plain
<1>2. c # NULL
  BY <1>1, NullIsNoneOfThese
<1>3. QED
  BY <1>1, <1>2 DEF Requests, OwnJournals, RowOf, LocalRow, Rows

LEMMA HandedOver ==
  ASSUME ClientOK, CallsOK, NEW t \in Tabs, NEW c \in Plain, HandOver(t, c)
  PROVE  /\ CallsOK' /\ OldReplies
         /\ store' \in [Ids -> [row : Rows, synced : BOOLEAN] \cup {NULL}]
         /\ finished' \in [Ids -> Bodies \cup {NULL}]
         /\ \A e \in Ids :
              \/ store'[e] = store[e] /\ finished'[e] = finished[e]
              \/ store'[e] # NULL /\ ~store'[e].synced /\ store'[e].row.body = finished'[e]
<1>1. Call("discard", t, c, {}) \in Calls /\ Call("discard", t, c, {}).reply = NULL
  BY DEF Call, Calls
<1>2. Call("commit", t, c, {}) \in Calls /\ Call("commit", t, c, {}).reply = NULL
  BY DEF Call, Calls
<1>3. CallsOK' /\ OldReplies
  <2>1. \/ Send(Call("discard", t, c, {}))
        \/ Send(Call("commit", t, c, {}))
    BY DEF HandOver
  <2>2. QED
    BY <1>1, <1>2, <2>1, SentCalls DEF Send
<1>4. CASE UNCHANGED <<store, finished>>
  BY <1>3, <1>4 DEF ClientOK
<1>5. CASE ~UNCHANGED <<store, finished>>
  <2> DEFINE r == [row |-> RowOf(c), synced |-> FALSE]
  <2>1. finished' = [finished EXCEPT ![c.entry] = c.body]
        /\ store' = [store EXCEPT ![c.entry] = r]
    BY <1>5 DEF HandOver
  <2>2. r \in [row : Rows, synced : BOOLEAN] /\ r.row.body = c.body /\ ~r.synced
    BY PlainRow
  <2>3. r # NULL
    BY <2>2, NullIsNoneOfThese DEF Rows
  <2> HIDE DEF r
  <2>4. QED
    BY <1>3, <2>1, <2>2, <2>3, PlainRow DEF ClientOK
<1>6. QED
  BY <1>4, <1>5
-----------------------------------------------------------------------------
LEMMA RepliesStillMatch ==
  ASSUME CallsOK, RepliesMatch, OldReplies, EntriesStay
  PROVE  RepliesMatch'
<1> SUFFICES ASSUME NEW i \in DOMAIN calls', calls'[i].reply # NULL
             PROVE  LET row == entries'[calls'[i].load.entry]
                    IN calls'[i].kind = "commit" /\ row # NULL /\ calls'[i].reply.body = row.body
  BY DEF RepliesMatch
<1>1. PICK k \in DOMAIN calls : /\ calls'[i].reply = calls[k].reply
                                /\ calls'[i].kind = calls[k].kind
                                /\ calls'[i].load = calls[k].load
  BY DEF OldReplies
<1>2. calls[k].load.entry \in Ids
  BY CallsAre, PlainRow DEF Calls
<1>3. PICK e \in Ids : e = calls[k].load.entry
  BY <1>2
<1>4. calls[k].kind = "commit" /\ entries[e] # NULL /\ calls[k].reply.body = entries[e].body
  BY <1>1, <1>3 DEF RepliesMatch
<1>5. entries'[e] # NULL /\ entries'[e].body = entries[e].body
  BY <1>4 DEF EntriesStay
<1>6. QED
  BY <1>1, <1>3, <1>4, <1>5

(* What may become of a row of the local store, and of finished with it.   *)
RowMoves(e) ==
  \/ store'[e] = store[e] /\ finished'[e] = finished[e]
  \/ store'[e] # NULL /\ ~store'[e].synced /\ store'[e].row.body = finished'[e]
  \/ /\ store'[e] # NULL /\ store'[e].synced /\ finished'[e] = finished[e]
     /\ entries'[e] # NULL /\ store'[e].row.body = entries'[e].body
  \/ MaySignOut /\ store'[e] = NULL /\ finished'[e] = finished[e]

StepOK ==
  /\ ClientOK' /\ CallsOK' /\ RepliesMatch'
  /\ \A e \in Ids : RowMoves(e)

(* A step that leaves the store alone.                                     *)
LEMMA StoreRests ==
  ASSUME UNCHANGED <<store, finished>>
  PROVE  \A e \in Ids : RowMoves(e)
BY DEF RowMoves

(* A keystroke, or a paste: input that rolls a stale entry over, or makes  *)
(* it go adrift.                                                           *)
Input(t, body, over) ==
  /\ NoteInput(t, body, over)
  /\ over => IsStale(current[t])
  /\ adrift' \in {adrift, adrift \cup {current'[t].entry}}
  /\ adrift' # adrift => current'[t] # NULL
  /\ current'[t] # NULL /\ (body \in Unfit \/ (IsStale(current[t]) /\ ~over)) =>
       current'[t].entry \in adrift'

LEMMA InputIs ==
  ASSUME NEW t \in Tabs, NEW body \in Bodies, Keystroke(t, body) \/ Paste(t, body)
  PROVE  \E over \in BOOLEAN : Input(t, body, over)
<1>1. CASE Keystroke(t, body)
  <2>1. IsStale(current[t]) \in BOOLEAN
    BY DEF IsStale
  <2>2. Input(t, body, IsStale(current[t]))
    BY <1>1 DEF Keystroke, Stray, Input
  <2>3. QED
    BY <2>1, <2>2
<1>2. CASE Paste(t, body)
  BY <1>2 DEF Paste, Stray, Input
<1>3. QED
  BY <1>1, <1>2

LEMMA InputStep ==
  ASSUME WriterInv, EntriesStay, NEW t \in Tabs, NEW body \in Bodies, NEW over \in BOOLEAN,
         Input(t, body, over)
  PROVE  StepOK
<1> DEFINE c == current[t]
           fresh == c = NULL \/ over
<1>1. page[t] = "open" /\ UNCHANGED <<page, seen, server>>
  BY DEF Input, NoteInput
<1>2. /\ CallsOK' /\ OldReplies
      /\ store' \in [Ids -> [row : Rows, synced : BOOLEAN] \cup {NULL}]
      /\ finished' \in [Ids -> Bodies \cup {NULL}]
      /\ \A e \in Ids : RowMoves(e)
  <2>1. CASE over
    <3>1. c \in Plain /\ HandOver(t, c)
      BY <2>1 DEF Input, NoteInput, IsStale, WriterInv, ClientOK
    <3>2. QED
      BY <3>1, HandedOver DEF WriterInv, RowMoves
  <2>2. CASE ~over
    BY <2>2, StoreRests DEF Input, NoteInput, WriterInv, ClientOK, CallsOK, OldReplies
  <2>3. QED
    BY <2>1, <2>2
<1>3. \A e \in Ids : Entry(e, body) \in Plain
  BY EntryIsPlain DEF WriterInv, IInv
<1>4. /\ current' \in [Tabs -> Plain \cup {NULL}] /\ \A u \in Tabs : u # t => current'[u] = current[u]
      /\ minted' \in 0 .. Cardinality(Ids)
  <2>1. CASE fresh /\ IsBlank(body)
    BY <2>1 DEF Input, NoteInput, WriterInv, ClientOK
  <2>2. CASE fresh /\ ~IsBlank(body)
    <3>1. minted + 1 \in Ids /\ minted' = minted + 1
          /\ current' = [current EXCEPT ![t] = Entry(minted', body)]
      BY <2>2 DEF Input, NoteInput
    <3>2. minted + 1 \in 0 .. Cardinality(Ids)
      BY <3>1, WriterConstantsOK, FS_CardinalityType DEF WriterConstantsOK
    <3>3. QED
      BY <1>3, <3>1, <3>2 DEF WriterInv, ClientOK
  <2>3. CASE ~fresh
    <3>1. current' = [current EXCEPT ![t] = Entry(c.entry, body)] /\ UNCHANGED minted
      BY <2>3 DEF Input, NoteInput
    <3>2. c.entry \in Ids
      BY <2>3, PlainRow DEF WriterInv, ClientOK
    <3>3. QED
      BY <1>3, <3>1, <3>2 DEF WriterInv, ClientOK
  <2>4. QED
    BY <2>1, <2>2, <2>3
<1>5. unposted' \subseteq {u \in Tabs : current'[u] # NULL}
  BY <1>4 DEF Input, NoteInput, WriterInv, ClientOK
<1>6. adrift' \subseteq Ids
  <2>1. current'[t] # NULL => current'[t].entry \in Ids
    BY <1>4, PlainRow
  <2>2. QED
    BY <2>1 DEF Input, WriterInv, ClientOK
<1>7. ClientOK'
  BY <1>1, <1>2, <1>4, <1>5, <1>6 DEF WriterInv, ClientOK
<1>8. QED
  BY <1>2, <1>7, RepliesStillMatch DEF WriterInv, StepOK

LEMMA FinishStep ==
  ASSUME WriterInv, EntriesStay, NEW t \in Tabs, Finish(t)
  PROVE  StepOK
<1>1. current[t] \in Plain /\ HandOver(t, current[t])
  BY DEF Finish, WriterInv, ClientOK
<1>2. /\ CallsOK' /\ OldReplies
      /\ store' \in [Ids -> [row : Rows, synced : BOOLEAN] \cup {NULL}]
      /\ finished' \in [Ids -> Bodies \cup {NULL}]
      /\ \A e \in Ids : RowMoves(e)
  BY <1>1, HandedOver DEF WriterInv, RowMoves
<1>3. ClientOK'
  BY <1>2 DEF Finish, WriterInv, ClientOK
<1>4. QED
  BY <1>2, <1>3, RepliesStillMatch DEF WriterInv, StepOK

(* A request that only sends.                                              *)
LEMMA SendingStep ==
  ASSUME WriterInv, EntriesStay, NEW t \in Tabs, PostDraft(t) \/ FlushUnsynced(t)
  PROVE  StepOK
<1>1. \E c \in Calls : c.reply = NULL /\ calls' = Append(calls, c)
  <2>1. CASE PostDraft(t)
    <3>1. current[t] \in Plain
      BY <2>1 DEF PostDraft, WriterInv, ClientOK
    <3>2. Call("put", t, current[t], {}) \in Calls /\ Call("put", t, current[t], {}).reply = NULL
      BY <3>1 DEF Call, Calls
    <3>3. QED
      BY <2>1, <3>2 DEF PostDraft, Send
  <2>2. CASE FlushUnsynced(t)
    <3>1. Pending \in SUBSET Plain /\ Pending # {}
      <4>1. ASSUME NEW e \in Unsynced
            PROVE  [entry |-> e, journal |-> store[e].row.journal, body |-> store[e].row.body,
                    loc |-> store[e].row.loc, clientTime |-> store[e].row.clientTime] \in Plain
        <5>1. e \in Ids /\ store[e].row \in Rows
          BY <4>1 DEF Unsynced, WriterInv, ClientOK
        <5>2. QED
          BY <5>1 DEF Rows, LocalRow, Plain, Requests, Locations
      <4>2. QED
        BY <2>2, <4>1 DEF Pending, FlushUnsynced
    <3> DEFINE c == FlushCall(t, Pending)
    <3>2. c \in Calls /\ c.reply = NULL
      BY <3>1, FlushSends
    <3>3. QED
      BY <2>2, <3>2 DEF FlushUnsynced, Send
  <2>3. QED
    BY <2>1, <2>2
<1>2. CallsOK' /\ OldReplies
  BY <1>1, SentCalls DEF WriterInv
<1>3. ClientOK' /\ UNCHANGED <<store, finished>>
  BY DEF PostDraft, FlushUnsynced, client, WriterInv, ClientOK
<1>4. QED
  BY <1>2, <1>3, RepliesStillMatch, StoreRests DEF WriterInv, StepOK

(* What the server has of an entry is a row the client can store.          *)
LEMMA AnswersAreRows == Answers \subseteq Rows
BY DEF Answers, Rows, Row, LocalRow, Contents

LEMMA JournalRow ==
  ASSUME TypeOK, SlotOK, NEW e \in Ids, entries[e] # NULL
  PROVE  entries[e] \in Answers /\ entries[e] \in Rows
BY AnswersAreRows DEF TypeOK, SlotOK, Answers

LEMMA MergeStep ==
  ASSUME WriterInv, EntriesStay, NEW t \in Tabs, MergeEntries(t)
  PROVE  StepOK
<1>1. UNCHANGED <<page, seen, current, unposted, minted, finished, adrift, calls, server>>
  BY DEF MergeEntries
<1>2. CallsOK' /\ OldReplies
  BY <1>1 DEF WriterInv, CallsOK, OldReplies
<1>3. PICK listed \in SUBSET {e \in Ids : entries[e] # NULL} :
        store' = [e \in Ids |-> IF e \in listed THEN [row |-> entries[e], synced |-> TRUE]
                                ELSE store[e]]
  BY DEF MergeEntries
<1>4. ASSUME NEW e \in listed
      PROVE  /\ entries[e] # NULL /\ store'[e].row = entries[e] /\ store'[e].synced
             /\ store'[e] \in [row : Rows, synced : BOOLEAN] /\ store'[e] # NULL
  <2> DEFINE r == [row |-> entries[e], synced |-> TRUE]
  <2>1. entries[e] # NULL /\ e \in Ids /\ entries[e] \in Rows
    BY JournalRow DEF WriterInv, IInv
  <2>2. r \in [row : Rows, synced : BOOLEAN] /\ r.row = entries[e] /\ r.synced
    BY <2>1
  <2>3. store'[e] = r
    BY <1>3, <2>1
  <2> HIDE DEF r
  <2>4. r # NULL
    BY <2>2, NullIsNoneOfThese DEF Rows
  <2>5. QED
    BY <2>1, <2>2, <2>3, <2>4
<1>5. store' \in [Ids -> [row : Rows, synced : BOOLEAN] \cup {NULL}]
  BY <1>3, <1>4 DEF WriterInv, ClientOK
<1>6. \A e \in Ids : RowMoves(e)
  <2>1. ASSUME NEW e \in Ids, e \in listed
        PROVE  RowMoves(e)
    <3>1. UNCHANGED <<entries, finished>>
      BY <1>1 DEF server
    <3>2. entries[e] # NULL /\ store'[e] # NULL
          /\ store'[e].row = entries[e] /\ store'[e].synced
      BY <1>4, <2>1
    <3>3. QED
      BY <3>1, <3>2 DEF RowMoves
  <2>2. ASSUME NEW e \in Ids, e \notin listed
        PROVE  RowMoves(e)
    BY <1>1, <1>3, <2>2 DEF RowMoves
  <2>3. QED
    BY <2>1, <2>2
<1>7. ClientOK'
  BY <1>1, <1>5 DEF WriterInv, ClientOK
<1>8. QED
  BY <1>2, <1>6, <1>7, RepliesStillMatch DEF WriterInv, StepOK

LEMMA LoadStep ==
  ASSUME WriterInv, EntriesStay, TypeOK', SlotOK', NEW t \in Tabs, OpenPage(t) \/ Adopt(t)
  PROVE  StepOK
<1>1. UNCHANGED <<unposted, store, minted, finished, adrift, calls>>
  BY DEF OpenPage, Adopt
<1>2. CallsOK' /\ OldReplies
  BY <1>1 DEF WriterInv, CallsOK, OldReplies
<1>3. CASE OpenPage(t)
  <2>1. drafts'[Device] \in Seen \cup {NULL}
    BY DEF TypeOK, SlotOK, Seen, Draft
  <2>2. ClientOK'
    BY <1>1, <1>3, <2>1 DEF OpenPage, WriterInv, ClientOK
  <2>3. QED
    BY <1>1, <1>2, <2>2, RepliesStillMatch, StoreRests DEF WriterInv, StepOK
<1>4. CASE Adopt(t)
  <2> DEFINE d == seen[t]
             c == [entry |-> d.entry, journal |-> d.journal, body |-> d.body, loc |-> d.loc,
                   clientTime |-> d.clientTime]
  <2>1. d # NULL => c \in Plain
    <3>1. d # NULL => d \in Seen
      BY DEF WriterInv, ClientOK
    <3>2. QED
      BY <3>1 DEF Seen, Draft, Contents, Plain, Requests
  <2>2. current' = [current EXCEPT ![t] = IF d = NULL THEN NULL ELSE c]
    BY <1>4 DEF Adopt
  <2>3. current[t] = NULL
    BY <1>4 DEF Adopt, WriterInv, ClientOK
  <2> HIDE DEF d, c
  <2>4. page' = [page EXCEPT ![t] = "open"] /\ seen' = [seen EXCEPT ![t] = NULL]
    BY <1>4 DEF Adopt
  <2>5. ClientOK'
    BY <1>1, <2>1, <2>2, <2>3, <2>4 DEF WriterInv, ClientOK
  <2>6. QED
    BY <1>1, <1>2, <2>5, RepliesStillMatch, StoreRests DEF WriterInv, StepOK
<1>5. QED
  BY <1>3, <1>4

LEMMA LeavingStep ==
  ASSUME WriterInv, EntriesStay, NEW t \in Tabs, ClosePage(t) \/ KillPage(t) \/ SignOut(t)
  PROVE  StepOK
<1>1. Leave(t) /\ UNCHANGED <<minted, finished, adrift, server>>
  BY DEF ClosePage, KillPage, SignOut
<1>2. \/ calls' = Orphaned(t)
      \/ \E c \in Calls : c.reply = NULL /\ calls' = Append(Orphaned(t), c)
  <2>1. CASE ClosePage(t) /\ current[t] # NULL
    <3> DEFINE p == [current[t] EXCEPT !.clientTime = clock]
    <3>1. current[t] \in Plain
      BY <2>1 DEF WriterInv, ClientOK
    <3>2. clock \in Stamps
      BY DEF WriterInv, IInv, SlotOK, TypeOK, Times
    <3>3. p \in Plain
      BY <3>1, <3>2 DEF Plain, Requests
    <3> HIDE DEF p
    <3>4. Call("pagehide", NULL, p, {}) \in Calls /\ Call("pagehide", NULL, p, {}).reply = NULL
      BY <3>3 DEF Call, Calls
    <3>5. QED
      BY <2>1, <3>4 DEF ClosePage, p
  <2>2. CASE SignOut(t) /\ current[t] # NULL
    <3>1. current[t] \in Plain
      BY <2>2 DEF WriterInv, ClientOK
    <3>2. Call("put", NULL, current[t], {}) \in Calls /\ Call("put", NULL, current[t], {}).reply = NULL
      BY <3>1 DEF Call, Calls
    <3>3. QED
      BY <2>2, <3>2 DEF SignOut
  <2>3. QED
    BY <2>1, <2>2 DEF ClosePage, KillPage, SignOut
<1>3. CallsOK' /\ OldReplies
  BY <1>2, OrphanedCalls DEF WriterInv
<1>4. /\ store' \in [Ids -> [row : Rows, synced : BOOLEAN] \cup {NULL}]
      /\ \A e \in Ids : RowMoves(e)
  <2>1. CASE SignOut(t)
    <3>1. MaySignOut /\ store' = [e \in Ids |-> NULL] /\ UNCHANGED finished
      BY <2>1 DEF SignOut
    <3>2. QED
      BY <3>1 DEF RowMoves
  <2>2. CASE ClosePage(t) \/ KillPage(t)
    BY <2>2, StoreRests DEF ClosePage, KillPage, WriterInv, ClientOK
  <2>3. QED
    BY <2>1, <2>2
<1>5. ClientOK'
  BY <1>1, <1>4 DEF Leave, WriterInv, ClientOK
<1>6. QED
  BY <1>3, <1>4, <1>5, RepliesStillMatch DEF WriterInv, StepOK

LEMMA ServingStep ==
  ASSUME WriterInv, EntriesStay, NEW i \in DOMAIN calls,
         ServePut(i) \/ ServeDiscard(i) \/ Lose(i)
  PROVE  StepOK
<1>1. calls' = RemoveAt(calls, i) /\ UNCHANGED client
  BY DEF ServePut, ServeDiscard, Lose, Drop
<1>2. CallsOK' /\ OldReplies
  BY <1>1, RemovedCalls DEF WriterInv
<1>3. ClientOK' /\ UNCHANGED <<store, finished>>
  BY <1>1 DEF client, WriterInv, ClientOK
<1>4. QED
  BY <1>2, <1>3, RepliesStillMatch, StoreRests DEF WriterInv, StepOK

LEMMA CommitStep ==
  ASSUME WriterInv, EntriesStay, TypeOK', NEW i \in DOMAIN calls, ServeCommit(i)
  PROVE  StepOK
<1>1. ClientOK' /\ UNCHANGED <<store, finished>>
  BY DEF ServeCommit, client, WriterInv, ClientOK
<1>2. calls[i] \in Calls /\ calls[i].kind = "commit" /\ calls[i].load.entry \in Ids
  BY CallsAre, PlainRow DEF ServeCommit, WriterInv, Calls
<1>3. CASE calls' = RemoveAt(calls, i)
  <2>1. CallsOK' /\ OldReplies
    BY <1>3, RemovedCalls DEF WriterInv
  <2>2. QED
    BY <1>1, <2>1, RepliesStillMatch, StoreRests DEF WriterInv, StepOK
<1>4. CASE /\ CommitEntry(Device, calls[i].load)
           /\ calls' = [calls EXCEPT ![i].reply = entries'[calls[i].load.entry]]
  <2> DEFINE e == calls[i].load.entry
             c == [calls[i] EXCEPT !.reply = entries'[e]]
  <2>1. entries'[e] \in Answers /\ entries'[e] # NULL
    <3>1. CASE entries[e] # NULL
      <4>1. entries'[e] = entries[e]
        BY <1>4, <3>1 DEF CommitEntry
      <4>2. QED
        BY <1>2, <3>1, <4>1, JournalRow DEF WriterInv, IInv
    <3>2. CASE entries[e] = NULL
      <4>1. entries' = [entries EXCEPT ![e] = RowOf(calls[i].load)]
        BY <1>4, <3>2 DEF CommitEntry
      <4>2. QED
        <5>1. calls[i].load \in Plain /\ calls[i].load.body \notin BadContents
          BY <1>2, <1>4, <3>2 DEF CommitEntry, Committable, Calls
        <5>2. RowOf(calls[i].load) \in Answers
          BY <5>1 DEF Answers, Row, Contents, Plain, Requests, RowOf, OwnJournals
        <5>3. RowOf(calls[i].load) # NULL
          BY <5>2 DEF Answers
        <5>4. QED
          BY <1>2, <4>1, <5>2, <5>3 DEF WriterInv, IInv, TypeOK
    <3>3. QED
      BY <3>1, <3>2
  <2>2. c \in Calls /\ c.kind = "commit" /\ c.load = calls[i].load /\ c.reply = entries'[e]
    BY <1>2, <2>1 DEF Calls
  <2> HIDE DEF c, e
  <2>3. calls' = [calls EXCEPT ![i] = c]
    BY <1>4 DEF c, e
  <2>4. CallsOK' /\ DOMAIN calls' = DOMAIN calls
        /\ \A k \in DOMAIN calls : calls'[k] = IF k = i THEN c ELSE calls[k]
    BY <2>2, <2>3, CallsAre, ExceptSeq DEF CallsOK, WriterInv
  <2>5. RepliesMatch'
    <3> SUFFICES ASSUME NEW k \in DOMAIN calls, calls'[k].reply # NULL
                 PROVE  LET row == entries'[calls'[k].load.entry]
                        IN calls'[k].kind = "commit" /\ row # NULL /\ calls'[k].reply.body = row.body
      BY <2>4 DEF RepliesMatch
    <3>1. CASE k = i
      BY <2>1, <2>2, <2>4, <3>1 DEF e
    <3>2. CASE k # i
      <4>1. calls'[k] = calls[k] /\ calls[k].load.entry \in Ids
        BY <2>4, <3>2, CallsAre, PlainRow DEF WriterInv, Calls
      <4>2. QED
        BY <4>1 DEF WriterInv, RepliesMatch, EntriesStay
    <3>3. QED
      BY <3>1, <3>2
  <2>6. QED
    BY <1>1, <2>4, <2>5, StoreRests DEF StepOK
<1>5. QED
  BY <1>3, <1>4 DEF ServeCommit, Drop

LEMMA AnswerStep ==
  ASSUME WriterInv, NEW i \in DOMAIN calls, CommitAnswered(i)
  PROVE  StepOK
<1> DEFINE c == calls[i]
           e == c.load.entry
           r == [row |-> c.reply, synced |-> TRUE]
<1>1. UNCHANGED <<page, seen, current, unposted, minted, finished, adrift, server>>
  BY DEF CommitAnswered
<1>2. EntriesStay
  BY <1>1 DEF server, EntriesStay
<1>3. /\ c \in Calls /\ c.reply # NULL /\ e \in Ids
      /\ entries[e] # NULL /\ c.reply.body = entries[e].body
  BY CallsAre, PlainRow DEF CommitAnswered, WriterInv, RepliesMatch, Calls
<1>4. r \in [row : Rows, synced : BOOLEAN] /\ r # NULL /\ r.synced /\ r.row = c.reply
  <2>1. r \in [row : Rows, synced : BOOLEAN]
    BY <1>3, AnswersAreRows DEF Calls
  <2>2. QED
    BY <2>1, NullIsNoneOfThese DEF Rows
<1> HIDE DEF r
<1>5. \/ UNCHANGED store
      \/ store' = [store EXCEPT ![e] = r]
  BY DEF CommitAnswered, r
<1>6. ClientOK' /\ \A f \in Ids : RowMoves(f)
  <2>1. CASE UNCHANGED store
    BY <1>1, <2>1, StoreRests DEF WriterInv, ClientOK
  <2>2. CASE store' = [store EXCEPT ![e] = r]
    BY <1>1, <1>3, <1>4, <2>2 DEF WriterInv, ClientOK, RowMoves, server
  <2>3. QED
    BY <1>5, <2>1, <2>2
<1>7. CallsOK' /\ OldReplies
  <2>1. CASE calls' = RemoveAt(calls, i)
    BY <2>1, RemovedCalls DEF WriterInv
  <2>2. CASE calls' # RemoveAt(calls, i)
    <3> DEFINE f == FlushCall(c.tab, c.rest)
    <3>1. calls' = [calls EXCEPT ![i] = f] /\ c.rest # {} /\ c.tab # NULL
      BY <2>2 DEF CommitAnswered, Drop
    <3>2. f \in Calls /\ f.reply = NULL
      <4>1. c.rest \in SUBSET Plain /\ c.tab \in Tabs
        BY <1>3, <3>1 DEF Calls
      <4>2. \A u \in Tabs, rest \in SUBSET Plain :
              rest # {} => FlushCall(u, rest) \in Calls /\ FlushCall(u, rest).reply = NULL
        BY FlushSends
      <4>3. QED
        BY <3>1, <4>1, <4>2
    <3> HIDE DEF f
    <3>3. CallsOK' /\ DOMAIN calls' = DOMAIN calls
          /\ \A k \in DOMAIN calls : calls'[k] = IF k = i THEN f ELSE calls[k]
      BY <3>1, <3>2, CallsAre, ExceptSeq DEF CallsOK, WriterInv
    <3>4. QED
      BY <3>2, <3>3 DEF OldReplies
  <2>3. QED
    BY <2>1, <2>2
<1>8. QED
  BY <1>2, <1>6, <1>7, RepliesStillMatch DEF WriterInv, StepOK

LEMMA OtherStep ==
  ASSUME WriterInv, EntriesStay, UNCHANGED <<client, calls>>
  PROVE  StepOK
<1>1. UNCHANGED client /\ UNCHANGED calls
  OBVIOUS
<1>2. CallsOK' /\ OldReplies
  BY <1>1 DEF WriterInv, CallsOK, OldReplies
<1>3. ClientOK' /\ UNCHANGED <<store, finished>>
  BY <1>1 DEF client, WriterInv, ClientOK
<1>4. QED
  BY <1>2, <1>3, RepliesStillMatch, StoreRests DEF WriterInv, StepOK
-----------------------------------------------------------------------------
LEMMA WriterSteps ==
  ASSUME WriterInv, [WriterNext]_allVars
  PROVE  WriterInv' /\ EntriesStay /\ \A e \in Ids : RowMoves(e)
<1>1. ServerDoes /\ [Next]_vars
  BY ServerActs, ServerSteps DEF WriterInv
<1>2. IInv' /\ EntriesStay
  BY <1>1, NextIInv, JournalStays DEF WriterInv, IInv
<1>3. SlotOK' /\ TypeOK'
  BY <1>1, <1>2, SlotStays DEF WriterInv, IInv
<1>4. ASSUME NEW t \in Tabs,
             \/ \E body \in Bodies : Keystroke(t, body) \/ Paste(t, body)
             \/ Finish(t) \/ PostDraft(t) \/ FlushUnsynced(t) \/ MergeEntries(t)
             \/ OpenPage(t) \/ Adopt(t) \/ ClosePage(t) \/ KillPage(t) \/ SignOut(t)
      PROVE  StepOK
  BY <1>2, <1>3, <1>4, InputIs, InputStep, FinishStep, SendingStep, MergeStep, LoadStep, LeavingStep
<1>5. ASSUME NEW i \in DOMAIN calls,
             ServePut(i) \/ ServeDiscard(i) \/ ServeCommit(i) \/ CommitAnswered(i) \/ Lose(i)
      PROVE  StepOK
  BY <1>2, <1>3, <1>5, ServingStep, CommitStep, AnswerStep
<1>6. ASSUME TimePasses \/ Janitor \/ ServerDies \/ UNCHANGED allVars
      PROVE  StepOK
  <2>1. UNCHANGED <<client, calls>>
    BY <1>6 DEF TimePasses, Janitor, ServerDies, allVars
  <2>2. QED
    BY <1>2, <2>1, OtherStep
<1>7. StepOK
  BY <1>4, <1>5, <1>6 DEF WriterNext
<1>8. QED
  BY <1>2, <1>3, <1>7 DEF WriterInv, StepOK

LEMMA WriterStarts ==
  ASSUME WriterInit
  PROVE  WriterInv /\ SyncedMatchesJournal /\ FinishedIsSafe
<1>1. IInv
  BY InitIInv DEF WriterInit
<1>2. ClientOK
  <2>1. 0 \in 0 .. Cardinality(Ids)
    BY WriterConstantsOK, FS_CardinalityType DEF WriterConstantsOK
  <2>2. QED
    BY <2>1 DEF WriterInit, ClientOK
<1>3. CallsOK /\ RepliesMatch
  BY EmptySeq DEF WriterInit, CallsOK, RepliesMatch
<1>4. SlotOK
  BY DEF WriterInit, Init, SlotOK
<1>5. QED
  BY <1>1, <1>2, <1>3, <1>4 DEF WriterInv, WriterInit, SyncedMatchesJournal, FinishedIsSafe

LEMMA SyncedStep ==
  ASSUME WriterInv, SyncedMatchesJournal, [WriterNext]_allVars
  PROVE  SyncedMatchesJournal'
BY WriterSteps DEF SyncedMatchesJournal, RowMoves, EntriesStay

LEMMA SafeStep ==
  ASSUME WriterInv, FinishedIsSafe, MaySignOut = FALSE, [WriterNext]_allVars
  PROVE  FinishedIsSafe'
BY WriterSteps DEF FinishedIsSafe, RowMoves, EntriesStay

LEMMA InvIsTyped == WriterInv => WriterTypeOK
<1> SUFFICES ASSUME WriterInv PROVE WriterTypeOK
  OBVIOUS
<1>1. /\ Plain \subseteq Sessions /\ Rows \subseteq LocalRow /\ Answers \subseteq Row
      /\ Seen \subseteq Draft
  BY DEF Plain, Sessions, Rows, Answers, Seen
<1>2. ASSUME NEW i \in DOMAIN calls
      PROVE  /\ calls[i].kind \in {"put", "pagehide", "discard", "commit"}
             /\ calls[i].tab \in Tabs \cup {NULL} /\ calls[i].load \in Sessions
             /\ calls[i].reply \in Row \cup {NULL} /\ calls[i].rest \subseteq Sessions
  BY <1>1, CallsAre DEF WriterInv, Calls
<1>3. QED
  BY <1>1, <1>2 DEF WriterInv, IInv, ClientOK, WriterTypeOK

(* Whatever tabs, timers and a lossy network do, sessions, requests and    *)
(* replies, the local store and the slot stay what the code expects.       *)
THEOREM WriterTyped == WriterSpec => []WriterTypeOK
BY WriterStarts, WriterSteps, InvIsTyped, PTL DEF WriterSpec

(* A row the local store takes for acknowledged is in the journal with the *)
(* same contents, however late or often replies and listings arrive.       *)
THEOREM SyncedMatches == WriterSpec => []SyncedMatchesJournal
BY WriterStarts, WriterSteps, SyncedStep, PTL DEF WriterSpec

(* Unless the user signs out, what was finished is in the journal or waits *)
(* in the store as it was finished, through every loss, retry and crash.   *)
THEOREM FinishedSafe ==
  ASSUME MaySignOut = FALSE
  PROVE  WriterSpec => []FinishedIsSafe
BY WriterStarts, WriterSteps, SafeStep, PTL DEF WriterSpec

(* The same handlers run, with requests of this device only.               *)
LEMMA WriterRefines ==
  ASSUME WriterInv, [WriterNext]_allVars
  PROVE  [Next]_vars
BY ServerActs, ServerSteps DEF WriterInv

(* With this client in front of the server too, accepted scratch stays in  *)
(* its slot until it is in the journal.                                    *)
THEOREM WriterKeepsOwed == WriterSpec => []OwedIsKept
BY WriterStarts, WriterSteps, PTL DEF WriterSpec, WriterInv, IInv

(* With a client and a lossy network in front of it, the server still      *)
(* implements the append-only journal.                                     *)
THEOREM WriterKeepsJournal == WriterSpec => IsJournal
<1>1. WriterInit => J!Init
  BY DEF WriterInit, Init, J!Init
<1>2. WriterInv /\ [WriterNext]_allVars => [J!Next]_entries
  BY WriterRefines, StepIsJournalStep DEF WriterInv, IInv
<1>3. QED
  BY <1>1, <1>2, WriterStarts, WriterSteps, PTL DEF WriterSpec, IsJournal, J!Spec
-----------------------------------------------------------------------------
(* On a prompt network, with one tab, what is written travels one way:     *)
(* from the session through the scratch posts under way to the slot.       *)
(* These are the copies of it behind the session, the oldest first: the    *)
(* slot, then each request that is a scratch post.                         *)
copies ==
  [i \in 0 .. Len(calls) |->
     IF i = 0 THEN drafts[Device] ELSE IF calls[i].kind = "put" THEN calls[i].load ELSE NULL]

(* The entries each request has yet to take out of the slot: by committing *)
(* them, or by emptying it.                                                *)
takes ==
  [k \in 1 .. Len(calls) |->
     IF calls[k].kind = "commit" /\ calls[k].reply = NULL THEN {calls[k].load.entry} ELSE {}]
clears ==
  [k \in 1 .. Len(calls) |->
     IF calls[k].kind = "discard" /\ calls[k].reply = NULL THEN Ids ELSE takes[k]]

(* A copy whose entry is stale by now: nobody writes in it any more.       *)
Cold(x, at) == x.clientTime + FinishAfter <= at
Same(x, y) == x.entry = y.entry /\ x.body = y.body /\ x.clientTime = y.clientTime
Follows(x, y, at) == x.clientTime <= y.clientTime /\ (Cold(x, at) => Same(x, y))

(* What follows is of the copies whose entry has not gone adrift.          *)
Live(x) == x # NULL /\ x.entry \notin adrift

(* Of two copies of one entry the later is newer, or both are the last.    *)
(* Between copies of two entries the first one leaves the slot.            *)
InOrder ==
  \A i, j \in 0 .. Len(calls) :
    i < j /\ Live(copies[i]) /\ copies[j] # NULL =>
      IF copies[i].entry = copies[j].entry THEN Follows(copies[i], copies[j], clock)
      ELSE \E k \in i + 1 .. j - 1 : copies[i].entry \in clears[k]

(* All of this leaves the slot by what is already under way.               *)
AllCleared ==
  \A i \in 0 .. Len(calls) : Live(copies[i]) =>
    \E k \in i + 1 .. Len(calls) : copies[i].entry \in clears[k]

(* The session is at the end of that line.                                 *)
Behind(t) ==
  page[t] = "open" =>
    \A i \in 0 .. Len(calls) : Live(copies[i]) =>
      IF current[t] # NULL /\ copies[i].entry = current[t].entry
      THEN Follows(copies[i], current[t], clock)
      ELSE \E k \in i + 1 .. Len(calls) : copies[i].entry \in clears[k]

(* What the session has posted is in the last copy of its entry.           *)
Posted(t) ==
  current[t] # NULL /\ t \notin unposted =>
    \A i \in 0 .. Len(calls) :
      Live(copies[i]) /\ copies[i].entry = current[t].entry =>
        \E j \in i .. Len(calls) : copies[j] # NULL /\ Same(copies[j], current[t])

(* Copies of a finished entry are followed by its commit, and those the    *)
(* janitor could take meanwhile are as it was finished.                    *)
Followed ==
  \A i \in 0 .. Len(calls) :
    Live(copies[i]) /\ finished[copies[i].entry] # NULL =>
      /\ \E k \in i + 1 .. Len(calls) : copies[i].entry \in takes[k]
      /\ Cold(copies[i], clock) => copies[i].body = finished[copies[i].entry]

(* A copy is of an entry made up by now. If that has not gone adrift, the  *)
(* server takes it, and it is what the journal has if the janitor took it  *)
(* before the writer finished it.                                          *)
KnownAs(x) ==
  /\ x.entry <= minted /\ x.clientTime <= clock
  /\ x.entry \notin adrift =>
       /\ x.body \notin Unfit
       /\ finished[x.entry] = NULL /\ entries[x.entry] # NULL =>
            Cold(x, clock) /\ x.body = entries[x.entry].body
Known(t) ==
  /\ \A i \in 0 .. Len(calls) : copies[i] # NULL => KnownAs(copies[i])
  /\ current[t] # NULL => KnownAs(current[t])
  /\ Live(current[t]) => finished[current[t].entry] = NULL

Unminted ==
  /\ \A e \in adrift : e <= minted
  /\ \A e \in Ids : e > minted => finished[e] = NULL /\ entries[e] = NULL

(* Commits, and the rows waiting for one, carry what was finished.         *)
Carries(e, body) == e \in adrift \/ (finished[e] = body /\ body \notin Unfit)
Handed ==
  /\ \A i \in 1 .. Len(calls) : calls[i].kind = "commit" =>
       /\ Carries(calls[i].load.entry, calls[i].load.body)
       /\ \A p \in calls[i].rest : Carries(p.entry, p.body)
  /\ \A e \in Ids : store[e] # NULL /\ ~store[e].synced => Carries(e, store[e].row.body)

(* The janitor waits for as long as the session would.                     *)
Deadline ==
  LET d == drafts[Device] IN
  d # NULL => d.finalizeAt # NULL /\ d.finalizeAt >= d.clientTime + FinishAfter

(* A page that loads has read the slot, and finds it unchanged.            *)
Boots(t) ==
  page[t] = "booting" =>
    calls = <<>> /\ seen[t] = drafts[Device] /\ ~DraftIsDue(drafts[Device], clock)

LineOK(t) == InOrder /\ Behind(t) /\ Posted(t) /\ Followed
KeptInv(t) ==
  /\ LineOK(t) /\ Known(t) /\ Unminted /\ Handed /\ Deadline /\ Boots(t)
  /\ FinishedIsKept
-----------------------------------------------------------------------------
LEMMA LineTyped ==
  ASSUME WriterInv
  PROVE  /\ Len(calls) \in Nat /\ clock \in Nat
         /\ \A i \in 0 .. Len(calls) : copies[i] # NULL =>
              copies[i].entry \in Ids /\ copies[i].clientTime \in Nat /\ copies[i].body \in Bodies
         /\ \A k \in 1 .. Len(calls), e \in Ids : e \in takes[k] => e \in clears[k]
         /\ \A k \in 1 .. Len(calls) : clears[k] \subseteq Ids
<1>1. Len(calls) \in Nat /\ DOMAIN calls = 1 .. Len(calls) /\ \A k \in 1 .. Len(calls) : calls[k] \in Calls
  BY CallsAre DEF WriterInv
<1>2. clock \in Nat
  BY DEF WriterInv, IInv, TypeOK, Times
<1>3. ASSUME NEW i \in 0 .. Len(calls), copies[i] # NULL
      PROVE  copies[i].entry \in Ids /\ copies[i].clientTime \in Nat /\ copies[i].body \in Bodies
  <2>1. CASE i = 0
    BY <1>1, <1>3, <2>1 DEF copies, WriterInv, IInv, TypeOK, Draft, Contents
  <2>2. CASE i # 0
    <3>1. i \in 1 .. Len(calls)
      BY <1>1, <2>2
    <3>2. copies[i] = calls[i].load /\ calls[i].load \in Plain
      BY <1>1, <1>3, <2>2, <3>1 DEF copies, Calls
    <3>3. QED
      BY <3>2 DEF Plain, Requests
  <2>3. QED
    BY <2>1, <2>2
<1>4. ASSUME NEW k \in 1 .. Len(calls)
      PROVE  takes[k] \subseteq clears[k] /\ clears[k] \subseteq Ids
  BY <1>1, PlainRow DEF takes, clears, Calls
<1>5. QED
  BY <1>1, <1>2, <1>3, <1>4

(* The line after a step that adds no copy. m says where each of them was  *)
(* before, and nothing that clears an entry behind a copy is missed.       *)
LineMoves(m) ==
  /\ m \in [0 .. Len(calls)' -> 0 .. Len(calls)]
  /\ \A i \in 0 .. Len(calls)' : copies'[i] # NULL =>
       /\ copies[m[i]] # NULL /\ Same(copies'[i], copies[m[i]])
       /\ \A j \in 0 .. Len(calls)' : i < j /\ copies'[j] # NULL => m[i] < m[j]
       /\ \A j \in m[i] .. Len(calls) : Live(copies[j]) =>
            \E l \in i .. Len(calls)' : copies'[l] # NULL /\ Same(copies'[l], copies[j])
       /\ \A k \in m[i] + 1 .. Len(calls) : copies'[i].entry \in clears[k] \ adrift =>
            \E l \in i + 1 .. Len(calls)' :
              /\ copies'[i].entry \in clears'[l]
              /\ copies'[i].entry \in takes[k] => copies'[i].entry \in takes'[l]
              /\ \A j \in 0 .. Len(calls)' : copies'[j] # NULL /\ k < m[j] => l < j

LEMMA LineMovesInOrder ==
  ASSUME WriterInv, CallsOK', InOrder, UNCHANGED clock, adrift \subseteq adrift',
         NEW m, LineMoves(m)
  PROVE  InOrder'
<1>1. Len(calls) \in Nat /\ Len(calls)' \in Nat
  BY LineTyped, LenProperties DEF CallsOK
<1> SUFFICES ASSUME NEW i \in 0 .. Len(calls)', NEW j \in 0 .. Len(calls)',
                    i < j, copies'[i] # NULL, copies'[i].entry \notin adrift, copies'[j] # NULL
             PROVE  IF copies'[i].entry = copies'[j].entry THEN Follows(copies'[i], copies'[j], clock')
                    ELSE \E k \in i + 1 .. j - 1 : copies'[i].entry \in clears'[k]
  BY DEF InOrder, Live
<1> DEFINE a == m[i]
           b == m[j]
<1>2. /\ a \in 0 .. Len(calls) /\ b \in 0 .. Len(calls) /\ a < b
      /\ copies[a] # NULL /\ copies[b] # NULL
      /\ Same(copies'[i], copies[a]) /\ Same(copies'[j], copies[b])
  BY DEF LineMoves
<1>3. IF copies[a].entry = copies[b].entry THEN Follows(copies[a], copies[b], clock)
      ELSE \E k \in a + 1 .. b - 1 : copies[a].entry \in clears[k]
  <2>1. Live(copies[a])
    BY <1>2 DEF Live, Same
  <2>2. QED
    BY <1>2, <2>1 DEF InOrder
<1>4. CASE copies'[i].entry = copies'[j].entry
  <2>1. Follows(copies[a], copies[b], clock)
    BY <1>2, <1>3, <1>4 DEF Same
  <2>2. UNCHANGED clock
    OBVIOUS
  <2> HIDE DEF a, b
  <2>3. QED
    BY <1>2, <1>4, <2>1, <2>2 DEF Follows, Cold, Same
<1>5. CASE copies'[i].entry # copies'[j].entry
  <2>1. PICK k \in a + 1 .. b - 1 : copies'[i].entry \in clears[k]
    BY <1>2, <1>3, <1>5 DEF Same
  <2>2. k \in a + 1 .. Len(calls) /\ k < b
    BY <1>1, <1>2, <2>1
  <2>3. PICK l \in i + 1 .. Len(calls)' : copies'[i].entry \in clears'[l] /\ l < j
    BY <2>1, <2>2 DEF LineMoves
  <2>4. l \in i + 1 .. j - 1
    BY <1>1, <2>3
  <2>5. QED
    BY <1>5, <2>3, <2>4
<1>6. QED
  BY <1>4, <1>5

(* ... and the session, where it goes on as it was, or is no more.         *)
LEMMA LineMovesOn ==
  ASSUME WriterInv, CallsOK', NEW t \in Tabs, LineOK(t), UNCHANGED <<clock, finished>>,
         adrift \subseteq adrift',
         (page'[t] # "open" /\ current'[t] = NULL) \/ UNCHANGED <<page, current, unposted>>,
         NEW m, LineMoves(m)
  PROVE  LineOK(t)'
<1>0. Len(calls) \in Nat /\ Len(calls)' \in Nat
  BY LineTyped, LenProperties DEF CallsOK
<1>1. InOrder'
  BY LineMovesInOrder DEF LineOK
<1>2. ASSUME NEW i \in 0 .. Len(calls)', copies'[i] # NULL, copies'[i].entry \notin adrift
      PROVE  /\ m[i] \in 0 .. Len(calls) /\ Live(copies[m[i]])
             /\ Same(copies'[i], copies[m[i]])
             /\ \A k \in m[i] + 1 .. Len(calls) : copies'[i].entry \in clears[k] =>
                  \E l \in i + 1 .. Len(calls)' :
                     /\ copies'[i].entry \in clears'[l]
                     /\ copies'[i].entry \in takes[k] => copies'[i].entry \in takes'[l]
             /\ \A j \in m[i] .. Len(calls) : Live(copies[j]) =>
                  \E l \in i .. Len(calls)' : copies'[l] # NULL /\ Same(copies'[l], copies[j])
  <2>1. copies[m[i]] # NULL /\ Same(copies'[i], copies[m[i]])
    BY <1>2 DEF LineMoves
  <2>2. Live(copies[m[i]])
    BY <1>2, <2>1 DEF Live, Same
  <2>3. QED
    BY <1>2, <2>1, <2>2 DEF LineMoves
<1>3. Followed'
  <2> SUFFICES ASSUME NEW i \in 0 .. Len(calls)', copies'[i] # NULL,
                      copies'[i].entry \notin adrift, finished'[copies'[i].entry] # NULL
               PROVE  /\ \E k \in i + 1 .. Len(calls)' : copies'[i].entry \in takes'[k]
                      /\ Cold(copies'[i], clock') => copies'[i].body = finished'[copies'[i].entry]
    BY DEF Followed, Live
  <2> DEFINE x == copies[m[i]]
  <2>1. Live(x) /\ Same(copies'[i], x) /\ m[i] \in 0 .. Len(calls) /\ finished[x.entry] # NULL
    BY <1>2 DEF Same
  <2>2. /\ \E k \in m[i] + 1 .. Len(calls) : x.entry \in takes[k]
        /\ Cold(x, clock) => x.body = finished[x.entry]
    BY <2>1 DEF LineOK, Followed
  <2>3. Cold(copies'[i], clock') => Cold(x, clock)
    BY <2>1 DEF Cold, Same
  <2>4. PICK k \in m[i] + 1 .. Len(calls) : x.entry \in takes[k]
    BY <2>2
  <2>5. x.entry \in clears[k] /\ x.entry = copies'[i].entry
    <3>1. k \in 1 .. Len(calls) /\ x.entry \in Ids
      BY <1>0, <2>1, <2>4, LineTyped DEF Live
    <3> HIDE DEF x
    <3>2. QED
      BY <2>1, <2>4, <3>1, LineTyped DEF Same
  <2>6. QED
    BY <1>2, <2>1, <2>2, <2>3, <2>4, <2>5 DEF Same
<1>4. Behind(t)'
  <2> SUFFICES ASSUME UNCHANGED <<page, current>>, page[t] = "open",
                      NEW i \in 0 .. Len(calls)', copies'[i] # NULL, copies'[i].entry \notin adrift
               PROVE  IF current[t] # NULL /\ copies'[i].entry = current[t].entry
                      THEN Follows(copies'[i], current[t], clock')
                      ELSE \E k \in i + 1 .. Len(calls)' : copies'[i].entry \in clears'[k]
    BY DEF Behind, Live
  <2> DEFINE x == copies[m[i]]
  <2>1. Live(x) /\ Same(copies'[i], x) /\ m[i] \in 0 .. Len(calls)
    BY <1>2
  <2>2. IF current[t] # NULL /\ x.entry = current[t].entry THEN Follows(x, current[t], clock)
        ELSE \E k \in m[i] + 1 .. Len(calls) : x.entry \in clears[k]
    BY <2>1 DEF LineOK, Behind
  <2>3. UNCHANGED <<clock, current>>
    OBVIOUS
  <2>4. CASE current[t] # NULL /\ x.entry = current[t].entry
    <3>1. Follows(x, current[t], clock)
      BY <2>2, <2>4
    <3> HIDE DEF x
    <3>2. Follows(copies'[i], current'[t], clock')
      BY <2>1, <2>3, <3>1 DEF Follows, Cold, Same
    <3>3. QED
      BY <2>1, <2>4, <3>2 DEF Same
  <2>5. CASE ~(current[t] # NULL /\ x.entry = current[t].entry)
    BY <1>2, <2>1, <2>2, <2>5 DEF Same
  <2>6. QED
    BY <2>4, <2>5
<1>5. Posted(t)'
  <2> SUFFICES ASSUME UNCHANGED <<page, current, unposted>>, current[t] # NULL, t \notin unposted,
                      NEW i \in 0 .. Len(calls)', copies'[i] # NULL,
                      copies'[i].entry \notin adrift, copies'[i].entry = current[t].entry
               PROVE  \E j \in i .. Len(calls)' : copies'[j] # NULL /\ Same(copies'[j], current[t])
    BY DEF Posted, Live
  <2> DEFINE x == copies[m[i]]
  <2>1. Live(x) /\ Same(copies'[i], x) /\ m[i] \in 0 .. Len(calls)
    BY <1>2
  <2>2. PICK j \in m[i] .. Len(calls) : copies[j] # NULL /\ Same(copies[j], current[t])
    BY <2>1 DEF LineOK, Posted, Same
  <2>3. PICK l \in i .. Len(calls)' : copies'[l] # NULL /\ Same(copies'[l], copies[j])
    <3>1. Live(copies[j])
      BY <2>1, <2>2 DEF Live, Same
    <3>2. QED
      BY <1>2, <2>2, <3>1
  <2>4. QED
    BY <2>2, <2>3 DEF Same
<1>6. QED
  BY <1>1, <1>3, <1>4, <1>5 DEF LineOK
-----------------------------------------------------------------------------
(* Commits under way are old ones, or send the rest of an old one.         *)
CommitsMove ==
  \A i \in 1 .. Len(calls)' : calls'[i].kind = "commit" =>
    \E k \in 1 .. Len(calls) :
      /\ calls[k].kind = "commit" /\ calls'[i].load \in {calls[k].load} \cup calls[k].rest
      /\ calls'[i].rest \subseteq calls[k].rest

LEMMA HandedStays ==
  ASSUME WriterInv, Handed, CommitsMove, UNCHANGED finished, adrift \subseteq adrift',
         \A e \in Ids : store'[e] = store[e] \/ store'[e] = NULL \/ store'[e].synced
  PROVE  Handed'
<1>1. ASSUME NEW i \in 1 .. Len(calls)', calls'[i].kind = "commit"
      PROVE  /\ Carries(calls[i].load.entry, calls[i].load.body)'
             /\ \A p \in calls'[i].rest : Carries(p.entry, p.body)'
  <2>1. PICK k \in 1 .. Len(calls) :
          /\ calls[k].kind = "commit" /\ calls'[i].load \in {calls[k].load} \cup calls[k].rest
          /\ calls'[i].rest \subseteq calls[k].rest
    BY <1>1 DEF CommitsMove
  <2>2. QED
    BY <2>1 DEF Handed, Carries, Unfit
<1>2. QED
  BY <1>1 DEF Handed, Carries, Unfit

(* What becomes of the line as requests come and go.                       *)
LEMMA LineOfRemoved ==
  ASSUME WriterInv, NEW i \in DOMAIN calls, calls' = RemoveAt(calls, i)
  PROVE  /\ CallsOK' /\ CommitsMove
         /\ Len(calls) \in Nat /\ i \in 1 .. Len(calls) /\ Len(calls)' = Len(calls) - 1
         /\ copies'[0] = drafts'[Device]
         /\ \A j \in 1 .. Len(calls) - 1 :
              LET k == IF j < i THEN j ELSE j + 1
              IN copies'[j] = copies[k] /\ takes'[j] = takes[k] /\ clears'[j] = clears[k]
<1>1. /\ calls \in Seq(Calls) /\ Len(calls) \in Nat /\ i \in 1 .. Len(calls)
      /\ calls' \in Seq(Calls) /\ DOMAIN calls' = 1 .. Len(calls) - 1
      /\ \A k \in 1 .. Len(calls) - 1 : calls'[k] = IF k < i THEN calls[k] ELSE calls[k + 1]
  BY CallsAre, Removed DEF WriterInv, CallsOK
<1>2. Len(calls)' = Len(calls) - 1
  BY <1>1, LenProperties
<1>3. copies'[0] = drafts'[Device]
  BY <1>1, <1>2 DEF copies
<1>4. ASSUME NEW j \in 1 .. Len(calls) - 1, NEW k, k = IF j < i THEN j ELSE j + 1
      PROVE  copies'[j] = copies[k] /\ takes'[j] = takes[k] /\ clears'[j] = clears[k]
  <2>1. calls'[j] = calls[k] /\ k \in 1 .. Len(calls) /\ k \in 0 .. Len(calls) /\ k # 0
        /\ j \in 1 .. Len(calls)' /\ j \in 0 .. Len(calls)' /\ j # 0
    BY <1>1, <1>2, <1>4
  <2>2. takes'[j] = takes[k]
    BY <2>1 DEF takes
  <2>3. clears'[j] = clears[k]
    BY <2>1, <2>2 DEF clears
  <2>4. copies'[j] = copies[k]
    BY <2>1 DEF copies
  <2>5. QED
    BY <2>2, <2>3, <2>4
<1>5. ASSUME NEW j \in 1 .. Len(calls)'
      PROVE  \E k \in 1 .. Len(calls) : calls'[j] = calls[k]
  <2>1. j \in 1 .. Len(calls) /\ j + 1 \in 1 .. Len(calls) /\ j \in 1 .. Len(calls) - 1
    BY <1>1, <1>2
  <2>2. QED
    BY <1>1, <2>1
<1>6. CommitsMove
  BY <1>5 DEF CommitsMove
<1>7. QED
  BY <1>1, <1>2, <1>3, <1>4, <1>6 DEF CallsOK

(* The same requests, whoever waits for them now.                          *)
Alike(s) ==
  /\ s \in Seq(Calls) /\ Len(s) = Len(calls)
  /\ \A i \in 1 .. Len(calls) :
       /\ s[i].kind = calls[i].kind /\ s[i].load = calls[i].load
       /\ s[i].reply = calls[i].reply /\ s[i].rest = calls[i].rest

LEMMA AlikeCalls ==
  ASSUME WriterInv
  PROVE  Alike(calls) /\ \A t \in Tabs : Alike(Orphaned(t))
BY CallsAre, Orphans DEF WriterInv, CallsOK, Alike

LEMMA LineOfAlike ==
  ASSUME WriterInv, Alike(calls')
  PROVE  /\ CallsOK' /\ CommitsMove
         /\ Len(calls) \in Nat /\ Len(calls)' = Len(calls) /\ copies'[0] = drafts'[Device]
         /\ \A i \in 1 .. Len(calls) :
              copies'[i] = copies[i] /\ takes'[i] = takes[i] /\ clears'[i] = clears[i]
<1>1. Len(calls) \in Nat /\ Len(calls') = Len(calls)
  BY CallsAre DEF Alike, WriterInv
<1>2. ASSUME NEW j \in 1 .. Len(calls)
      PROVE  copies'[j] = copies[j] /\ takes'[j] = takes[j] /\ clears'[j] = clears[j]
  <2>1. /\ calls'[j].kind = calls[j].kind /\ calls'[j].load = calls[j].load
        /\ calls'[j].reply = calls[j].reply
        /\ j \in 1 .. Len(calls') /\ j \in 0 .. Len(calls') /\ j \in 0 .. Len(calls) /\ j # 0
    BY <1>1 DEF Alike
  <2>2. takes'[j] = takes[j]
    BY <2>1 DEF takes
  <2>3. clears'[j] = clears[j]
    BY <2>1, <2>2 DEF clears
  <2>4. copies'[j] = copies[j]
    BY <2>1 DEF copies
  <2>5. QED
    BY <2>2, <2>3, <2>4
<1>3. copies'[0] = drafts'[Device]
  BY <1>1 DEF copies
<1>4. CallsOK' /\ CommitsMove
  BY <1>1 DEF Alike, CallsOK, CommitsMove
<1>5. QED
  BY <1>1, <1>2, <1>3, <1>4

LEMMA LineOfSent ==
  ASSUME WriterInv, NEW s, Alike(s), NEW c \in Calls, c.reply = NULL, calls' = Append(s, c)
  PROVE  /\ CallsOK' /\ Len(calls) \in Nat /\ Len(calls)' = Len(calls) + 1
         /\ copies'[0] = drafts'[Device]
         /\ \A i \in 1 .. Len(calls) :
              copies'[i] = copies[i] /\ takes'[i] = takes[i] /\ clears'[i] = clears[i]
         /\ copies'[Len(calls) + 1] = IF c.kind = "put" THEN c.load ELSE NULL
         /\ takes'[Len(calls) + 1] = IF c.kind = "commit" THEN {c.load.entry} ELSE {}
         /\ clears'[Len(calls) + 1] = IF c.kind = "discard" THEN Ids ELSE takes'[Len(calls) + 1]
         /\ c.kind # "commit" => CommitsMove
         /\ \A i \in 1 .. Len(calls) :
              /\ calls'[i].kind = calls[i].kind /\ calls'[i].load = calls[i].load
              /\ calls'[i].rest = calls[i].rest
         /\ calls'[Len(calls) + 1] = c
<1>1. /\ Len(calls) \in Nat /\ calls' \in Seq(Calls) /\ Len(calls') = Len(calls) + 1
      /\ \A k \in 1 .. Len(calls) : calls'[k] = s[k]
      /\ calls'[Len(calls) + 1] = c
  BY CallsAre, Appended DEF WriterInv, Alike
<1>2. ASSUME NEW j \in 1 .. Len(calls)
      PROVE  copies'[j] = copies[j] /\ takes'[j] = takes[j] /\ clears'[j] = clears[j]
  <2>1. /\ calls'[j].kind = calls[j].kind /\ calls'[j].load = calls[j].load
        /\ calls'[j].reply = calls[j].reply
        /\ j \in 1 .. Len(calls') /\ j \in 0 .. Len(calls') /\ j \in 0 .. Len(calls) /\ j # 0
    BY <1>1 DEF Alike
  <2>2. takes'[j] = takes[j]
    BY <2>1 DEF takes
  <2>3. clears'[j] = clears[j]
    BY <2>1, <2>2 DEF clears
  <2>4. copies'[j] = copies[j]
    BY <2>1 DEF copies
  <2>5. QED
    BY <2>2, <2>3, <2>4
<1>3. copies'[0] = drafts'[Device]
  BY <1>1 DEF copies
<1> DEFINE n == Len(calls) + 1
<1>4. n \in 1 .. Len(calls') /\ n \in 0 .. Len(calls') /\ n # 0 /\ calls'[n] = c
  BY <1>1
<1> HIDE DEF n
<1>5. takes'[n] = IF c.kind = "commit" THEN {c.load.entry} ELSE {}
  BY <1>4 DEF takes
<1>6. clears'[n] = IF c.kind = "discard" THEN Ids ELSE takes'[n]
  BY <1>4 DEF clears
<1>7. copies'[n] = IF c.kind = "put" THEN c.load ELSE NULL
  BY <1>4 DEF copies
<1>8. \A i \in 1 .. Len(calls) :
        /\ calls'[i].kind = calls[i].kind /\ calls'[i].load = calls[i].load
        /\ calls'[i].rest = calls[i].rest
  BY <1>1 DEF Alike
<1>9. c.kind # "commit" => CommitsMove
  BY <1>1, <1>8 DEF CommitsMove
<1>10. QED
  BY <1>1, <1>2, <1>3, <1>5, <1>6, <1>7, <1>8, <1>9 DEF CallsOK, n

(* A request is taken only after all before it: none of those is a copy or *)
(* clears anything any more.                                               *)
LEMMA FirstServed ==
  ASSUME WriterInv, Net = "prompt", NEW i \in DOMAIN calls, Serveable(i)
  PROVE  \A k \in 1 .. i - 1 : copies[k] = NULL /\ takes[k] = {} /\ clears[k] = {}
<1>1. Len(calls) \in Nat /\ i \in 1 .. Len(calls)
  BY CallsAre DEF WriterInv
<1> TAKE k \in 1 .. i - 1
<1>2. k \in DOMAIN calls /\ k \in 1 .. Len(calls) /\ k \in 0 .. Len(calls) /\ k # 0
  BY <1>1, CallsAre DEF WriterInv
<1>3. calls[k].reply # NULL /\ calls[k].kind = "commit"
  BY <1>2 DEF Serveable, WriterInv, RepliesMatch
<1>4. takes[k] = {}
  BY <1>2, <1>3 DEF takes
<1>5. QED
  BY <1>2, <1>3, <1>4 DEF clears, copies
-----------------------------------------------------------------------------
(* The line stands, or is longer by a request that is no copy.             *)
LEMMA StandingMoves ==
  ASSUME WriterInv, Len(calls)' \in Nat, Len(calls)' >= Len(calls),
         copies'[0] # NULL => copies[0] # NULL /\ Same(copies'[0], copies[0]),
         \A i \in 1 .. Len(calls) :
           copies'[i] = copies[i] /\ takes[i] \subseteq takes'[i] /\ clears[i] \subseteq clears'[i],
         \A i \in Len(calls) + 1 .. Len(calls)' : copies'[i] = NULL
  PROVE  \E m : LineMoves(m)
<1>1. Len(calls) \in Nat
  BY LineTyped
<1> DEFINE m == [i \in 0 .. Len(calls)' |-> IF i <= Len(calls) THEN i ELSE 0]
<1>2. ASSUME NEW i \in 0 .. Len(calls)', copies'[i] # NULL
      PROVE  i \in 0 .. Len(calls) /\ m[i] = i /\ copies[i] # NULL /\ Same(copies'[i], copies[i])
  BY <1>1, <1>2 DEF Same
<1>3. m \in [0 .. Len(calls)' -> 0 .. Len(calls)]
  BY <1>1
<1> HIDE DEF m
<1>4. ASSUME NEW i \in 0 .. Len(calls)', copies'[i] # NULL
      PROVE  /\ \A j \in 0 .. Len(calls)' : i < j /\ copies'[j] # NULL => m[i] < m[j]
             /\ \A j \in m[i] .. Len(calls) : Live(copies[j]) =>
                  \E l \in i .. Len(calls)' : copies'[l] # NULL /\ Same(copies'[l], copies[j])
             /\ \A k \in m[i] + 1 .. Len(calls) : copies'[i].entry \in clears[k] \ adrift =>
                  \E l \in i + 1 .. Len(calls)' :
                    /\ copies'[i].entry \in clears'[l]
                    /\ copies'[i].entry \in takes[k] => copies'[i].entry \in takes'[l]
                    /\ \A j \in 0 .. Len(calls)' : copies'[j] # NULL /\ k < m[j] => l < j
  <2>1. ASSUME NEW j \in m[i] .. Len(calls), copies[j] # NULL
        PROVE  \E l \in i .. Len(calls)' : copies'[l] # NULL /\ Same(copies'[l], copies[j])
    <3>1. CASE j = i
      BY <1>1, <1>2, <1>4, <3>1
    <3>2. CASE j # i
      <4>1. j \in 1 .. Len(calls) /\ j \in i .. Len(calls)'
        BY <1>1, <1>2, <1>4, <2>1, <3>2
      <4>2. copies'[j] = copies[j]
        BY <4>1
      <4>3. QED
        BY <2>1, <4>1, <4>2 DEF Same
    <3>3. QED
      BY <3>1, <3>2
  <2>2. ASSUME NEW k \in m[i] + 1 .. Len(calls)
        PROVE  /\ k \in i + 1 .. Len(calls)'
               /\ clears[k] \subseteq clears'[k] /\ takes[k] \subseteq takes'[k]
    BY <1>1, <1>2, <1>4
  <2>3. \A j \in 0 .. Len(calls)' : copies'[j] # NULL => m[j] = j
    BY <1>2
  <2>4. m[i] = i
    BY <1>2, <1>4
  <2>5. QED
    BY <2>1, <2>2, <2>3, <2>4 DEF Live
<1>5. LineMoves(m)
  BY <1>2, <1>3, <1>4 DEF LineMoves
<1>6. QED
  BY <1>5

(* A request is gone whose part of the line was done, or was about entries *)
(* gone adrift, or its place in the line goes to the slot: o is the copy   *)
(* the slot is now, or 0.                                                  *)
LEMMA RemovedMoves ==
  ASSUME WriterInv, NEW i \in DOMAIN calls, calls' = RemoveAt(calls, i),
         NEW o \in {0, i},
         copies'[0] # NULL => copies[o] # NULL /\ Same(copies'[0], copies[o]),
         o = 0 => ~Live(copies[i]) /\ (clears[i] \subseteq adrift \/ copies'[0] = NULL),
         o = i \/ clears[i] # {} => \A k \in 1 .. i - 1 : copies[k] = NULL /\ clears[k] = {}
  PROVE  \E m : LineMoves(m)
<1>1. /\ CallsOK' /\ Len(calls) \in Nat /\ i \in 1 .. Len(calls) /\ Len(calls)' = Len(calls) - 1
      /\ copies'[0] = drafts'[Device]
      /\ \A j \in 1 .. Len(calls) - 1 :
           LET k == IF j < i THEN j ELSE j + 1
           IN copies'[j] = copies[k] /\ takes'[j] = takes[k] /\ clears'[j] = clears[k]
  BY LineOfRemoved
<1> DEFINE m == [j \in 0 .. Len(calls)' |-> IF j = 0 THEN o ELSE IF j < i THEN j ELSE j + 1]
<1>2. m \in [0 .. Len(calls)' -> 0 .. Len(calls)]
  BY <1>1
<1>3. /\ m[0] = o
      /\ \A j \in 1 .. Len(calls)' :
           /\ m[j] = (IF j < i THEN j ELSE j + 1) /\ copies'[j] = copies[m[j]]
           /\ takes'[j] = takes[m[j]] /\ clears'[j] = clears[m[j]]
  BY <1>1
<1> HIDE DEF m
<1>4. ASSUME NEW j \in 0 .. Len(calls)', copies'[j] # NULL
      PROVE  /\ copies[m[j]] # NULL /\ Same(copies'[j], copies[m[j]]) /\ m[j] \in 0 .. Len(calls)
             /\ (j # 0 /\ o = i) => i < m[j]
  <2>1. CASE j = 0
    BY <1>1, <1>3, <1>4, <2>1
  <2>2. CASE j # 0
    <3>1. j \in 1 .. Len(calls)' /\ copies'[j] = copies[m[j]] /\ m[j] = IF j < i THEN j ELSE j + 1
      BY <1>1, <1>3, <2>2
    <3>2. o = i => ~(j < i)
      <4>1. CASE j < i
        <5>1. j \in 1 .. i - 1 /\ copies[j] # NULL
          BY <1>1, <1>4, <3>1, <4>1
        <5>2. QED
          BY <5>1
      <4>2. QED
        BY <4>1
    <3>3. o = i => i < m[j]
      BY <1>1, <3>1, <3>2
    <3>4. m[j] \in 0 .. Len(calls)
      BY <1>1, <3>1
    <3>5. QED
      BY <1>4, <2>2, <3>1, <3>3, <3>4 DEF Same
  <2>3. QED
    BY <2>1, <2>2
<1>5. ASSUME NEW j \in 0 .. Len(calls)', NEW l \in 0 .. Len(calls)', j < l,
             copies'[j] # NULL, copies'[l] # NULL
      PROVE  m[j] < m[l]
  BY <1>1, <1>3, <1>4, <1>5
<1>6. ASSUME NEW j \in 0 .. Len(calls)', copies'[j] # NULL,
             NEW k \in m[j] .. Len(calls), Live(copies[k])
      PROVE  \E l \in j .. Len(calls)' : copies'[l] # NULL /\ Same(copies'[l], copies[k])
  <2>1. CASE k = m[j]
    BY <1>1, <1>4, <1>6, <2>1
  <2>2. CASE k # m[j]
    <3>1. k # i /\ k # 0
      <4>1. CASE o = 0
        BY <1>1, <1>3, <1>4, <1>6, <2>2, <4>1
      <4>2. CASE o = i
        BY <1>1, <1>3, <1>4, <1>6, <2>2, <4>2 DEF Live
      <4>3. QED
        BY <4>1, <4>2
    <3> DEFINE l == IF k < i THEN k ELSE k - 1
    <3>2. l \in 1 .. Len(calls)' /\ m[l] = k
      BY <1>1, <1>3, <1>4, <1>6, <3>1
    <3>3. l \in j .. Len(calls)'
      <4>1. CASE j = 0
        BY <1>1, <3>2, <4>1
      <4>2. CASE j # 0
        <5>1. m[j] = (IF j < i THEN j ELSE j + 1) /\ j \in 1 .. Len(calls)'
          BY <1>1, <1>3, <4>2
        <5>2. m[j] < k /\ k \in Nat
          BY <1>1, <1>4, <1>6, <2>2
        <5>3. j <= l
          BY <1>1, <3>1, <5>1, <5>2
        <5>4. QED
          BY <1>1, <3>2, <5>3
      <4>3. QED
        BY <4>1, <4>2
    <3> HIDE DEF l
    <3>4. copies'[l] = copies[k]
      BY <1>3, <3>2
    <3>5. QED
      BY <1>6, <3>3, <3>4 DEF Same, Live
  <2>3. QED
    BY <2>1, <2>2
<1>7. ASSUME NEW j \in 0 .. Len(calls)', copies'[j] # NULL,
             NEW k \in m[j] + 1 .. Len(calls), copies'[j].entry \in clears[k] \ adrift
      PROVE  \E l \in j + 1 .. Len(calls)' :
               /\ copies'[j].entry \in clears'[l]
               /\ copies'[j].entry \in takes[k] => copies'[j].entry \in takes'[l]
               /\ \A b \in 0 .. Len(calls)' : copies'[b] # NULL /\ k < m[b] => l < b
  <2>1. k # i /\ k # 0 /\ k \in 1 .. Len(calls) /\ m[j] < k
    <3>1. k \in 1 .. Len(calls) /\ m[j] < k
      BY <1>1, <1>4, <1>7
    <3>2. ASSUME k = i
          PROVE  FALSE
      <4>1. clears[i] # {} /\ m[j] < i
        BY <1>7, <3>1, <3>2
      <4>2. o = 0
        BY <1>1, <1>3, <1>4, <1>7, <4>1
      <4>3. j # 0
        BY <1>7, <3>2, <4>2
      <4>4. m[j] \in 1 .. i - 1
        BY <1>1, <1>3, <1>4, <1>7, <4>1, <4>3
      <4>5. QED
        BY <1>4, <1>7, <4>1, <4>4
    <3>3. QED
      BY <3>1, <3>2
  <2> DEFINE l == IF k < i THEN k ELSE k - 1
  <2>2. l \in 1 .. Len(calls)' /\ m[l] = k
    BY <1>1, <1>3, <2>1
  <2>3. l \in j + 1 .. Len(calls)'
    BY <1>1, <1>3, <1>4, <1>7, <2>1, <2>2
  <2>4. \A b \in 0 .. Len(calls)' : copies'[b] # NULL /\ k < m[b] => l < b
    <3> SUFFICES ASSUME NEW b \in 0 .. Len(calls)', k < m[b]
                 PROVE  l < b
      OBVIOUS
    <3>1. CASE b = 0
      <4>1. o = i /\ k < i
        BY <1>1, <1>3, <2>1, <3>1
      <4>2. CASE j = 0
        BY <1>3, <2>1, <4>1, <4>2
      <4>3. CASE j # 0
        <5>1. i < m[j]
          BY <1>4, <1>7, <4>1, <4>3
        <5>2. QED
          BY <1>1, <2>1, <4>1, <5>1, <1>4, <1>7
      <4>4. QED
        BY <4>2, <4>3
    <3>2. CASE b # 0
      <4>1. b \in 1 .. Len(calls)' /\ m[b] = IF b < i THEN b ELSE b + 1
        BY <1>1, <1>3, <3>2
      <4>2. QED
        BY <1>1, <2>1, <4>1
    <3>3. QED
      BY <3>1, <3>2
  <2>5. clears'[l] = clears[k] /\ takes'[l] = takes[k]
    BY <1>3, <2>2
  <2> HIDE DEF l
  <2>6. QED
    BY <1>7, <2>3, <2>4, <2>5
<1>8. LineMoves(m)
  BY <1>2, <1>4, <1>5, <1>6, <1>7 DEF LineMoves
<1>9. QED
  BY <1>8
-----------------------------------------------------------------------------
(* An entry joins the journal as it was finished, or as all there is of it *)
(* stands if it has gone cold first; whichever way, if it went adrift.      *)
Joining(t) ==
  \A e \in Ids \ adrift : entries'[e] # entries[e] =>
    /\ entries[e] = NULL /\ e <= minted
    /\ finished[e] # NULL => entries'[e].body = finished[e]
    /\ finished[e] = NULL =>
         /\ \A i \in 0 .. Len(calls) : copies[i] # NULL /\ copies[i].entry = e =>
              Cold(copies[i], clock) /\ copies[i].body = entries'[e].body
         /\ current[t] # NULL /\ current[t].entry = e =>
              Cold(current[t], clock) /\ current[t].body = entries'[e].body

(* The session rests, or is gone.                                          *)
SessionRests(t) ==
  (page'[t] # "open" /\ current'[t] = NULL) \/ UNCHANGED <<page, current, unposted>>

LEMMA RestingStep ==
  ASSUME WriterInv, CallsOK', NEW t \in Tabs, KeptInv(t), UNCHANGED <<clock, finished, minted, adrift>>,
         SessionRests(t), Joining(t), \E m : LineMoves(m)
  PROVE  LineOK(t)' /\ Known(t)' /\ Unminted' /\ FinishedIsKept'
<1>1. PICK m : LineMoves(m)
  OBVIOUS
<1>2. LineOK(t)'
  BY <1>1, LineMovesOn DEF KeptInv, SessionRests
<1>3. Known(t)'
  <2>1. ASSUME NEW x, KnownAs(x), x.entry \in Ids,
               x.entry \in adrift \/ finished[x.entry] # NULL
                 \/ entries'[x.entry] = entries[x.entry]
                 \/ (Cold(x, clock) /\ x.body = entries'[x.entry].body)
        PROVE  /\ x.entry <= minted' /\ x.clientTime <= clock'
               /\ x.entry \notin adrift' =>
                    /\ x.body \notin Unfit
                    /\ finished'[x.entry] = NULL /\ entries'[x.entry] # NULL =>
                         Cold(x, clock') /\ x.body = entries'[x.entry].body
    <3>1. x.entry <= minted' /\ x.clientTime <= clock'
      BY <2>1 DEF KnownAs
    <3>2. UNCHANGED <<clock, finished, adrift>>
      OBVIOUS
    <3>3. QED
      BY <2>1, <3>1, <3>2 DEF KnownAs, Cold
  <2>2. ASSUME NEW i \in 0 .. Len(calls)', copies'[i] # NULL
        PROVE  KnownAs(copies[i])'
    <3> DEFINE x == copies[m[i]]
    <3>1. m[i] \in 0 .. Len(calls) /\ x # NULL /\ Same(copies'[i], x)
      BY <1>1, <2>2 DEF LineMoves
    <3>2. KnownAs(x) /\ x.entry \in Ids
      BY <3>1, LineTyped DEF KeptInv, Known
    <3>3. \/ x.entry \in adrift \/ entries'[x.entry] = entries[x.entry] \/ finished[x.entry] # NULL
          \/ (Cold(x, clock) /\ x.body = entries'[x.entry].body)
      <4>1. PICK e \in Ids : e = x.entry
        BY <3>2
      <4>2. e \notin adrift /\ entries'[e] # entries[e] /\ finished[e] = NULL =>
              \A j \in 0 .. Len(calls) : copies[j] # NULL /\ copies[j].entry = e =>
                Cold(copies[j], clock) /\ copies[j].body = entries'[e].body
        BY DEF Joining
      <4>3. QED
        BY <3>1, <4>1, <4>2
    <3>4. copies'[i].entry = x.entry /\ copies'[i].body = x.body /\ copies'[i].clientTime = x.clientTime
      BY <3>1 DEF Same
    <3> HIDE DEF x
    <3>5. /\ x.entry <= minted' /\ x.clientTime <= clock'
          /\ x.entry \notin adrift' =>
               /\ x.body \notin Unfit
               /\ finished'[x.entry] = NULL /\ entries'[x.entry] # NULL =>
                    Cold(x, clock') /\ x.body = entries'[x.entry].body
      BY <2>1, <3>2, <3>3
    <3>6. QED
      BY <3>4, <3>5 DEF KnownAs, Cold, Unfit
  <2>3. ASSUME current'[t] # NULL
        PROVE  KnownAs(current[t])' /\ (Live(current[t])' => finished'[current'[t].entry] = NULL)
    <3> DEFINE x == current[t]
    <3>1. current' = current /\ x # NULL
      BY <2>3 DEF SessionRests
    <3>2. KnownAs(x) /\ x.entry \in Ids /\ (Live(x) => finished[x.entry] = NULL)
      BY <3>1, PlainRow DEF KeptInv, Known, WriterInv, ClientOK
    <3>3. \/ x.entry \in adrift \/ entries'[x.entry] = entries[x.entry]
          \/ (Cold(x, clock) /\ x.body = entries'[x.entry].body)
      <4>1. PICK e \in Ids : e = x.entry
        BY <3>2
      <4>2. e \notin adrift /\ entries'[e] # entries[e] /\ finished[e] = NULL
              /\ current[t] # NULL /\ current[t].entry = e =>
                Cold(current[t], clock) /\ current[t].body = entries'[e].body
        BY DEF Joining
      <4>3. QED
        BY <3>1, <3>2, <4>1, <4>2 DEF Live
    <3> HIDE DEF x
    <3>4. /\ x.entry <= minted' /\ x.clientTime <= clock'
          /\ x.entry \notin adrift' =>
               /\ x.body \notin Unfit
               /\ finished'[x.entry] = NULL /\ entries'[x.entry] # NULL =>
                    Cold(x, clock') /\ x.body = entries'[x.entry].body
      BY <2>1, <3>2, <3>3
    <3>5. x = current'[t]
      BY <3>1 DEF x
    <3>6. QED
      BY <3>2, <3>4, <3>5 DEF KnownAs, Cold, Unfit, Live
  <2>4. QED
    BY <2>2, <2>3 DEF Known, Live
<1>4. Unminted'
  BY LineTyped DEF KeptInv, Unminted, Joining, WriterInv, ClientOK
<1>5. FinishedIsKept'
  BY DEF KeptInv, FinishedIsKept, Joining
<1>6. QED
  BY <1>2, <1>3, <1>4, <1>5

(* What a sweep leaves of the slot and makes of the journal.               *)
Swept ==
  \/ UNCHANGED <<drafts, entries>>
  \/ /\ DraftIsDue(drafts[Device], clock) /\ drafts'[Device] = NULL
     /\ \A e \in Ids : entries'[e] # entries[e] =>
          /\ e = drafts[Device].entry /\ entries[e] = NULL
          /\ entries'[e].body = drafts[Device].body

LEMMA SweepSweeps ==
  ASSUME WriterInv, NEW due \in SUBSET Slots, \A s \in due : DraftIsDue(drafts[s], clock),
         Sweep(due)
  PROVE  Swept /\ UNCHANGED clock
<1>1. ASSUME NEW s \in due
      PROVE  s = Device /\ drafts[s] # NULL /\ ~Throws(drafts[s])
  <2>1. drafts[s] # NULL /\ s = Device /\ drafts[s].loc = Untagged
    BY DEF DraftIsDue, WriterInv, SlotOK
  <2>2. QED
    BY <2>1 DEF Throws
<1>2. Finalize(due, {}) /\ due # {}
  BY <1>1 DEF Sweep
<1>3. due = {Device}
  BY <1>1, <1>2
<1>4. drafts' = Emptied({Device}) /\ entries' = Finalized({Device}) /\ UNCHANGED clock
  BY <1>2, <1>3 DEF Finalize
<1>5. drafts'[Device] = NULL
  BY <1>4 DEF Emptied
<1>6. ASSUME NEW e \in Ids, entries'[e] # entries[e]
      PROVE  /\ e = drafts[Device].entry /\ entries[e] = NULL
             /\ entries'[e].body = drafts[Device].body
  <2>1. SlotOf[e] = Device
    BY DEF OwnIds
  <2>2. drafts[Device].entry = e /\ Commits(drafts[Device]) /\ entries'[e] = RowOf(drafts[Device])
    BY <1>4, <1>6, <2>1 DEF Finalized
  <2>3. QED
    BY <2>2 DEF Commits, RowOf
<1>7. QED
  BY <1>3, <1>4, <1>5, <1>6 DEF Swept

LEMMA SweepersSweep ==
  ASSUME WriterInv, SweepDueDrafts \/ SweepOrphanedDrafts(Owner[Device])
  PROVE  Swept /\ UNCHANGED clock
<1>1. CASE SweepDueDrafts
  <2>1. ASSUME NEW s \in DueDrafts(clock)
        PROVE  DraftIsDue(drafts[s], clock)
    <3>1. s \in Slots /\ drafts[s] # NULL /\ drafts[s] \in Draft /\ clock \in Nat
      BY DEF DueDrafts, WriterInv, IInv, TypeOK, Times
    <3>2. drafts[s].receivedAt \in Nat /\ OrphanAfter \in Nat
      BY <3>1 DEF Draft, Times
    <3>3. QED
      BY <3>1, <3>2 DEF DueDrafts, DraftIsDue
  <2>2. DueDrafts(clock) \in SUBSET Slots
    BY DEF DueDrafts
  <2>3. QED
    BY <1>1, <2>1, <2>2, SweepSweeps DEF SweepDueDrafts
<1>2. CASE SweepOrphanedDrafts(Owner[Device])
  <2> DEFINE due == {s \in Slots : Owner[s] = Owner[Device] /\ DraftIsDue(drafts[s], clock)}
  <2>1. due \in SUBSET Slots /\ \A s \in due : DraftIsDue(drafts[s], clock)
    OBVIOUS
  <2>2. Sweep(due)
    BY <1>2 DEF SweepOrphanedDrafts
  <2> HIDE DEF due
  <2>3. QED
    BY <2>1, <2>2, SweepSweeps
<1>3. QED
  BY <1>1, <1>2

(* The janitor and a page that loads take only what has gone cold.         *)
LEMMA SweptRests ==
  ASSUME WriterInv, NEW t \in Tabs, KeptInv(t), Swept
  PROVE  Joining(t)
<1>1. CASE UNCHANGED <<drafts, entries>>
  BY <1>1 DEF Joining
<1>2. ASSUME DraftIsDue(drafts[Device], clock),
             \A e \in Ids : entries'[e] # entries[e] =>
               /\ e = drafts[Device].entry /\ entries[e] = NULL
               /\ entries'[e].body = drafts[Device].body
      PROVE  Joining(t)
  <2> SUFFICES ASSUME NEW e \in Ids \ adrift, entries'[e] # entries[e]
               PROVE  /\ entries[e] = NULL /\ e <= minted
                      /\ finished[e] # NULL => entries'[e].body = finished[e]
                      /\ finished[e] = NULL =>
                           /\ \A i \in 0 .. Len(calls) : copies[i] # NULL /\ copies[i].entry = e =>
                                Cold(copies[i], clock) /\ copies[i].body = entries'[e].body
                           /\ current[t] # NULL /\ current[t].entry = e =>
                                Cold(current[t], clock) /\ current[t].body = entries'[e].body
    BY DEF Joining
  <2> DEFINE d == copies[0]
  <2>1. 0 \in 0 .. Len(calls) /\ d = drafts[Device] /\ Len(calls) \in Nat
    BY LineTyped DEF copies
  <2>2. d # NULL /\ d.finalizeAt <= clock /\ d.finalizeAt >= d.clientTime + FinishAfter
        /\ d.finalizeAt # NULL
    BY <1>2, <2>1 DEF DraftIsDue, KeptInv, Deadline
  <2>3. d.finalizeAt \in Nat /\ d.clientTime \in Nat /\ clock \in Nat
    BY <2>1, <2>2, LineTyped DEF WriterInv, IInv, TypeOK, Draft, Times
  <2>4. Cold(d, clock)
    BY <2>2, <2>3 DEF Cold
  <2>5. e = d.entry /\ entries[e] = NULL /\ entries'[e].body = d.body
    BY <1>2, <2>1
  <2> HIDE DEF d
  <2>6. e <= minted
    BY <2>1, <2>2, <2>5 DEF KeptInv, Known, KnownAs, d
  <2>7. finished[e] # NULL => entries'[e].body = finished[e]
    BY <2>1, <2>2, <2>4, <2>5 DEF KeptInv, LineOK, Followed, Live, d
  <2>8. ASSUME NEW i \in 0 .. Len(calls), copies[i] # NULL, copies[i].entry = e
        PROVE  Cold(copies[i], clock) /\ copies[i].body = entries'[e].body
    <3>1. CASE i = 0
      BY <2>4, <2>5, <3>1 DEF d
    <3>2. CASE i # 0
      <4>1. 0 < i
        BY <2>1, <3>2
      <4>2. Follows(d, copies[i], clock)
        BY <2>1, <2>2, <2>5, <2>8, <4>1 DEF KeptInv, LineOK, InOrder, Live, d
      <4>3. QED
        BY <2>4, <2>5, <4>2 DEF Follows, Same, Cold
    <3>3. QED
      BY <3>1, <3>2
  <2>9. ASSUME current[t] # NULL, current[t].entry = e
        PROVE  Cold(current[t], clock) /\ current[t].body = entries'[e].body
    <3>1. page[t] = "open"
      BY <2>9 DEF WriterInv, ClientOK
    <3>2. Follows(d, current[t], clock)
      BY <2>1, <2>2, <2>5, <2>9, <3>1 DEF KeptInv, LineOK, Behind, Live, d
    <3>3. QED
      BY <2>4, <2>5, <3>2 DEF Follows, Same, Cold
  <2>10. QED
    BY <2>5, <2>6, <2>7, <2>8, <2>9
<1>3. QED
  BY <1>1, <1>2 DEF Swept

(* The server took the commit of what it no longer holds.                  *)
LEMMA TakenMoves ==
  ASSUME WriterInv, Len(calls)' = Len(calls), NEW i \in 1 .. Len(calls),
         \A j \in 1 .. Len(calls) : copies'[j] = copies[j],
         \A k \in 1 .. Len(calls) : k # i => takes'[k] = takes[k] /\ clears'[k] = clears[k],
         \A k \in 1 .. i - 1 : copies[k] = NULL, copies[i] = NULL,
         copies'[0] # NULL =>
           copies[0] # NULL /\ Same(copies'[0], copies[0]) /\ copies'[0].entry \notin clears[i]
  PROVE  \E m : LineMoves(m)
<1>1. Len(calls) \in Nat
  BY LineTyped
<1> DEFINE m == [j \in 0 .. Len(calls)' |-> j]
<1>2. m \in [0 .. Len(calls)' -> 0 .. Len(calls)] /\ \A j \in 0 .. Len(calls)' : m[j] = j
  OBVIOUS
<1> HIDE DEF m
<1>3. ASSUME NEW j \in 0 .. Len(calls)', copies'[j] # NULL
      PROVE  copies[j] # NULL /\ Same(copies'[j], copies[j])
  BY <1>1, <1>3 DEF Same
<1>4. ASSUME NEW j \in 0 .. Len(calls)', copies'[j] # NULL,
             NEW k \in m[j] .. Len(calls), Live(copies[k])
      PROVE  \E l \in j .. Len(calls)' : copies'[l] # NULL /\ Same(copies'[l], copies[k])
  <2>1. CASE k = j
    BY <1>1, <1>2, <1>3, <1>4, <2>1 DEF Live
  <2>2. CASE k # j
    <3>1. k \in 1 .. Len(calls) /\ k \in j .. Len(calls)'
      BY <1>1, <1>2, <1>4, <2>2
    <3>2. QED
      BY <1>4, <3>1 DEF Same, Live
  <2>3. QED
    BY <2>1, <2>2
<1>5. ASSUME NEW j \in 0 .. Len(calls)', copies'[j] # NULL,
             NEW k \in m[j] + 1 .. Len(calls), copies'[j].entry \in clears[k]
      PROVE  /\ k \in j + 1 .. Len(calls)' /\ copies'[j].entry \in clears'[k]
             /\ takes'[k] = takes[k]
  <2>1. k \in j + 1 .. Len(calls)' /\ k \in 1 .. Len(calls)
    BY <1>1, <1>2, <1>5
  <2>2. ASSUME k = i
        PROVE  FALSE
    <3>1. j # 0 => j \in 1 .. i - 1
      BY <1>1, <2>1, <2>2
    <3>2. j = 0
      BY <1>3, <1>5, <3>1
    <3>3. QED
      BY <1>5, <2>2, <3>2
  <2>3. QED
    BY <1>5, <2>1, <2>2
<1>6. \A j \in 0 .. Len(calls)', l \in 0 .. Len(calls)' : j < l => m[j] < m[l]
  BY <1>2
<1>7. ASSUME NEW j \in 0 .. Len(calls)', copies'[j] # NULL,
             NEW k \in m[j] + 1 .. Len(calls), copies'[j].entry \in clears[k]
      PROVE  \E l \in j + 1 .. Len(calls)' :
               /\ copies'[j].entry \in clears'[l]
               /\ copies'[j].entry \in takes[k] => copies'[j].entry \in takes'[l]
               /\ \A b \in 0 .. Len(calls)' : copies'[b] # NULL /\ k < m[b] => l < b
  <2>1. /\ k \in j + 1 .. Len(calls)' /\ copies'[j].entry \in clears'[k]
        /\ takes'[k] = takes[k]
    BY <1>5, <1>7
  <2>2. \A b \in 0 .. Len(calls)' : k < m[b] => k < b
    BY <1>2
  <2>3. QED
    BY <2>1, <2>2
<1>8. LineMoves(m)
  BY <1>2, <1>3, <1>4, <1>6, <1>7 DEF LineMoves
<1>9. QED
  BY <1>8
-----------------------------------------------------------------------------
(* The steps that leave the session as it is, or at an end.                *)
LEMMA RestingKept ==
  ASSUME WriterInv, CallsOK', NEW t \in Tabs, KeptInv(t), UNCHANGED <<clock, finished, minted, adrift>>,
         SessionRests(t), Joining(t), \E m : LineMoves(m), Handed', Deadline', Boots(t)'
  PROVE  KeptInv(t)'
BY RestingStep DEF KeptInv

LEMMA NotBooting ==
  ASSUME WriterInv, NEW t \in Tabs, KeptInv(t), calls # <<>>
  PROVE  page[t] # "booting"
BY DEF KeptInv, Boots

LEMMA FlushKept ==
  ASSUME WriterInv, NEW t \in Tabs, KeptInv(t), FlushUnsynced(t)
  PROVE  KeptInv(t)'
<1> DEFINE c == FlushCall(t, Pending)
<1>1. Pending \in SUBSET Plain /\ \A p \in Pending : Carries(p.entry, p.body)
  <2> SUFFICES ASSUME NEW p \in Pending
               PROVE  p \in Plain /\ Carries(p.entry, p.body)
    OBVIOUS
  <2>1. PICK e \in Unsynced :
          p = [entry |-> e, journal |-> store[e].row.journal, body |-> store[e].row.body,
               loc |-> store[e].row.loc, clientTime |-> store[e].row.clientTime]
    BY DEF Pending
  <2>2. e \in Ids /\ store[e] # NULL /\ ~store[e].synced /\ store[e].row \in Rows
    BY <2>1 DEF Unsynced, WriterInv, ClientOK
  <2>3. Carries(e, store[e].row.body)
    BY <2>2 DEF KeptInv, Handed
  <2>4. p \in Plain
    BY <2>1, <2>2 DEF Rows, LocalRow, Plain, Requests, Locations
  <2>5. QED
    BY <2>1, <2>3, <2>4
<1>2. /\ c \in Calls /\ c.reply = NULL /\ c.kind = "commit"
      /\ c.load \in Pending /\ c.rest \subseteq Pending
  BY <1>1, FlushSends DEF FlushUnsynced
<1>3. page[t] = "open" /\ calls' = Append(calls, c) /\ UNCHANGED <<client, server>>
  BY DEF FlushUnsynced, Send
<1> HIDE DEF c
<1>4. /\ UNCHANGED <<page, seen, current, unposted, store, minted, finished, adrift>>
      /\ UNCHANGED <<drafts, entries, clock>>
  BY <1>3 DEF client, server
<1>5. Alike(calls)
  BY AlikeCalls
<1>6. /\ CallsOK' /\ Len(calls) \in Nat /\ Len(calls)' = Len(calls) + 1
      /\ copies'[0] = drafts'[Device]
      /\ \A i \in 1 .. Len(calls) :
           copies'[i] = copies[i] /\ takes'[i] = takes[i] /\ clears'[i] = clears[i]
      /\ copies'[Len(calls) + 1] = NULL
      /\ \A i \in 1 .. Len(calls) :
           /\ calls'[i].kind = calls[i].kind /\ calls'[i].load = calls[i].load
           /\ calls'[i].rest = calls[i].rest
      /\ calls'[Len(calls) + 1] = c
  BY <1>2, <1>3, <1>5, LineOfSent
<1>7. \E m : LineMoves(m)
  <2>1. copies'[0] = copies[0]
    BY <1>4, <1>6 DEF copies
  <2>2. \A i \in Len(calls) + 1 .. Len(calls)' : copies'[i] = NULL
    BY <1>6
  <2>3. QED
    BY <1>6, <2>1, <2>2, StandingMoves DEF Same
<1>8. Joining(t) /\ SessionRests(t)
  BY <1>4 DEF Joining, SessionRests
<1>9. Handed'
  <2>1. ASSUME NEW i \in 1 .. Len(calls)', calls'[i].kind = "commit"
        PROVE  /\ Carries(calls'[i].load.entry, calls'[i].load.body)
               /\ \A p \in calls'[i].rest : Carries(p.entry, p.body)
    <3>1. CASE i = Len(calls) + 1
      BY <1>1, <1>2, <1>6, <3>1
    <3>2. CASE i # Len(calls) + 1
      BY <1>6, <2>1, <3>2 DEF KeptInv, Handed
    <3>3. QED
      BY <3>1, <3>2
  <2>2. QED
    BY <1>4, <2>1 DEF KeptInv, Handed, Carries, Unfit
<1>10. Deadline' /\ Boots(t)'
  BY <1>3, <1>4 DEF KeptInv, Deadline, Boots
<1>11. QED
  BY <1>4, <1>6, <1>7, <1>8, <1>9, <1>10, RestingKept

LEMMA MergeKept ==
  ASSUME WriterInv, NEW t \in Tabs, KeptInv(t), MergeEntries(t)
  PROVE  KeptInv(t)'
<1>1. /\ page[t] = "open" /\ UNCHANGED <<page, seen, current, unposted, minted, finished, adrift, calls>>
      /\ UNCHANGED <<drafts, entries, clock>>
      /\ \A e \in Ids : store'[e] = store[e] \/ store'[e].synced
  BY DEF MergeEntries, server
<1>2. Alike(calls')
  BY <1>1, AlikeCalls
<1>3. /\ CallsOK' /\ CommitsMove
      /\ Len(calls) \in Nat /\ Len(calls)' = Len(calls) /\ copies'[0] = drafts'[Device]
      /\ \A i \in 1 .. Len(calls) :
           copies'[i] = copies[i] /\ takes'[i] = takes[i] /\ clears'[i] = clears[i]
  BY <1>2, LineOfAlike
<1>4. \E m : LineMoves(m)
  <2>1. copies'[0] = copies[0]
    BY <1>1, <1>3 DEF copies
  <2>2. QED
    BY <1>3, <2>1, StandingMoves DEF Same
<1>5. Joining(t) /\ SessionRests(t)
  BY <1>1 DEF Joining, SessionRests
<1>6. Handed'
  BY <1>1, <1>3, HandedStays DEF KeptInv
<1>7. Deadline' /\ Boots(t)'
  BY <1>1 DEF KeptInv, Deadline, Boots
<1>8. QED
  BY <1>1, <1>3, <1>4, <1>5, <1>6, <1>7, RestingKept

(* The slot that is left of a sweep.                                       *)
LEMMA SweptSlot ==
  ASSUME WriterInv, NEW t \in Tabs, KeptInv(t), Swept, UNCHANGED <<clock, calls>>
  PROVE  CallsOK' /\ CommitsMove /\ Deadline' /\ \E m : LineMoves(m)
<1>1. Alike(calls')
  BY AlikeCalls
<1>2. /\ CallsOK' /\ CommitsMove
      /\ Len(calls) \in Nat /\ Len(calls)' = Len(calls) /\ copies'[0] = drafts'[Device]
      /\ \A i \in 1 .. Len(calls) :
           copies'[i] = copies[i] /\ takes'[i] = takes[i] /\ clears'[i] = clears[i]
  BY <1>1, LineOfAlike
<1>3. drafts'[Device] = drafts[Device] \/ drafts'[Device] = NULL
  BY DEF Swept
<1>4. copies'[0] # NULL => copies'[0] = copies[0]
  BY <1>2, <1>3 DEF copies
<1>5. Deadline'
  BY <1>3 DEF KeptInv, Deadline
<1>6. QED
  BY <1>2, <1>4, <1>5, StandingMoves DEF Same

LEMMA JanitorKept ==
  ASSUME WriterInv, NEW t \in Tabs, KeptInv(t), Janitor
  PROVE  KeptInv(t)'
<1>1. Swept /\ UNCHANGED <<clock, client, calls>>
  BY SweepersSweep DEF Janitor
<1>2. UNCHANGED <<page, seen, current, unposted, store, minted, finished, adrift>>
  BY <1>1 DEF client
<1>3. CallsOK' /\ CommitsMove /\ Deadline' /\ \E m : LineMoves(m)
  BY <1>1, SweptSlot
<1>4. Joining(t) /\ SessionRests(t)
  BY <1>1, <1>2, SweptRests DEF SessionRests
<1>5. Handed'
  BY <1>2, <1>3, HandedStays DEF KeptInv
<1>6. Boots(t)'
  BY <1>1, <1>2 DEF KeptInv, Boots, Swept
<1>7. QED
  BY <1>1, <1>2, <1>3, <1>4, <1>5, <1>6, RestingKept

LEMMA OpenKept ==
  ASSUME WriterInv, WriterInv', Net = "prompt", NEW t \in Tabs, KeptInv(t), OpenPage(t)
  PROVE  KeptInv(t)'
<1>1. /\ page[t] = "closed" /\ calls = <<>>
      /\ page' = [page EXCEPT ![t] = "booting"] /\ seen' = [seen EXCEPT ![t] = drafts'[Device]]
      /\ UNCHANGED <<current, unposted, store, minted, finished, adrift, calls>>
  BY DEF OpenPage
<1>2. page'[t] = "booting" /\ seen'[t] = drafts'[Device] /\ current'[t] = NULL
  BY <1>1 DEF WriterInv, ClientOK
<1>3. Swept /\ UNCHANGED clock
  BY SweepersSweep DEF OpenPage, server, Swept
<1>4. ~DraftIsDue(drafts'[Device], clock)
  <2>1. CASE SweepOrphanedDrafts(Owner[Device])
    <3> DEFINE due == {s \in Slots : Owner[s] = Owner[Device] /\ DraftIsDue(drafts[s], clock)}
    <3>1. Sweep(due)
      BY <2>1 DEF SweepOrphanedDrafts
    <3>2. PICK s \in due : TRUE
      BY <3>1 DEF Sweep
    <3>3. s = Device /\ DraftIsDue(drafts[Device], clock)
      BY <3>2 DEF DraftIsDue, WriterInv, SlotOK
    <3>4. \A r \in due : ~Throws(drafts[r])
      BY DEF DraftIsDue, WriterInv, SlotOK, Throws
    <3>5. Device \in due
      BY <3>3
    <3> HIDE DEF due
    <3>6. drafts'[Device] = NULL
      BY <3>1, <3>4, <3>5 DEF Sweep, Finalize, Emptied
    <3>7. QED
      BY <3>6 DEF DraftIsDue
  <2>2. CASE ~DraftIsDue(drafts[Device], clock) /\ UNCHANGED server
    BY <2>2 DEF server
  <2>3. QED
    BY <2>1, <2>2 DEF OpenPage
<1>5. CallsOK' /\ CommitsMove /\ Deadline' /\ \E m : LineMoves(m)
  BY <1>1, <1>3, SweptSlot
<1>6. Joining(t) /\ SessionRests(t)
  BY <1>2, <1>3, SweptRests DEF SessionRests
<1>7. Handed'
  BY <1>1, <1>5, HandedStays DEF KeptInv
<1>8. Boots(t)'
  BY <1>1, <1>2, <1>3, <1>4 DEF Boots
<1>9. QED
  BY <1>1, <1>3, <1>5, <1>6, <1>7, <1>8, RestingKept

(* A page that goes leaves its requests, and perhaps one more behind.      *)
LEMMA GoneKept ==
  ASSUME WriterInv, NEW t \in Tabs, KeptInv(t), Leave(t), UNCHANGED <<minted, finished, adrift, server>>,
         \/ calls' = Orphaned(t)
         \/ \E c \in Calls : c.kind = "pagehide" /\ c.reply = NULL /\ calls' = Append(Orphaned(t), c),
         \A e \in Ids : store'[e] = store[e] \/ store'[e] = NULL
  PROVE  KeptInv(t)'
<1>1. page'[t] = "closed" /\ current'[t] = NULL /\ UNCHANGED <<drafts, entries, clock>>
  BY DEF Leave, WriterInv, ClientOK, server
<1>2. Alike(Orphaned(t))
  BY AlikeCalls
<1>3. /\ CallsOK' /\ CommitsMove
      /\ Len(calls) \in Nat /\ Len(calls)' \in {Len(calls), Len(calls) + 1}
      /\ copies'[0] = drafts'[Device]
      /\ \A i \in 1 .. Len(calls) :
           copies'[i] = copies[i] /\ takes'[i] = takes[i] /\ clears'[i] = clears[i]
      /\ Len(calls)' = Len(calls) + 1 => copies'[Len(calls) + 1] = NULL
  <2>1. CASE calls' = Orphaned(t)
    <3>1. Alike(calls')
      BY <1>2, <2>1
    <3>2. QED
      BY <3>1, LineOfAlike
  <2>2. ASSUME NEW c \in Calls, c.kind = "pagehide", c.reply = NULL,
               calls' = Append(Orphaned(t), c)
        PROVE  /\ CallsOK' /\ CommitsMove
               /\ Len(calls) \in Nat /\ Len(calls)' = Len(calls) + 1
               /\ copies'[0] = drafts'[Device]
               /\ \A i \in 1 .. Len(calls) :
                    copies'[i] = copies[i] /\ takes'[i] = takes[i] /\ clears'[i] = clears[i]
               /\ copies'[Len(calls) + 1] = NULL
    BY <1>2, <2>2, LineOfSent
  <2>3. QED
    BY <2>1, <2>2
<1>4. \E m : LineMoves(m)
  <2>1. copies'[0] = copies[0]
    BY <1>1, <1>3 DEF copies
  <2>2. \A i \in Len(calls) + 1 .. Len(calls)' : copies'[i] = NULL
    BY <1>3
  <2>3. Len(calls)' \in Nat /\ Len(calls)' >= Len(calls)
    BY <1>3
  <2>4. QED
    BY <1>3, <2>1, <2>2, <2>3, StandingMoves DEF Same
<1>5. Joining(t) /\ SessionRests(t)
  BY <1>1 DEF Joining, SessionRests
<1>6. Handed'
  BY <1>3, HandedStays DEF KeptInv
<1>7. Deadline' /\ Boots(t)'
  BY <1>1 DEF KeptInv, Deadline, Boots
<1>8. QED
  BY <1>1, <1>3, <1>4, <1>5, <1>6, <1>7, RestingKept

(* Scratch arrives. It is of the entry in the slot, or the slot is empty:  *)
(* nothing is displaced, and nothing is refused as stale; unless the one   *)
(* that is displaced or refused has gone adrift.                           *)
LEMMA PutServedKept ==
  ASSUME WriterInv, Net = "prompt", NEW t \in Tabs, KeptInv(t), NEW i \in DOMAIN calls, ServePut(i)
  PROVE  KeptInv(t)'
<1>1. calls' = RemoveAt(calls, i) /\ UNCHANGED client /\ Serveable(i)
  BY DEF ServePut, Drop
<1>2. UNCHANGED <<page, seen, current, unposted, store, minted, finished, adrift>>
  BY <1>1 DEF client
<1>3. CallsOK' /\ CommitsMove /\ Len(calls) \in Nat /\ i \in 1 .. Len(calls)
      /\ copies'[0] = drafts'[Device]
  BY <1>1, LineOfRemoved
<1>4. page[t] # "booting"
  BY <1>3, NotBooting
<1>5. \A k \in 1 .. i - 1 : copies[k] = NULL /\ takes[k] = {} /\ clears[k] = {}
  BY <1>1, FirstServed
<1>6. i \in 0 .. Len(calls) /\ 0 \in 0 .. Len(calls) /\ i # 0 /\ 0 < i
  BY <1>3
<1>7. Handed'
  BY <1>2, <1>3, HandedStays DEF KeptInv
<1>8. SessionRests(t) /\ Boots(t)'
  BY <1>2, <1>4 DEF SessionRests, Boots
<1>9. CASE calls[i].kind = "pagehide"
  <2>1. UNCHANGED <<drafts, entries, clock>>
    BY <1>9 DEF ServePut, server
  <2>2. copies[i] = NULL /\ clears[i] = {}
    BY <1>3, <1>6, <1>9 DEF copies, clears, takes
  <2>3. copies'[0] = copies[0]
    BY <1>3, <2>1 DEF copies
  <2>4. \E m : LineMoves(m)
    BY <1>1, <2>2, <2>3, RemovedMoves DEF Same, Live
  <2>5. Joining(t) /\ Deadline'
    BY <2>1 DEF Joining, KeptInv, Deadline
  <2>6. QED
    BY <1>2, <1>3, <1>7, <1>8, <2>1, <2>4, <2>5, RestingKept
<1>10. CASE calls[i].kind = "put"
  <2> DEFINE p == calls[i].load
             d == drafts[Device]
  <2>1. copies[i] = p /\ copies[0] = d /\ p # NULL /\ p.entry \in Ids
    <3>1. p \in Plain
      BY CallsAre DEF WriterInv, Calls
    <3>2. QED
      BY <1>6, <1>10, <3>1, PlainRow DEF copies
  <2>2. /\ d # NULL /\ d.entry # p.entry => d.entry \in adrift
        /\ d # NULL /\ d.entry = p.entry /\ p.entry \notin adrift => d.clientTime <= p.clientTime
    <3>1. Live(d) => IF d.entry = p.entry THEN Follows(d, p, clock)
                     ELSE \E k \in 0 + 1 .. i - 1 : d.entry \in clears[k]
      BY <1>6, <2>1 DEF KeptInv, LineOK, InOrder
    <3>2. ~\E k \in 0 + 1 .. i - 1 : d.entry \in clears[k]
      BY <1>5
    <3>3. QED
      BY <3>1, <3>2 DEF Follows, Live
  <2>3. /\ p.clientTime \in Nat /\ p.clientTime <= clock /\ clock \in Nat
        /\ d # NULL => d.clientTime \in Nat
        /\ p.entry \notin adrift => p.body \notin Unfit
    BY <1>6, <2>1, LineTyped DEF KeptInv, Known, KnownAs
  <2>4. CASE UNCHANGED server /\ (p.body \in Unfit \/ Stale(d, p))
    <3>1. p.entry \in adrift
      BY <2>2, <2>3, <2>4 DEF Stale
    <3>2. copies'[0] = copies[0] /\ UNCHANGED <<drafts, entries, clock>>
      BY <1>3, <2>1, <2>4 DEF server
    <3>3. ~Live(copies[i]) /\ clears[i] = {}
      BY <1>3, <1>10, <2>1, <3>1 DEF Live, clears, takes
    <3>4. \E m : LineMoves(m)
      BY <1>1, <3>2, <3>3, RemovedMoves DEF Same
    <3>5. Joining(t) /\ Deadline'
      BY <3>2 DEF Joining, KeptInv, Deadline
    <3>6. QED
      BY <1>2, <1>3, <1>7, <1>8, <3>2, <3>4, <3>5, RestingKept
  <2>5. CASE PutCurrent(Device, p, FinishAfter)
    <3>1. Displaced(Device, p) \subseteq {Device} /\ \A s \in Displaced(Device, p) : ~Throws(drafts[s])
      BY DEF Displaced, Throws, WriterInv, SlotOK
    <3>2. /\ entries' = Finalized(Displaced(Device, p)) /\ UNCHANGED clock
          /\ drafts' = [drafts EXCEPT ![Device] =
               [entry |-> p.entry, journal |-> p.journal, body |-> p.body, loc |-> p.loc,
                clientTime |-> p.clientTime, receivedAt |-> clock,
                finalizeAt |-> clock + FinishAfter]]
      <4>1. ~(Displaced(Device, p) # {} /\ Throws(drafts[Device]))
        BY <3>1
      <4>2. QED
        BY <2>5, <4>1 DEF PutCurrent
    <3>3. Joining(t)
      <4> SUFFICES ASSUME NEW e \in Ids \ adrift
                   PROVE  entries'[e] = entries[e]
        BY DEF Joining
      <4>1. SlotOf[e] \in Displaced(Device, p) => d # NULL /\ d.entry # p.entry /\ SlotOf[e] = Device
        BY DEF Displaced
      <4>2. ~(SlotOf[e] \in Displaced(Device, p) /\ drafts[SlotOf[e]].entry = e)
        BY <2>2, <4>1
      <4>3. QED
        BY <3>2, <4>2 DEF Finalized
    <3>4. Device \in DOMAIN drafts
      BY DEF WriterInv, IInv, TypeOK
    <3>5. drafts'[Device] =
             [entry |-> p.entry, journal |-> p.journal, body |-> p.body, loc |-> p.loc,
              clientTime |-> p.clientTime, receivedAt |-> clock,
              finalizeAt |-> clock + FinishAfter]
      BY <3>2, <3>4
    <3>6. Same(copies'[0], copies[i])
      BY <1>3, <2>1, <3>5 DEF Same
    <3>7. Deadline'
      <4>1. clock + FinishAfter \in Nat /\ clock + FinishAfter >= p.clientTime + FinishAfter
        BY <2>3
      <4>2. drafts'[Device].finalizeAt = clock + FinishAfter
            /\ drafts'[Device].clientTime = p.clientTime
        BY <3>5
      <4>3. QED
        BY <4>1, <4>2 DEF Deadline
    <3>8. \E m : LineMoves(m)
      BY <1>1, <1>5, <1>6, <2>1, <3>6, RemovedMoves
    <3>9. QED
      BY <1>2, <1>3, <1>7, <1>8, <3>2, <3>3, <3>7, <3>8, RestingKept
  <2>6. QED
    BY <1>10, <2>4, <2>5 DEF ServePut
<1>11. QED
  BY <1>9, <1>10 DEF ServePut

(* The slot is let go of.                                                  *)
LEMMA DiscardServedKept ==
  ASSUME WriterInv, Net = "prompt", NEW t \in Tabs, KeptInv(t),
         NEW i \in DOMAIN calls, ServeDiscard(i)
  PROVE  KeptInv(t)'
<1>1. /\ calls' = RemoveAt(calls, i) /\ UNCHANGED client /\ Serveable(i)
      /\ calls[i].kind = "discard"
  BY DEF ServeDiscard, Drop
<1>2. UNCHANGED <<page, seen, current, unposted, store, minted, finished, adrift>>
  BY <1>1 DEF client
<1>3. CallsOK' /\ CommitsMove /\ Len(calls) \in Nat /\ i \in 1 .. Len(calls)
      /\ copies'[0] = drafts'[Device]
  BY <1>1, LineOfRemoved
<1>4. page[t] # "booting"
  BY <1>3, NotBooting
<1>5. drafts'[Device] = NULL /\ UNCHANGED <<entries, clock>>
  BY DEF ServeDiscard, DiscardDraft, server, WriterInv, IInv, TypeOK
<1>6. copies[i] = NULL
  BY <1>1, <1>3 DEF copies
<1>7. \A k \in 1 .. i - 1 : copies[k] = NULL /\ clears[k] = {}
  BY <1>1, FirstServed
<1>8. \E m : LineMoves(m)
  BY <1>1, <1>3, <1>5, <1>6, <1>7, RemovedMoves
<1>9. Joining(t) /\ Deadline' /\ SessionRests(t) /\ Boots(t)'
  BY <1>2, <1>4, <1>5 DEF Joining, Deadline, SessionRests, Boots
<1>10. Handed'
  BY <1>2, <1>3, HandedStays DEF KeptInv
<1>11. QED
  BY <1>2, <1>3, <1>5, <1>8, <1>9, <1>10, RestingKept

(* A request is another now, in its place: an answered commit, or the next *)
(* one of its flush.                                                       *)
LEMMA LineOfPlaced ==
  ASSUME WriterInv, NEW i \in DOMAIN calls, NEW c \in Calls, c.kind = "commit",
         calls[i].kind = "commit", calls' = [calls EXCEPT ![i] = c],
         c.load \in {calls[i].load} \cup calls[i].rest, c.rest \subseteq calls[i].rest
  PROVE  /\ CallsOK' /\ CommitsMove
         /\ Len(calls) \in Nat /\ i \in 1 .. Len(calls) /\ Len(calls)' = Len(calls)
         /\ copies'[0] = drafts'[Device]
         /\ \A j \in 1 .. Len(calls) :
              /\ copies'[j] = copies[j]
              /\ j # i => takes'[j] = takes[j] /\ clears'[j] = clears[j]
         /\ copies[i] = NULL
<1>1. /\ Len(calls) \in Nat /\ i \in 1 .. Len(calls) /\ Len(calls') = Len(calls)
      /\ CallsOK'
      /\ \A j \in 1 .. Len(calls) : calls'[j] = IF j = i THEN c ELSE calls[j]
  BY CallsAre, ExceptSeq, LenProperties DEF CallsOK, WriterInv
<1>2. copies'[0] = drafts'[Device]
  BY <1>1 DEF copies
<1>3. copies[i] = NULL /\ copies'[i] = NULL
  <2>1. i \in 0 .. Len(calls) /\ i # 0 /\ calls'[i] = c /\ i \in 0 .. Len(calls')
    BY <1>1
  <2>2. QED
    BY <2>1 DEF copies
<1>4. ASSUME NEW j \in 1 .. Len(calls), j # i
      PROVE  copies'[j] = copies[j] /\ takes'[j] = takes[j] /\ clears'[j] = clears[j]
  <2>1. j \in 1 .. Len(calls') /\ j \in 0 .. Len(calls') /\ j \in 0 .. Len(calls) /\ j # 0
        /\ calls'[j] = calls[j]
    BY <1>1, <1>4
  <2>2. takes'[j] = takes[j]
    BY <2>1 DEF takes
  <2>3. clears'[j] = clears[j]
    BY <2>1, <2>2 DEF clears
  <2>4. QED
    BY <2>1, <2>2, <2>3 DEF copies
<1>5. CommitsMove
  <2> SUFFICES ASSUME NEW j \in 1 .. Len(calls)', calls'[j].kind = "commit"
               PROVE  \E k \in 1 .. Len(calls) :
                        /\ calls[k].kind = "commit"
                        /\ calls'[j].load \in {calls[k].load} \cup calls[k].rest
                        /\ calls'[j].rest \subseteq calls[k].rest
    BY DEF CommitsMove
  <2>1. j \in 1 .. Len(calls) /\ calls'[j] = IF j = i THEN c ELSE calls[j]
    BY <1>1
  <2>2. QED
    BY <2>1
<1>6. QED
  BY <1>1, <1>2, <1>3, <1>4, <1>5

(* A commit is taken: the entry is in the journal, out of the slot, and as *)
(* it was finished.                                                        *)
LEMMA CommitTakenKept ==
  ASSUME WriterInv, Net = "prompt", NEW t \in Tabs, KeptInv(t),
         NEW i \in DOMAIN calls, TypeOK', SlotOK',
         Serveable(i), calls[i].kind = "commit", CommitEntry(Device, calls[i].load),
         calls' = [calls EXCEPT ![i].reply = entries'[calls[i].load.entry]], UNCHANGED client
  PROVE  KeptInv(t)'
<1> DEFINE p == calls[i].load
           c == [calls[i] EXCEPT !.reply = entries'[p.entry]]
<1>1. /\ CommitEntry(Device, p) /\ calls' = [calls EXCEPT ![i].reply = entries'[p.entry]]
      /\ UNCHANGED client /\ Serveable(i) /\ calls[i].kind = "commit"
  OBVIOUS
<1>2. UNCHANGED <<page, seen, current, unposted, store, minted, finished, adrift>>
  BY <1>1 DEF client
<1>3. calls[i] \in Calls /\ p \in Plain /\ p.entry \in Ids /\ p.body \in Bodies
      /\ calls[i].reply = NULL
  BY <1>1, CallsAre, PlainRow DEF WriterInv, Calls, Serveable
<1>4. entries'[p.entry] \in Answers \cup {NULL}
  BY <1>3, JournalRow DEF TypeOK, SlotOK, Answers
<1>5. /\ c \in Calls /\ c.kind = "commit" /\ c.load = calls[i].load /\ c.rest = calls[i].rest
      /\ calls' = [calls EXCEPT ![i] = c]
  BY <1>1, <1>3, <1>4 DEF Calls
<1> HIDE DEF c
<1>6. /\ CallsOK' /\ CommitsMove
      /\ Len(calls) \in Nat /\ i \in 1 .. Len(calls) /\ Len(calls)' = Len(calls)
      /\ copies'[0] = drafts'[Device]
      /\ \A j \in 1 .. Len(calls) :
           /\ copies'[j] = copies[j]
           /\ j # i => takes'[j] = takes[j] /\ clears'[j] = clears[j]
      /\ copies[i] = NULL
  BY <1>1, <1>5, LineOfPlaced
<1>7. clears[i] = {p.entry}
  BY <1>1, <1>3, <1>6 DEF clears, takes
<1>8. drafts'[Device] # NULL => drafts'[Device] = drafts[Device] /\ drafts[Device].entry # p.entry
  BY <1>1 DEF CommitEntry, ClearSlotFor, WriterInv, IInv, TypeOK
<1>9. \E m : LineMoves(m)
  <2>1. copies'[0] # NULL =>
          copies[0] # NULL /\ Same(copies'[0], copies[0]) /\ copies'[0].entry \notin clears[i]
    BY <1>6, <1>7, <1>8 DEF copies, Same
  <2>2. \A k \in 1 .. i - 1 : copies[k] = NULL
    BY <1>1, FirstServed
  <2>3. QED
    BY <1>6, <2>1, <2>2, TakenMoves
<1>10. p.entry \notin adrift => finished[p.entry] = p.body /\ finished[p.entry] # NULL
  <2>1. Carries(p.entry, p.body)
    BY <1>1, <1>6 DEF KeptInv, Handed
  <2>2. p.body # NULL
    BY <1>3, NullIsNoneOfThese
  <2>3. QED
    BY <2>1, <2>2 DEF Carries
<1>11. Joining(t)
  <2> SUFFICES ASSUME NEW e \in Ids \ adrift, entries'[e] # entries[e]
               PROVE  /\ entries[e] = NULL /\ e <= minted
                      /\ finished[e] # NULL /\ entries'[e].body = finished[e]
    BY DEF Joining
  <2>1. e = p.entry /\ entries[e] = NULL /\ entries'[e] = RowOf(p)
    BY <1>1, <1>3 DEF CommitEntry, WriterInv, IInv, TypeOK
  <2>2. e <= minted
    BY <1>10, <2>1, LineTyped DEF KeptInv, Unminted, WriterInv, ClientOK
  <2>3. QED
    BY <1>10, <2>1, <2>2 DEF RowOf
<1>12. Handed' /\ SessionRests(t) /\ Boots(t)'
  <2>1. Handed'
    BY <1>2, <1>6, HandedStays DEF KeptInv
  <2>2. page[t] # "booting"
    BY <1>6, NotBooting
  <2>3. QED
    BY <1>2, <2>1, <2>2 DEF SessionRests, Boots
<1>13. Deadline' /\ UNCHANGED clock
  BY <1>1, <1>8 DEF KeptInv, Deadline, CommitEntry
<1>14. QED
  BY <1>2, <1>6, <1>9, <1>11, <1>12, <1>13, RestingKept

(* ... or refused, and gone: it had gone adrift.                           *)
LEMMA CommitServedKept ==
  ASSUME WriterInv, Net = "prompt", NEW t \in Tabs, KeptInv(t),
         NEW i \in DOMAIN calls, ServeCommit(i), TypeOK', SlotOK'
  PROVE  KeptInv(t)'
<1> DEFINE p == calls[i].load
<1>1. Serveable(i) /\ calls[i].kind = "commit" /\ UNCHANGED client
  BY DEF ServeCommit
<1>2. CASE CommitEntry(Device, p) /\ calls' = [calls EXCEPT ![i].reply = entries'[p.entry]]
  BY <1>1, <1>2, CommitTakenKept
<1>3. CASE Refuses(p) /\ calls' = RemoveAt(calls, i) /\ UNCHANGED server
  <2>1. /\ UNCHANGED <<page, seen, current, unposted, store, minted, finished, adrift>>
        /\ UNCHANGED <<drafts, entries, clock>>
    BY <1>1, <1>3 DEF client, server
  <2>2. CallsOK' /\ CommitsMove /\ Len(calls) \in Nat /\ i \in 1 .. Len(calls)
        /\ copies'[0] = drafts'[Device]
    BY <1>3, LineOfRemoved
  <2>3. p.entry \in adrift
    BY <1>1, <1>3, <2>2 DEF KeptInv, Handed, Carries, Refuses, Unfit
  <2>4. i \in 0 .. Len(calls) /\ i # 0
    BY <2>2
  <2>5. ~Live(copies[i]) /\ takes[i] \subseteq adrift
    BY <1>1, <2>2, <2>3, <2>4 DEF Live, copies, takes
  <2>6. clears[i] \subseteq adrift
    BY <1>1, <2>2, <2>5 DEF clears
  <2>7. \A k \in 1 .. i - 1 : copies[k] = NULL /\ clears[k] = {}
    BY <1>1, FirstServed
  <2>8. copies'[0] = copies[0]
    BY <2>1, <2>2 DEF copies
  <2>9. \E m : LineMoves(m)
    BY <1>3, <2>5, <2>6, <2>7, <2>8, RemovedMoves DEF Same
  <2>10. Handed'
    BY <2>1, <2>2, HandedStays DEF KeptInv
  <2>11. page[t] # "booting"
    BY <2>2, NotBooting
  <2>12. Joining(t) /\ SessionRests(t) /\ Deadline' /\ Boots(t)'
    BY <2>1, <2>11 DEF Joining, SessionRests, KeptInv, Deadline, Boots
  <2>13. QED
    BY <2>1, <2>2, <2>9, <2>10, <2>12, RestingKept
<1>4. QED
  BY <1>2, <1>3 DEF ServeCommit, Drop

(* ... and answered.                                                       *)
LEMMA AnsweredKept ==
  ASSUME WriterInv, NEW t \in Tabs, KeptInv(t), NEW i \in DOMAIN calls, CommitAnswered(i)
  PROVE  KeptInv(t)'
<1> DEFINE c == calls[i]
           r == [row |-> c.reply, synced |-> TRUE]
<1>1. UNCHANGED <<page, seen, current, unposted, minted, finished, adrift>>
      /\ UNCHANGED <<drafts, entries, clock>>
  BY DEF CommitAnswered, server
<1>2. /\ c \in Calls /\ c.reply # NULL /\ c.load.entry \in Ids /\ c.kind = "commit"
      /\ Len(calls) \in Nat /\ i \in 1 .. Len(calls)
  BY CallsAre, PlainRow DEF CommitAnswered, WriterInv, RepliesMatch, Calls
<1>3. takes[i] = {} /\ clears[i] = {} /\ copies[i] = NULL
  <2>1. takes[i] = {}
    BY <1>2 DEF takes
  <2>2. i \in 0 .. Len(calls) /\ i # 0
    BY <1>2
  <2>3. QED
    BY <1>2, <2>1, <2>2 DEF clears, copies
<1>4. r.synced
  OBVIOUS
<1> HIDE DEF r
<1>5. UNCHANGED store \/ store' = [store EXCEPT ![c.load.entry] = r]
  BY DEF CommitAnswered, r
<1>6. \A e \in Ids : store'[e] = store[e] \/ store'[e].synced
  BY <1>2, <1>4, <1>5 DEF WriterInv, ClientOK
<1>7. CallsOK' /\ CommitsMove /\ \E m : LineMoves(m)
  <2>1. CASE calls' = RemoveAt(calls, i)
    <3>1. CallsOK' /\ CommitsMove /\ copies'[0] = drafts'[Device]
      BY <2>1, LineOfRemoved
    <3>2. copies'[0] = copies[0]
      BY <1>1, <1>2, <3>1 DEF copies
    <3>3. \E m : LineMoves(m)
      BY <1>3, <2>1, <3>2, RemovedMoves DEF Same, Live
    <3>4. QED
      BY <3>1, <3>3
  <2>2. CASE calls' # RemoveAt(calls, i)
    <3> DEFINE f == FlushCall(c.tab, c.rest)
    <3>1. calls' = [calls EXCEPT ![i] = f] /\ c.rest # {} /\ c.tab # NULL
      BY <2>2 DEF CommitAnswered, Drop
    <3>2. f \in Calls /\ f.kind = "commit" /\ f.load \in c.rest /\ f.rest \subseteq c.rest
      <4>1. c.rest \in SUBSET Plain /\ c.tab \in Tabs
        BY <1>2, <3>1 DEF Calls
      <4>2. \A u \in Tabs, rest \in SUBSET Plain :
              rest # {} =>
                /\ FlushCall(u, rest) \in Calls /\ FlushCall(u, rest).kind = "commit"
                /\ FlushCall(u, rest).load \in rest /\ FlushCall(u, rest).rest \subseteq rest
        BY FlushSends
      <4>3. QED
        BY <3>1, <4>1, <4>2
    <3> HIDE DEF f
    <3>3. /\ CallsOK' /\ CommitsMove /\ Len(calls)' = Len(calls)
          /\ copies'[0] = drafts'[Device]
          /\ \A j \in 1 .. Len(calls) :
               /\ copies'[j] = copies[j]
               /\ j # i => takes'[j] = takes[j] /\ clears'[j] = clears[j]
      BY <1>2, <3>1, <3>2, LineOfPlaced
    <3>4. copies'[0] = copies[0]
      BY <1>1, <1>2, <3>3 DEF copies
    <3>5. \E m : LineMoves(m)
      BY <1>2, <1>3, <3>3, <3>4, StandingMoves DEF Same
    <3>6. QED
      BY <3>3, <3>5
  <2>3. QED
    BY <2>1, <2>2
<1>8. Handed'
  BY <1>1, <1>6, <1>7, HandedStays DEF KeptInv
<1>9. page[t] # "booting"
  BY <1>2, NotBooting
<1>10. Joining(t) /\ SessionRests(t) /\ Deadline' /\ Boots(t)'
  BY <1>1, <1>9 DEF Joining, SessionRests, KeptInv, Deadline, Boots
<1>11. QED
  BY <1>1, <1>7, <1>8, <1>10, RestingKept

(* The session posts what it has: the new copy is the end of the line.     *)
LEMMA PostedKept ==
  ASSUME WriterInv, NEW t \in Tabs, KeptInv(t), current[t] # NULL,
         NEW s, Alike(s), NEW c \in Calls, c.kind = "put", c.reply = NULL, c.load = current[t],
         calls' = Append(s, c), UNCHANGED <<minted, finished, adrift, server>>,
         (page'[t] = "closed" /\ current'[t] = NULL) \/ UNCHANGED <<page, current>>,
         \A e \in Ids : store'[e] = store[e] \/ store'[e] = NULL
  PROVE  KeptInv(t)'
<1> DEFINE n == Len(calls) + 1
           x == current[t]
<1>1. UNCHANGED <<drafts, entries, clock>>
  BY DEF server
<1>2. /\ CallsOK' /\ CommitsMove /\ Len(calls) \in Nat /\ Len(calls)' = n
      /\ copies'[0] = drafts'[Device]
      /\ \A i \in 1 .. Len(calls) :
           copies'[i] = copies[i] /\ takes'[i] = takes[i] /\ clears'[i] = clears[i]
      /\ copies'[n] = x
  <2>1. /\ CallsOK' /\ CommitsMove /\ Len(calls) \in Nat /\ Len(calls)' = Len(calls) + 1
        /\ copies'[0] = drafts'[Device]
    BY LineOfSent
  <2>2. \A i \in 1 .. Len(calls) :
           copies'[i] = copies[i] /\ takes'[i] = takes[i] /\ clears'[i] = clears[i]
    BY LineOfSent
  <2>3. copies'[Len(calls) + 1] = c.load
    BY LineOfSent
  <2>4. QED
    BY <2>1, <2>2, <2>3
<1>3. \A i \in 0 .. Len(calls) : copies'[i] = copies[i]
  <2>1. copies'[0] = copies[0]
    BY <1>1, <1>2 DEF copies
  <2>2. QED
    BY <1>2, <2>1
<1>4. x.entry \in Ids /\ x.clientTime \in Nat /\ x # NULL /\ page[t] = "open"
  BY PlainRow DEF WriterInv, ClientOK, Plain, Requests
<1>5. KnownAs(x) /\ (x.entry \notin adrift => finished[x.entry] = NULL)
  BY DEF KeptInv, Known, Live
<1> HIDE DEF n, x
<1>6. ASSUME NEW i \in 0 .. Len(calls), Live(copies[i])
      PROVE  /\ i < n
             /\ IF copies[i].entry = x.entry THEN Follows(copies[i], x, clock)
                ELSE \E k \in i + 1 .. n - 1 : copies[i].entry \in clears'[k]
  <2>1. IF copies[i].entry = x.entry THEN Follows(copies[i], x, clock)
        ELSE \E k \in i + 1 .. Len(calls) : copies[i].entry \in clears[k]
    BY <1>4, <1>6 DEF KeptInv, LineOK, Behind, x
  <2>2. i < n /\ n - 1 = Len(calls)
    BY <1>2 DEF n
  <2>3. \A k \in i + 1 .. Len(calls) : clears'[k] = clears[k]
    BY <1>2
  <2>4. QED
    BY <2>1, <2>2, <2>3
<1>7. InOrder'
  <2> SUFFICES ASSUME NEW i \in 0 .. Len(calls)', NEW j \in 0 .. Len(calls)',
                      i < j, Live(copies'[i]), copies'[j] # NULL
               PROVE  IF copies'[i].entry = copies'[j].entry THEN Follows(copies'[i], copies'[j], clock')
                      ELSE \E k \in i + 1 .. j - 1 : copies'[i].entry \in clears'[k]
    BY DEF InOrder, Live
  <2>1. i \in 0 .. Len(calls) /\ copies'[i] = copies[i]
    BY <1>2, <1>3 DEF n
  <2>2. CASE j = n
    BY <1>1, <1>2, <1>6, <2>1, <2>2
  <2>3. CASE j # n
    <3>1. j \in 0 .. Len(calls) /\ copies'[j] = copies[j]
      BY <1>2, <1>3, <2>3 DEF n
    <3>2. IF copies[i].entry = copies[j].entry THEN Follows(copies[i], copies[j], clock)
          ELSE \E k \in i + 1 .. j - 1 : copies[i].entry \in clears[k]
      BY <2>1, <3>1 DEF KeptInv, LineOK, InOrder
    <3>3. \A k \in i + 1 .. j - 1 : clears'[k] = clears[k]
      BY <1>2, <2>1, <3>1
    <3>4. QED
      BY <1>1, <2>1, <3>1, <3>2, <3>3
  <2>4. QED
    BY <2>2, <2>3
<1>8. Followed'
  <2> SUFFICES ASSUME NEW i \in 0 .. Len(calls)', Live(copies'[i]),
                      finished[copies'[i].entry] # NULL
               PROVE  /\ \E k \in i + 1 .. Len(calls)' : copies'[i].entry \in takes'[k]
                      /\ Cold(copies'[i], clock) => copies'[i].body = finished[copies'[i].entry]
    BY <1>1 DEF Followed, Live
  <2>1. i # n
    BY <1>2, <1>5 DEF Live
  <2>2. i \in 0 .. Len(calls) /\ copies'[i] = copies[i]
    BY <1>2, <1>3, <2>1 DEF n
  <2>3. /\ \E k \in i + 1 .. Len(calls) : copies[i].entry \in takes[k]
        /\ Cold(copies[i], clock) => copies[i].body = finished[copies[i].entry]
    BY <2>2 DEF KeptInv, LineOK, Followed
  <2>4. \A k \in i + 1 .. Len(calls) : k \in i + 1 .. Len(calls)' /\ takes'[k] = takes[k]
    BY <1>2, <2>2 DEF n
  <2>5. QED
    BY <2>2, <2>3, <2>4
<1>9. Behind(t)' /\ Posted(t)'
  <2>1. CASE page'[t] = "closed" /\ current'[t] = NULL
    BY <2>1 DEF Behind, Posted
  <2>2. ASSUME UNCHANGED <<page, current>>
        PROVE  Behind(t)' /\ Posted(t)'
    <3>1. current'[t] = x /\ n \in 0 .. Len(calls)'
      BY <1>2, <2>2 DEF x, n
    <3>2. ASSUME NEW i \in 0 .. Len(calls)', Live(copies'[i])
          PROVE  IF copies'[i].entry = x.entry THEN Follows(copies'[i], x, clock')
                 ELSE \E k \in i + 1 .. Len(calls)' : copies'[i].entry \in clears'[k]
      <4>1. CASE i = n
        BY <1>1, <1>2, <1>4, <4>1 DEF Follows, Same
      <4>2. CASE i # n
        <5>1. i \in 0 .. Len(calls) /\ copies'[i] = copies[i]
          BY <1>2, <1>3, <4>2 DEF n
        <5>2. \A k \in i + 1 .. n - 1 : k \in i + 1 .. Len(calls)'
          BY <1>2, <5>1 DEF n
        <5>3. QED
          BY <1>1, <1>6, <3>2, <5>1, <5>2
      <4>3. QED
        BY <4>1, <4>2
    <3>3. Behind(t)'
      BY <1>4, <3>1, <3>2 DEF Behind, Live
    <3>4. ASSUME NEW i \in 0 .. Len(calls)'
          PROVE  \E j \in i .. Len(calls)' : copies'[j] # NULL /\ Same(copies'[j], x)
      <4>1. n \in i .. Len(calls)'
        BY <1>2, <3>1
      <4>2. QED
        BY <1>2, <1>4, <4>1 DEF Same
    <3>5. Posted(t)'
      BY <3>1, <3>4 DEF Posted
    <3>6. QED
      BY <3>3, <3>5
  <2>3. QED
    BY <2>1, <2>2
<1>10. Known(t)'
  <2>1. ASSUME NEW i \in 0 .. Len(calls)', copies'[i] # NULL
        PROVE  KnownAs(copies'[i])
    <3>1. CASE i = n
      BY <1>2, <1>5, <3>1
    <3>2. CASE i # n
      <4>1. i \in 0 .. Len(calls) /\ copies'[i] = copies[i]
        BY <1>2, <1>3, <3>2 DEF n
      <4>2. QED
        BY <2>1, <4>1 DEF KeptInv, Known
    <3>3. QED
      BY <3>1, <3>2
  <2>2. current'[t] # NULL => current'[t] = x
    BY DEF x
  <2>3. QED
    BY <1>1, <1>5, <2>1, <2>2 DEF Known, KnownAs, Cold, Unfit, Live
<1>11. Unminted' /\ FinishedIsKept' /\ Deadline'
  BY <1>1 DEF KeptInv, Unminted, FinishedIsKept, Deadline
<1>12. Handed'
  BY <1>2, HandedStays DEF KeptInv
<1>13. Boots(t)'
  BY <1>4 DEF Boots
<1>14. QED
  BY <1>7, <1>8, <1>9, <1>10, <1>11, <1>12, <1>13 DEF KeptInv, LineOK

LEMMA PostDraftKept ==
  ASSUME WriterInv, NEW t \in Tabs, KeptInv(t), PostDraft(t)
  PROVE  KeptInv(t)'
<1> DEFINE c == Call("put", t, current[t], {})
<1>1. current[t] # NULL /\ calls' = Append(calls, c)
      /\ UNCHANGED <<page, current, store, minted, finished, adrift, server>>
  BY DEF PostDraft, Send
<1>2. c \in Calls /\ c.kind = "put" /\ c.reply = NULL /\ c.load = current[t]
  BY <1>1 DEF WriterInv, ClientOK, Call, Calls
<1>3. Alike(calls)
  BY AlikeCalls
<1> HIDE DEF c
<1>4. QED
  BY <1>1, <1>2, <1>3, PostedKept

(* A page that goes, whichever way.                                        *)
LEMMA LeavingKept ==
  ASSUME WriterInv, NEW t \in Tabs, KeptInv(t), ClosePage(t) \/ KillPage(t) \/ SignOut(t)
  PROVE  KeptInv(t)'
<1>1. Leave(t) /\ UNCHANGED <<minted, finished, adrift, server>>
      /\ \A e \in Ids : store'[e] = store[e] \/ store'[e] = NULL
  BY DEF ClosePage, KillPage, SignOut
<1>2. CASE calls' = Orphaned(t)
  BY <1>1, <1>2, GoneKept
<1>3. CASE ClosePage(t) /\ calls' # Orphaned(t)
  <2> DEFINE p == [current[t] EXCEPT !.clientTime = clock]
             c == Call("pagehide", NULL, p, {})
  <2>1. current[t] \in Plain /\ calls' = Append(Orphaned(t), c)
    BY <1>3 DEF ClosePage, WriterInv, ClientOK
  <2>2. clock \in Stamps
    BY DEF WriterInv, IInv, SlotOK, TypeOK, Times
  <2>3. p \in Plain
    BY <2>1, <2>2 DEF Plain, Requests
  <2> HIDE DEF p
  <2>4. c \in Calls /\ c.kind = "pagehide" /\ c.reply = NULL
    BY <2>3 DEF Call, Calls
  <2> HIDE DEF c
  <2>5. QED
    BY <1>1, <2>1, <2>4, GoneKept
<1>4. CASE SignOut(t) /\ calls' # Orphaned(t)
  <2> DEFINE c == Call("put", NULL, current[t], {})
  <2>1. current[t] # NULL /\ current[t] \in Plain /\ calls' = Append(Orphaned(t), c)
    BY <1>4 DEF SignOut, WriterInv, ClientOK
  <2>2. c \in Calls /\ c.kind = "put" /\ c.reply = NULL /\ c.load = current[t]
    BY <2>1 DEF Call, Calls
  <2>3. Alike(Orphaned(t))
    BY AlikeCalls
  <2>4. page'[t] = "closed" /\ current'[t] = NULL
    BY <1>1 DEF Leave, WriterInv, ClientOK
  <2> HIDE DEF c
  <2>5. QED
    BY <1>1, <2>1, <2>2, <2>3, <2>4, PostedKept
<1>5. QED
  BY <1>2, <1>3, <1>4 DEF ClosePage, KillPage, SignOut
-----------------------------------------------------------------------------
(* No session is at the end of the line: all of it is on its way out of    *)
(* the slot. last is the last entry made up so far.                        *)
LetGo(last) ==
  /\ InOrder /\ AllCleared /\ Followed /\ Handed /\ FinishedIsKept
  /\ \A i \in 0 .. Len(calls) : copies[i] # NULL => copies[i].entry <= last /\ KnownAs(copies[i])
  /\ \A e \in Ids : e > last => finished[e] = NULL /\ entries[e] = NULL

(* finish() lets go of the entry: its commit, or the discard of the slot,  *)
(* is behind all copies of it.                                             *)
LEMMA HandOverLetsGo ==
  ASSUME WriterInv, NEW t \in Tabs, KeptInv(t), NEW last, last = minted,
         current[t] # NULL, HandOver(t, current[t]),
         minted' \in Nat, minted' >= minted, adrift \subseteq adrift',
         UNCHANGED <<drafts, entries, clock>>
  PROVE  CallsOK' /\ LetGo(last)'
<1> DEFINE n == Len(calls) + 1
           x == current[t]
           h == IF IsBlank(x.body) THEN Call("discard", t, x, {}) ELSE Call("commit", t, x, {})
<1>1. /\ x \in Plain /\ x # NULL /\ x.entry \in Ids /\ x.body \in Bodies /\ page[t] = "open"
      /\ minted \in Nat
  BY PlainRow, FS_CardinalityType, WriterConstantsOK DEF WriterInv, ClientOK
<1>2. KnownAs(x) /\ (x.entry \notin adrift => finished[x.entry] = NULL)
  BY DEF KeptInv, Known, Live
<1>3. /\ h \in Calls /\ h.reply = NULL /\ h.load = x /\ h.rest = {}
      /\ h.kind = (IF IsBlank(x.body) THEN "discard" ELSE "commit")
      /\ calls' = Append(calls, h)
  BY <1>1 DEF Call, Calls, HandOver, Send
<1>4. /\ IsBlank(x.body) => UNCHANGED <<store, finished>>
      /\ ~IsBlank(x.body) =>
           /\ finished' = [finished EXCEPT ![x.entry] = x.body]
           /\ store' = [store EXCEPT ![x.entry] = [row |-> RowOf(x), synced |-> FALSE]]
  BY DEF HandOver
<1> HIDE DEF n, x, h
<1>5. /\ CallsOK' /\ Len(calls) \in Nat /\ Len(calls)' = n /\ copies'[0] = drafts'[Device]
      /\ \A i \in 1 .. Len(calls) :
           /\ copies'[i] = copies[i] /\ takes'[i] = takes[i] /\ clears'[i] = clears[i]
           /\ calls'[i].kind = calls[i].kind /\ calls'[i].load = calls[i].load
           /\ calls'[i].rest = calls[i].rest
      /\ copies'[n] = NULL /\ calls'[n] = h
      /\ x.entry \in clears'[n] /\ (~IsBlank(x.body) => x.entry \in takes'[n])
  <2>1. Alike(calls)
    BY AlikeCalls
  <2>2. h \in Calls /\ h.reply = NULL /\ calls' = Append(calls, h)
    BY <1>3
  <2>3. /\ CallsOK' /\ Len(calls) \in Nat /\ Len(calls)' = Len(calls) + 1
        /\ copies'[0] = drafts'[Device]
        /\ \A i \in 1 .. Len(calls) :
             copies'[i] = copies[i] /\ takes'[i] = takes[i] /\ clears'[i] = clears[i]
        /\ h.kind # "put" => copies'[Len(calls) + 1] = NULL
    BY <2>1, <2>2, LineOfSent
  <2>4. /\ \A i \in 1 .. Len(calls) :
             /\ calls'[i].kind = calls[i].kind /\ calls'[i].load = calls[i].load
             /\ calls'[i].rest = calls[i].rest
        /\ calls'[Len(calls) + 1] = h
    BY <2>1, <2>2, LineOfSent
  <2>5. h.kind = "discard" => x.entry \in clears'[Len(calls) + 1]
    <3>1. h.kind = "discard" => clears'[Len(calls) + 1] = Ids
      BY <2>1, <2>2, LineOfSent
    <3>2. QED
      BY <1>1, <3>1
  <2>6. h.kind = "commit" => x.entry \in takes'[Len(calls) + 1] /\ x.entry \in clears'[Len(calls) + 1]
    <3>1. h.kind = "commit" => takes'[Len(calls) + 1] = {h.load.entry}
      BY <2>1, <2>2, LineOfSent
    <3>2. h.kind = "commit" => clears'[Len(calls) + 1] = takes'[Len(calls) + 1]
      BY <2>1, <2>2, LineOfSent
    <3>3. QED
      BY <1>3, <3>1, <3>2
  <2>7. QED
    BY <1>3, <2>3, <2>4, <2>5, <2>6 DEF n
<1>6. ASSUME NEW i \in 0 .. Len(calls)', copies'[i] # NULL
      PROVE  i \in 0 .. Len(calls) /\ copies'[i] = copies[i] /\ copies[i].entry \in Ids
  <2>1. i \in 0 .. Len(calls)
    BY <1>5, <1>6 DEF n
  <2>2. copies'[0] = copies[0]
    BY <1>5 DEF copies
  <2>3. copies'[i] = copies[i]
    BY <1>5, <2>1, <2>2
  <2>4. QED
    BY <1>6, <2>1, <2>3, LineTyped
<1>7. InOrder'
  <2>1. copies'[0] = copies[0]
    BY <1>5 DEF copies
  <2>2. \A i \in Len(calls) + 1 .. Len(calls)' : copies'[i] = NULL
    BY <1>5 DEF n
  <2>3. \E m : LineMoves(m)
    BY <1>5, <2>1, <2>2, StandingMoves DEF Same, n
  <2>4. QED
    BY <1>5, <2>3, LineMovesInOrder DEF KeptInv, LineOK
<1>8. ASSUME NEW i \in 0 .. Len(calls), Live(copies[i])
      PROVE  IF copies[i].entry = x.entry THEN Follows(copies[i], x, clock)
             ELSE \E k \in i + 1 .. Len(calls) : copies[i].entry \in clears[k]
  BY <1>1, <1>8 DEF KeptInv, LineOK, Behind, x
<1>9. AllCleared'
  <2> SUFFICES ASSUME NEW i \in 0 .. Len(calls)', Live(copies'[i])
               PROVE  \E k \in i + 1 .. Len(calls)' : copies'[i].entry \in clears'[k]
    BY DEF AllCleared, Live
  <2>1. i \in 0 .. Len(calls) /\ copies'[i] = copies[i]
    BY <1>6 DEF Live
  <2>2. CASE copies[i].entry = x.entry
    <3>1. n \in i + 1 .. Len(calls)' /\ x.entry \in clears'[n]
      BY <1>1, <1>5, <2>1 DEF n
    <3>2. QED
      BY <2>1, <2>2, <3>1
  <2>3. CASE copies[i].entry # x.entry
    <3>1. PICK k \in i + 1 .. Len(calls) : copies[i].entry \in clears[k]
      BY <1>8, <2>1, <2>3
    <3>2. k \in i + 1 .. Len(calls)' /\ clears'[k] = clears[k]
      BY <1>5, <2>1 DEF n
    <3>3. QED
      BY <2>1, <3>1, <3>2
  <2>4. QED
    BY <2>2, <2>3
<1>10. \A e \in Ids : finished'[e] = IF e = x.entry /\ ~IsBlank(x.body) THEN x.body ELSE finished[e]
  BY <1>1, <1>4 DEF WriterInv, ClientOK
<1>11. Followed'
  <2> SUFFICES ASSUME NEW i \in 0 .. Len(calls)', Live(copies'[i]),
                      finished'[copies'[i].entry] # NULL
               PROVE  /\ \E k \in i + 1 .. Len(calls)' : copies'[i].entry \in takes'[k]
                      /\ Cold(copies'[i], clock) => copies'[i].body = finished'[copies'[i].entry]
    BY DEF Followed, Live
  <2>1. i \in 0 .. Len(calls) /\ copies'[i] = copies[i] /\ copies[i].entry \in Ids
    BY <1>6 DEF Live
  <2>2. CASE copies[i].entry = x.entry
    <3>1. ~IsBlank(x.body) /\ finished'[x.entry] = x.body
      BY <1>1, <1>2, <1>10, <2>1, <2>2 DEF Live
    <3>2. Follows(copies[i], x, clock)
      BY <1>8, <2>1, <2>2
    <3>3. n \in i + 1 .. Len(calls)' /\ x.entry \in takes'[n]
      BY <1>5, <2>1, <3>1 DEF n
    <3>4. QED
      BY <2>1, <2>2, <3>1, <3>2, <3>3 DEF Follows, Same
  <2>3. CASE copies[i].entry # x.entry
    <3>1. finished'[copies[i].entry] = finished[copies[i].entry]
      BY <1>10, <2>1, <2>3
    <3>2. /\ \E k \in i + 1 .. Len(calls) : copies[i].entry \in takes[k]
          /\ Cold(copies[i], clock) => copies[i].body = finished[copies[i].entry]
      BY <2>1, <3>1 DEF KeptInv, LineOK, Followed
    <3>3. \A k \in i + 1 .. Len(calls) : k \in i + 1 .. Len(calls)' /\ takes'[k] = takes[k]
      BY <1>5, <2>1 DEF n
    <3>4. QED
      BY <2>1, <3>1, <3>2, <3>3
  <2>4. QED
    BY <2>2, <2>3
<1>12. ASSUME NEW p \in Plain, Carries(p.entry, p.body)
       PROVE  p.entry \in adrift' \/ (finished'[p.entry] = p.body /\ p.body \notin Unfit)
  <2>1. p.entry \in Ids /\ p.body # NULL
    BY PlainRow, NullIsNoneOfThese
  <2>2. QED
    BY <1>2, <1>10, <1>12, <2>1 DEF Carries
<1>13. Handed'
  <2>1. ASSUME NEW i \in 1 .. Len(calls)', calls'[i].kind = "commit"
        PROVE  \A p \in {calls'[i].load} \cup calls'[i].rest :
                 p.entry \in adrift' \/ (finished'[p.entry] = p.body /\ p.body \notin Unfit)
    <3>1. CASE i = n
      <4>1. calls'[i] = h /\ ~IsBlank(x.body)
        BY <1>3, <1>5, <2>1, <3>1
      <4>2. finished'[x.entry] = x.body
        BY <1>1, <1>10, <4>1
      <4>3. x.entry \in adrift' \/ x.body \notin Unfit
        BY <1>2 DEF KnownAs
      <4>4. QED
        BY <1>3, <4>1, <4>2, <4>3
    <3>2. CASE i # n
      <4>1. /\ i \in 1 .. Len(calls) /\ calls'[i].load = calls[i].load
            /\ calls'[i].rest = calls[i].rest /\ calls[i].kind = "commit"
        BY <1>5, <2>1, <3>2 DEF n
      <4>2. calls[i] \in Calls
        BY <4>1, CallsAre DEF WriterInv
      <4>3. calls[i].load \in Plain /\ \A p \in calls[i].rest : p \in Plain
        BY <4>2 DEF Calls
      <4>4. /\ Carries(calls[i].load.entry, calls[i].load.body)
            /\ \A p \in calls[i].rest : Carries(p.entry, p.body)
        BY <4>1 DEF KeptInv, Handed
      <4>5. QED
        BY <1>12, <4>1, <4>3, <4>4
    <3>3. QED
      BY <3>1, <3>2
  <2>2. ASSUME NEW e \in Ids, store'[e] # NULL, ~store'[e].synced
        PROVE  e \in adrift' \/ (finished'[e] = store'[e].row.body /\ store'[e].row.body \notin Unfit)
    <3>1. CASE e = x.entry /\ ~IsBlank(x.body)
      <4>1. store'[e] = [row |-> RowOf(x), synced |-> FALSE] /\ finished'[e] = x.body
        BY <1>1, <1>4, <1>10, <3>1 DEF WriterInv, ClientOK
      <4>2. e \in adrift' \/ x.body \notin Unfit
        BY <1>2, <3>1 DEF KnownAs
      <4>3. QED
        BY <4>1, <4>2 DEF RowOf
    <3>2. CASE ~(e = x.entry /\ ~IsBlank(x.body))
      <4>1. store'[e] = store[e] /\ finished'[e] = finished[e]
        BY <1>1, <1>4, <1>10, <3>2 DEF WriterInv, ClientOK
      <4>2. QED
        BY <2>2, <4>1 DEF KeptInv, Handed, Carries
    <3>3. QED
      BY <3>1, <3>2
  <2>3. QED
    BY <2>1, <2>2 DEF Handed, Carries, Unfit
<1>14. FinishedIsKept'
  <2>1. ASSUME NEW e \in Ids \ adrift', finished'[e] # NULL, entries'[e] # NULL
        PROVE  entries'[e].body = finished'[e]
    BY <1>2, <1>10, <2>1 DEF KeptInv, FinishedIsKept, KnownAs
  <2>2. QED
    BY <2>1 DEF FinishedIsKept
<1>15. ASSUME NEW i \in 0 .. Len(calls)', copies'[i] # NULL
       PROVE  copies'[i].entry <= last /\ KnownAs(copies[i])'
  <2>1. i \in 0 .. Len(calls) /\ copies'[i] = copies[i] /\ copies[i].entry \in Ids
    BY <1>6, <1>15
  <2>2. KnownAs(copies[i])
    BY <1>15, <2>1 DEF KeptInv, Known
  <2>3. copies[i].entry \notin adrift' /\ finished'[copies[i].entry] = NULL =>
          finished[copies[i].entry] = NULL
    <3>1. x.body # NULL
      BY <1>1, NullIsNoneOfThese
    <3>2. QED
      BY <1>2, <1>10, <2>1, <3>1
  <2>4. copies[i].entry \in Nat
    BY <2>1
  <2>5. QED
    BY <1>1, <2>1, <2>2, <2>3, <2>4 DEF KnownAs, Cold, Unfit
<1>16. ASSUME NEW e \in Ids, e > last
       PROVE  finished'[e] = NULL /\ entries'[e] = NULL
  <2>1. e # x.entry
    BY <1>1, <1>2, <1>16 DEF KnownAs
  <2>2. QED
    BY <1>10, <1>16, <2>1 DEF KeptInv, Unminted
<1>17. QED
  BY <1>5, <1>7, <1>9, <1>11, <1>13, <1>14, <1>15, <1>16 DEF LetGo

(* A session that has no entry is past all copies, too.                    *)
LEMMA NothingLetsGo ==
  ASSUME WriterInv, NEW t \in Tabs, KeptInv(t), NEW last, last = minted,
         page[t] = "open", current[t] = NULL,
         minted' \in Nat, minted' >= minted, adrift \subseteq adrift',
         UNCHANGED <<drafts, entries, clock, store, finished, calls>>
  PROVE  CallsOK' /\ LetGo(last)'
<1>1. CallsOK' /\ copies' = copies /\ takes' = takes
  BY DEF WriterInv, CallsOK, copies, takes
<1>2. clears' = clears
  BY <1>1 DEF clears
<1>3. InOrder' /\ AllCleared' /\ Followed'
  BY <1>1, <1>2 DEF KeptInv, LineOK, InOrder, AllCleared, Behind, Followed, Follows, Cold, Live
<1>4. Handed' /\ FinishedIsKept'
  BY DEF KeptInv, Handed, Carries, Unfit, FinishedIsKept
<1>5. ASSUME NEW i \in 0 .. Len(calls)', copies'[i] # NULL
      PROVE  copies'[i].entry <= last /\ KnownAs(copies[i])'
  <2>1. KnownAs(copies[i]) /\ copies[i].entry \in Nat
    BY <1>1, <1>5, LineTyped DEF KeptInv, Known
  <2>2. minted \in Nat
    BY FS_CardinalityType, WriterConstantsOK DEF WriterInv, ClientOK
  <2>3. QED
    BY <1>1, <2>1, <2>2 DEF KnownAs, Cold, Unfit
<1>6. QED
  BY <1>1, <1>3, <1>4, <1>5 DEF LetGo, KeptInv, Unminted

(* What then begins, if anything, is an entry nobody has heard of.         *)
LEMMA LetGoKept ==
  ASSUME WriterInv, NEW t \in Tabs, KeptInv(t), NEW last \in Nat, CallsOK', LetGo(last)',
         page'[t] = "open", UNCHANGED <<drafts, clock>>,
         \/ current'[t] = NULL /\ minted' = last
         \/ /\ minted' = last + 1 /\ minted' \in Ids
            /\ \E body \in Bodies : current'[t] = Entry(minted', body),
         current'[t] # NULL /\ current'[t].body \in Unfit => current'[t].entry \in adrift',
         \A e \in adrift' : e <= minted'
  PROVE  KeptInv(t)'
<1>1. InOrder' /\ AllCleared' /\ Followed' /\ Handed' /\ FinishedIsKept'
  BY DEF LetGo
<1>0. current'[t] # NULL =>
        /\ minted' = last + 1 /\ minted' \in Ids
        /\ current'[t].entry = minted' /\ current'[t].clientTime = clock
  <2>1. CASE current'[t] = NULL
    BY <2>1
  <2>2. ASSUME NEW body \in Bodies, current'[t] = Entry(minted', body),
               minted' = last + 1, minted' \in Ids
        PROVE  /\ minted' = last + 1 /\ minted' \in Ids
               /\ current'[t].entry = minted' /\ current'[t].clientTime = clock
    BY <2>2 DEF Entry
  <2>3. QED
    BY <2>1, <2>2
<1>2. ASSUME NEW i \in 0 .. Len(calls)', copies'[i] # NULL, current'[t] # NULL
      PROVE  copies'[i].entry # current'[t].entry
  <2>1. copies'[i].entry <= last
    BY <1>2 DEF LetGo
  <2>2. current'[t].entry = last + 1
    BY <1>0, <1>2
  <2>3. QED
    BY <2>1, <2>2
<1>3. Behind(t)' /\ Posted(t)'
  BY <1>1, <1>2 DEF AllCleared, Behind, Posted, Live
<1>4. ASSUME current'[t] # NULL
      PROVE  KnownAs(current[t])' /\ finished'[current'[t].entry] = NULL
  <2>1. current'[t].entry = minted' /\ current'[t].clientTime = clock' /\ minted' \in Ids
        /\ minted' > last
    BY <1>0, <1>4
  <2>2. finished'[minted'] = NULL /\ entries'[minted'] = NULL
    BY <2>1 DEF LetGo
  <2>3. clock \in Nat /\ clock' = clock
    BY LineTyped
  <2>4. QED
    BY <1>4, <2>1, <2>2, <2>3 DEF KnownAs, Unfit
<1>5. Known(t)'
  BY <1>4 DEF LetGo, Known, Live
<1>6. Unminted'
  <2> SUFFICES ASSUME NEW e \in Ids, e > minted'
               PROVE  finished'[e] = NULL /\ entries'[e] = NULL
    BY DEF Unminted
  <2>1. CASE minted' = last
    BY <2>1 DEF LetGo
  <2>2. CASE minted' = last + 1
    <3>1. e \in Nat
      OBVIOUS
    <3>2. e > last
      BY <2>2, <3>1
    <3>3. QED
      BY <3>2 DEF LetGo
  <2>3. QED
    BY <2>1, <2>2
<1>7. Deadline' /\ Boots(t)'
  BY DEF KeptInv, Deadline, Boots
<1>8. QED
  BY <1>1, <1>3, <1>5, <1>6, <1>7 DEF KeptInv, LineOK
-----------------------------------------------------------------------------
LEMMA FinishKept ==
  ASSUME WriterInv, NEW t \in Tabs, KeptInv(t), Finish(t)
  PROVE  KeptInv(t)'
<1>1. /\ current[t] # NULL /\ HandOver(t, current[t]) /\ current'[t] = NULL
      /\ UNCHANGED <<page, minted, adrift>> /\ UNCHANGED <<drafts, entries, clock>>
  BY DEF Finish, server, WriterInv, ClientOK
<1>2. page[t] = "open" /\ minted \in Nat
  BY <1>1, FS_CardinalityType, WriterConstantsOK DEF WriterInv, ClientOK
<1>3. PICK last \in Nat : last = minted
  BY <1>2
<1>4. CallsOK' /\ LetGo(last)'
  BY <1>1, <1>2, <1>3, HandOverLetsGo
<1>5. \A e \in adrift' : e <= minted'
  BY <1>1 DEF KeptInv, Unminted
<1>6. QED
  BY <1>1, <1>2, <1>3, <1>4, <1>5, LetGoKept

(* Going on with the entry on the surface, which is not stale; or is, and  *)
(* goes adrift.                                                            *)
LEMMA TypingKept ==
  ASSUME WriterInv, NEW t \in Tabs, KeptInv(t), page[t] = "open", current[t] # NULL,
         NEW body \in Bodies, current'[t] = Entry(current[t].entry, body), t \in unposted',
         adrift' \in {adrift, adrift \cup {current[t].entry}},
         IsStale(current[t]) \/ body \in Unfit => current[t].entry \in adrift',
         UNCHANGED <<page, store, minted, finished, calls, server>>
  PROVE  KeptInv(t)'
<1> DEFINE x == current[t]
           y == Entry(x.entry, body)
<1>1. /\ UNCHANGED <<page, store, minted, finished, calls, drafts, entries, clock>>
      /\ y.entry = x.entry /\ y.clientTime = clock /\ y.body = body
      /\ adrift \subseteq adrift' /\ adrift' \subseteq adrift \cup {x.entry}
  BY DEF server, Entry
<1>2. copies' = copies /\ takes' = takes /\ Len(calls)' = Len(calls)
  BY <1>1 DEF copies, takes
<1>3. clears' = clears
  BY <1>2 DEF clears
<1>4. /\ x.entry \in Ids /\ x.clientTime \in Nat /\ clock \in Nat
      /\ KnownAs(x) /\ (x.entry \notin adrift => finished[x.entry] = NULL)
  <2>1. x \in Plain
    BY DEF WriterInv, ClientOK
  <2>2. x.entry \in Ids /\ x.clientTime \in Nat
    BY <2>1 DEF Plain, Requests
  <2>3. KnownAs(x) /\ (x.entry \notin adrift => finished[x.entry] = NULL)
    BY DEF KeptInv, Known, Live
  <2>4. QED
    BY <2>2, <2>3, LineTyped
<1>5. x.entry \notin adrift' => ~Cold(x, clock) /\ body \notin Unfit
  BY <1>4 DEF IsStale, Cold
<1>6. current'[t] = y /\ y # NULL
  <2>1. y \in Plain
    BY <1>4, EntryIsPlain DEF WriterInv, IInv
  <2>2. QED
    BY <2>1, PlainRow
<1> HIDE DEF x, y
<1>7. InOrder' /\ Followed'
  <2>1. InOrder'
    BY <1>1, <1>2, <1>3 DEF KeptInv, LineOK, InOrder, Live
  <2>2. Followed'
    BY <1>1, <1>2 DEF KeptInv, LineOK, Followed, Live
  <2>3. QED
    BY <2>1, <2>2
<1>8. Behind(t)'
  <2> SUFFICES ASSUME NEW i \in 0 .. Len(calls), Live(copies[i]), copies[i].entry \notin adrift'
               PROVE  IF copies[i].entry = y.entry THEN Follows(copies[i], y, clock)
                      ELSE \E k \in i + 1 .. Len(calls) : copies[i].entry \in clears[k]
    BY <1>1, <1>2, <1>3, <1>6 DEF Behind, Live
  <2>1. IF copies[i].entry = x.entry THEN Follows(copies[i], x, clock)
        ELSE \E k \in i + 1 .. Len(calls) : copies[i].entry \in clears[k]
    BY DEF KeptInv, LineOK, Behind, x
  <2>2. ASSUME copies[i].entry = x.entry
        PROVE  Follows(copies[i], y, clock)
    <3>1. ~Cold(copies[i], clock)
      BY <1>5, <2>1, <2>2 DEF Follows, Same, Cold
    <3>2. copies[i].clientTime \in Nat /\ copies[i].clientTime <= clock
      BY LineTyped DEF KeptInv, Known, KnownAs, Live
    <3>3. QED
      BY <1>1, <3>1, <3>2 DEF Follows
  <2>3. QED
    BY <1>1, <2>1, <2>2
<1>9. Posted(t)'
  BY DEF Posted
<1>10. Known(t)'
  <2>1. KnownAs(current[t])' /\ (Live(current[t])' => finished'[current'[t].entry] = NULL)
    <3>1. /\ y.entry <= minted' /\ y.clientTime <= clock'
          /\ y.entry \notin adrift' =>
               y.body \notin Unfit /\ finished'[y.entry] = NULL /\ entries'[y.entry] = NULL
      BY <1>1, <1>4, <1>5 DEF KnownAs
    <3>2. QED
      BY <1>6, <3>1 DEF KnownAs, Live, Unfit
  <2>2. ASSUME NEW i \in 0 .. Len(calls), copies[i] # NULL
        PROVE  KnownAs(copies[i])'
    <3>1. KnownAs(copies[i])
      BY <2>2 DEF KeptInv, Known
    <3>2. QED
      BY <1>1, <1>2, <3>1 DEF KnownAs, Cold, Unfit
  <2>3. QED
    BY <1>2, <2>1, <2>2 DEF Known
<1>11. Unminted'
  BY <1>1, <1>4 DEF KeptInv, Unminted, KnownAs
<1>12. Handed' /\ Deadline' /\ FinishedIsKept' /\ Boots(t)'
  BY <1>1 DEF KeptInv, Handed, Carries, Unfit, Deadline, FinishedIsKept, Boots
<1>13. QED
  BY <1>7, <1>8, <1>9, <1>10, <1>11, <1>12 DEF KeptInv, LineOK

LEMMA InputKept ==
  ASSUME WriterInv, NEW t \in Tabs, KeptInv(t), NEW body \in Bodies, NEW over \in BOOLEAN,
         Input(t, body, over)
  PROVE  KeptInv(t)'
<1>1. page[t] = "open" /\ UNCHANGED <<page, server>> /\ UNCHANGED <<drafts, entries, clock>>
      /\ adrift \subseteq adrift'
  BY DEF Input, NoteInput, server
<1>2. minted \in Nat /\ t \in DOMAIN current
  BY FS_CardinalityType, WriterConstantsOK DEF WriterInv, ClientOK
<1>3. CASE current[t] # NULL /\ ~over
  <2>1. /\ current' = [current EXCEPT ![t] = Entry(current[t].entry, body)]
        /\ UNCHANGED <<store, minted, finished, calls>>
        /\ unposted' = IF current'[t] = NULL THEN unposted \ {t} ELSE unposted \cup {t}
    BY <1>3 DEF Input, NoteInput
  <2>2. Entry(current[t].entry, body) # NULL
    <3>1. current[t].entry \in Ids
      BY <1>3, PlainRow DEF WriterInv, ClientOK
    <3>2. QED
      BY <3>1, EntryIsPlain, PlainRow DEF WriterInv, IInv
  <2>3. current'[t] = Entry(current[t].entry, body) /\ t \in unposted'
    BY <1>2, <2>1, <2>2
  <2>4. current'[t].entry = current[t].entry
    BY <2>3 DEF Entry
  <2>5. /\ adrift' \in {adrift, adrift \cup {current[t].entry}}
        /\ IsStale(current[t]) \/ body \in Unfit => current[t].entry \in adrift'
    BY <1>3, <2>2, <2>3, <2>4 DEF Input
  <2>6. QED
    BY <1>1, <1>3, <2>1, <2>3, <2>5, TypingKept
<1>4. CASE current[t] = NULL \/ over
  <2>1. PICK last \in Nat : last = minted
    BY <1>2
  <2>2. \/ current' = [current EXCEPT ![t] = NULL] /\ UNCHANGED minted
        \/ /\ minted + 1 \in Ids /\ minted' = minted + 1
           /\ current' = [current EXCEPT ![t] = Entry(minted', body)]
    BY <1>4 DEF Input, NoteInput
  <2>3. \/ current'[t] = NULL /\ minted' = last
        \/ /\ minted' = last + 1 /\ minted' \in Ids
           /\ current'[t] = Entry(minted', body)
    BY <1>2, <2>1, <2>2
  <2>4. minted' \in Nat /\ minted' >= minted
    BY <1>2, <2>2
  <2>5. CallsOK' /\ LetGo(last)'
    <3>1. CASE current[t] # NULL
      <4>1. HandOver(t, current[t])
        BY <1>4, <3>1 DEF Input, NoteInput
      <4>2. QED
        BY <1>1, <2>1, <2>4, <3>1, <4>1, HandOverLetsGo
    <3>2. CASE current[t] = NULL
      <4>1. UNCHANGED <<store, finished, calls>>
        BY <3>2 DEF Input, NoteInput, IsStale
      <4>2. QED
        BY <1>1, <2>1, <2>4, <3>2, <4>1, NothingLetsGo
    <3>3. QED
      BY <3>1, <3>2
  <2>6. current'[t] # NULL =>
          /\ current'[t].entry = minted'
          /\ current'[t].body \in Unfit => current'[t].entry \in adrift'
    BY <2>3 DEF Entry, Input
  <2>7. \A e \in adrift' : e <= minted'
    <3>1. \A e \in adrift : e <= minted /\ e \in Nat
      BY DEF KeptInv, Unminted, WriterInv, ClientOK
    <3>2. adrift' = adrift \/ (current'[t] # NULL /\ adrift' = adrift \cup {current'[t].entry})
      BY DEF Input
    <3>3. QED
      BY <1>2, <2>4, <2>6, <3>1, <3>2
  <2>8. QED
    BY <1>1, <2>3, <2>5, <2>6, <2>7, LetGoKept
<1>5. QED
  BY <1>3, <1>4

(* With no request under way the slot is all there is of the line.         *)
LEMMA SlotAlone ==
  ASSUME WriterInv, calls = <<>>
  PROVE  /\ Len(calls) = 0 /\ copies[0] = drafts[Device]
         /\ \A i : i \in 0 .. Len(calls) <=> i = 0
         /\ InOrder
<1>1. Len(calls) = 0
  OBVIOUS
<1>2. QED
  BY <1>1 DEF copies, InOrder

LEMMA AdoptKept ==
  ASSUME WriterInv, WriterInv', NEW t \in Tabs, KeptInv(t), Adopt(t)
  PROVE  KeptInv(t)'
<1> DEFINE d == drafts[Device]
<1>1. /\ page[t] = "booting" /\ calls = <<>> /\ seen[t] = d /\ page'[t] = "open"
      /\ UNCHANGED <<unposted, store, minted, finished, adrift, calls>>
      /\ UNCHANGED <<drafts, entries, clock>>
  BY DEF Adopt, KeptInv, Boots, server, WriterInv, ClientOK
<1>2. d = NULL => current'[t] = NULL
  BY <1>1 DEF Adopt, WriterInv, ClientOK
<1>3. d # NULL => current'[t] # NULL /\ Same(d, current'[t])
  <2> DEFINE c == [entry |-> d.entry, journal |-> d.journal, body |-> d.body, loc |-> d.loc,
                   clientTime |-> d.clientTime]
  <2>1. d # NULL => current'[t] = c
    BY <1>1 DEF Adopt, WriterInv, ClientOK
  <2>2. d # NULL => c \in Plain
    <3>1. d # NULL => seen[t] \in Seen
      BY <1>1 DEF WriterInv, ClientOK
    <3>2. QED
      BY <1>1, <3>1 DEF Seen, Draft, Contents, Plain, Requests, WriterInv, IInv
  <2>3. d # NULL => Same(d, c)
    BY DEF Same
  <2> HIDE DEF c
  <2>4. QED
    BY <2>1, <2>2, <2>3, PlainRow
<1> HIDE DEF d
<1>4. Len(calls) = 0 /\ copies[0] = d /\ \A i : i \in 0 .. Len(calls) <=> i = 0
  BY <1>1, SlotAlone DEF d
<1>5. Len(calls)' = 0 /\ copies'[0] = d /\ (\A i : i \in 0 .. Len(calls)' <=> i = 0) /\ InOrder'
  <2>1. Len(calls)' = 0
    BY <1>1
  <2>2. QED
    BY <1>1, <2>1 DEF copies, InOrder, d
<1>6. d # NULL =>
        /\ (d.entry \notin adrift => finished[d.entry] = NULL) /\ KnownAs(d)
        /\ d.clientTime \in Nat /\ d.entry \in Ids
  <2>1. Live(d) => finished[d.entry] = NULL
    BY <1>4 DEF KeptInv, LineOK, Followed
  <2>2. d # NULL => KnownAs(d)
    BY <1>4 DEF KeptInv, Known
  <2>3. QED
    BY <1>4, <2>1, <2>2, LineTyped DEF Live
<1>7. Followed'
  BY <1>1, <1>5, <1>6 DEF Followed, Live
<1>8. Behind(t)'
  BY <1>3, <1>5, <1>6 DEF Behind, Follows, Same, Live
<1>9. Posted(t)'
  BY <1>2, <1>3, <1>5 DEF Posted, Live
<1>10. Known(t)'
  BY <1>1, <1>2, <1>3, <1>5, <1>6 DEF Known, KnownAs, Same, Cold, Live, Unfit
<1>11. Unminted' /\ Handed' /\ Deadline' /\ FinishedIsKept' /\ Boots(t)'
  BY <1>1 DEF KeptInv, Unminted, Handed, Carries, Unfit, Deadline, FinishedIsKept, Boots
<1>12. QED
  BY <1>5, <1>7, <1>8, <1>9, <1>10, <1>11 DEF KeptInv, LineOK

(* Before the clock moves on, what there is has been posted and received.  *)
LEMMA TimeKept ==
  ASSUME WriterInv, Net = "prompt", NEW t \in Tabs, KeptInv(t), TimePasses
  PROVE  KeptInv(t)'
<1> DEFINE d == drafts[Device]
           x == current[t]
<1>1. /\ calls = <<>> /\ unposted = {} /\ page[t] # "booting" /\ clock' = clock + 1
      /\ UNCHANGED <<page, seen, current, unposted, store, minted, finished, adrift, calls>>
      /\ UNCHANGED <<drafts, entries>>
  BY DEF TimePasses, Tick, client
<1> HIDE DEF d, x
<1>2. Len(calls) = 0 /\ copies[0] = d /\ \A i : i \in 0 .. Len(calls) <=> i = 0
  BY <1>1, SlotAlone DEF d
<1>3. Len(calls)' = 0 /\ copies'[0] = d /\ (\A i : i \in 0 .. Len(calls)' <=> i = 0) /\ InOrder'
  <2>1. Len(calls)' = 0
    BY <1>1
  <2>2. QED
    BY <1>1, <2>1 DEF copies, InOrder, d
<1>4. clock \in Nat /\ (d # NULL => d.clientTime \in Nat /\ KnownAs(d))
      /\ (Live(d) => finished[d.entry] = NULL)
  <2>1. Live(d) => finished[d.entry] = NULL
    BY <1>2 DEF KeptInv, LineOK, Followed
  <2>2. d # NULL => KnownAs(d)
    BY <1>2 DEF KeptInv, Known
  <2>3. QED
    BY <1>2, <2>1, <2>2, LineTyped
<1>5. (x # NULL => x.clientTime \in Nat /\ KnownAs(x)) /\ (Live(x) => finished[x.entry] = NULL)
  BY DEF KeptInv, Known, WriterInv, ClientOK, Plain, Requests, x
<1>6. Followed'
  BY <1>1, <1>3, <1>4 DEF Followed, Live
<1>7. Behind(t)'
  <2> SUFFICES ASSUME page[t] = "open", Live(d)
               PROVE  x # NULL /\ d.entry = x.entry /\ Follows(d, x, clock')
    BY <1>1, <1>3 DEF Behind, Live, x
  <2>1. x # NULL /\ d.entry = x.entry
    BY <1>2 DEF KeptInv, LineOK, Behind, x
  <2>2. Same(d, x)
    BY <1>1, <1>2, <2>1 DEF KeptInv, LineOK, Posted, x
  <2>3. QED
    BY <1>4, <2>1, <2>2 DEF Follows, Same, Live
<1>8. Posted(t)'
  <2> SUFFICES ASSUME x # NULL, Live(d), d.entry = x.entry
               PROVE  Same(d, x)
    BY <1>1, <1>3 DEF Posted, Live, x
  <2>1. QED
    BY <1>1, <1>2 DEF KeptInv, LineOK, Posted, x
<1>9. Known(t)'
  <2>1. d' = d /\ x' = x
    BY <1>1 DEF d, x
  <2>2. d # NULL => KnownAs(d)'
    BY <1>1, <1>4, <2>1 DEF KnownAs, Cold, Live, Unfit
  <2>3. x # NULL => KnownAs(x)'
    BY <1>1, <1>4, <1>5, <2>1 DEF KnownAs, Cold, Live, Unfit
  <2>4. QED
    BY <1>1, <1>3, <1>5, <2>1, <2>2, <2>3 DEF Known, KnownAs, Live, x
<1>10. Unminted' /\ Handed' /\ Deadline' /\ FinishedIsKept' /\ Boots(t)'
  BY <1>1 DEF KeptInv, Unminted, Handed, Carries, Unfit, Deadline, FinishedIsKept, Boots
<1>11. QED
  BY <1>3, <1>6, <1>7, <1>8, <1>9, <1>10 DEF KeptInv, LineOK
-----------------------------------------------------------------------------
LEMMA KeptStarts ==
  ASSUME WriterInit, NEW t \in Tabs
  PROVE  KeptInv(t)
<1>1. /\ drafts[Device] = NULL /\ calls = <<>> /\ page[t] = "closed" /\ current[t] = NULL
      /\ \A e \in Ids : entries[e] = NULL /\ finished[e] = NULL /\ store[e] = NULL
      /\ adrift = {}
  BY DEF WriterInit, Init
<1>2. WriterInv
  BY WriterStarts
<1>3. Len(calls) = 0 /\ InOrder /\ \A i \in 0 .. Len(calls) : copies[i] = NULL
  BY <1>1, <1>2, SlotAlone
<1>4. LineOK(t)
  BY <1>1, <1>3 DEF LineOK, Behind, Posted, Followed, Live
<1>5. Known(t)
  BY <1>1, <1>3 DEF Known, Live
<1>6. Unminted /\ Deadline /\ Boots(t) /\ FinishedIsKept
  BY <1>1 DEF Unminted, Deadline, Boots, FinishedIsKept
<1>7. Handed
  BY <1>1, <1>3 DEF Handed
<1>8. QED
  BY <1>4, <1>5, <1>6, <1>7 DEF KeptInv

LEMMA KeptRests ==
  ASSUME WriterInv, NEW t \in Tabs, KeptInv(t), UNCHANGED allVars
  PROVE  KeptInv(t)'
<1>1. /\ UNCHANGED <<page, seen, current, unposted, store, minted, finished, adrift, calls>>
      /\ UNCHANGED <<drafts, entries, clock>>
  BY DEF allVars, client, server
<1>2. Alike(calls')
  BY <1>1, AlikeCalls
<1>3. /\ CallsOK' /\ CommitsMove
      /\ Len(calls) \in Nat /\ Len(calls)' = Len(calls) /\ copies'[0] = drafts'[Device]
      /\ \A i \in 1 .. Len(calls) :
           copies'[i] = copies[i] /\ takes'[i] = takes[i] /\ clears'[i] = clears[i]
  BY <1>2, LineOfAlike
<1>4. \E m : LineMoves(m)
  <2>1. copies'[0] = copies[0]
    BY <1>1, <1>3 DEF copies
  <2>2. QED
    BY <1>3, <2>1, StandingMoves DEF Same
<1>5. Joining(t) /\ SessionRests(t) /\ Deadline' /\ Boots(t)'
  BY <1>1 DEF Joining, SessionRests, KeptInv, Deadline, Boots
<1>6. Handed'
  BY <1>1, <1>3, HandedStays DEF KeptInv
<1>7. QED
  BY <1>1, <1>3, <1>4, <1>5, <1>6, RestingKept

LEMMA KeptSteps ==
  ASSUME Net = "prompt", NEW t \in Tabs, Tabs = {t}, WriterInv, KeptInv(t),
         [WriterNext]_allVars
  PROVE  KeptInv(t)'
<1>1. WriterInv'
  BY WriterSteps
<1>2. TypeOK' /\ SlotOK'
  BY <1>1 DEF WriterInv, IInv
<1>3. ASSUME NEW u \in Tabs, NEW body \in Bodies, Keystroke(u, body) \/ Paste(u, body)
      PROVE  KeptInv(t)'
  <2>1. PICK over \in BOOLEAN : Input(t, body, over)
    BY <1>3, InputIs
  <2>2. QED
    BY <2>1, InputKept
<1>4. ASSUME NEW u \in Tabs,
             \/ Finish(u) \/ PostDraft(u) \/ FlushUnsynced(u) \/ MergeEntries(u)
             \/ OpenPage(u) \/ Adopt(u) \/ ClosePage(u) \/ KillPage(u) \/ SignOut(u)
      PROVE  KeptInv(t)'
  <2>1. u = t
    OBVIOUS
  <2>2. QED
    BY <1>1, <1>4, <2>1, FinishKept, PostDraftKept, FlushKept, MergeKept, OpenKept, AdoptKept,
       LeavingKept
<1>5. ASSUME NEW i \in DOMAIN calls,
             ServePut(i) \/ ServeDiscard(i) \/ ServeCommit(i) \/ CommitAnswered(i) \/ Lose(i)
      PROVE  KeptInv(t)'
  <2>1. ~Lose(i)
    BY DEF Lose
  <2>2. QED
    BY <1>2, <1>5, <2>1, PutServedKept, DiscardServedKept, CommitServedKept, AnsweredKept
<1>6. CASE TimePasses \/ Janitor
  BY <1>6, TimeKept, JanitorKept
<1>7. ~ServerDies
  BY DEF ServerDies
<1>8. CASE UNCHANGED allVars
  BY <1>8, KeptRests
<1>9. QED
  BY <1>3, <1>4, <1>5, <1>6, <1>7, <1>8 DEF WriterNext

(* Where no request is lost or overtaken and only one tab is open, the     *)
(* journal has each finished entry as it was finished: neither scratch     *)
(* still under way, nor the slot, nor the janitor has a say in it, signing *)
(* out or not. Spared are the entries gone adrift: those that took a paste *)
(* when they were stale, or contents the server refuses.                   *)
THEOREM FinishedKept ==
  ASSUME Net = "prompt", NEW t, Tabs = {t}
  PROVE  WriterSpec => []FinishedIsKept
<1>1. t \in Tabs
  OBVIOUS
<1>2. WriterInit => WriterInv /\ KeptInv(t)
  BY <1>1, WriterStarts, KeptStarts
<1>3. WriterInv /\ KeptInv(t) /\ [WriterNext]_allVars => (WriterInv /\ KeptInv(t))'
  BY <1>1, WriterSteps, KeptSteps
<1>4. KeptInv(t) => FinishedIsKept
  BY DEF KeptInv
<1>5. QED
  BY <1>2, <1>3, <1>4, PTL DEF WriterSpec
=============================================================================
