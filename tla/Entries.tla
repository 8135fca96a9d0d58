------------------------------- MODULE Entries -------------------------------
(***************************************************************************)
(* The journal server's scratch slots and commits (server/entries.js).     *)
(*                                                                         *)
(* A handler runs to completion once its body has been read, so each one   *)
(* is one step. It is not one transaction, though: every SQL statement     *)
(* commits by itself, except the insert of an entry and its blocks. The    *)
(* Crash actions leave behind what a handler had written when the process  *)
(* died, in the order it writes; there is nothing in memory to lose.       *)
(*                                                                         *)
(* owed and lost are history variables, not state of the program: the ids  *)
(* whose last accepted scratch was worth keeping, and those whose scratch  *)
(* was destroyed between the slot and the journal.                         *)
(***************************************************************************)
EXTENDS Integers

CONSTANTS
  Users,
  Slots,          \* the key of drafts: one (user, device) pair each
  Owner,          \* Owner[s]: the user of slot s
  Journals,
  JournalOwner,   \* JournalOwner[j]: the user journal j belongs to
  Ids,            \* entry ids; UUIDs, so no two devices ever share one
  SlotOf,         \* SlotOf[e]: the slot of the device that made up e
  Bodies,         \* contents, as [chars: Nat, media: BOOLEAN]
  BadContents,    \* those normalizeContents refuses
  Tags,           \* locations that normalizeLocation accepts
  Untagged,       \* no location
  Refused,        \* locations that normalizeLocation refuses
  NULL,           \* no draft, no entry, no deadline
  OrphanAfter,    \* ORPHAN_MS
  Stamps,         \* bound: readings of a client's own clock
  Delays,         \* bound: values of finalizeIn
  MaxTime         \* bound: the last value of now()

Locations == Tags \cup Refused \cup {Untagged}
Contents == Bodies \ BadContents
Times == 0 .. MaxTime

ASSUME ConstantsOK ==
  /\ Owner \in [Slots -> Users]
  /\ JournalOwner \in [Journals -> Users]
  /\ SlotOf \in [Ids -> Slots]
  /\ Bodies \subseteq [chars : Nat, media : BOOLEAN]
  /\ OrphanAfter \in Nat
  /\ Stamps \subseteq Nat /\ 0 \in Stamps
  /\ Delays \subseteq Nat
  /\ MaxTime \in Nat

ASSUME NamesDistinct ==
  /\ Untagged \notin Tags \cup Refused
  /\ Tags \cap Refused = {}

VARIABLES
  drafts,    \* [Slots -> draft or NULL]
  entries,   \* [Ids -> row or NULL]
  clock,     \* now()
  owed, lost \* history, see above

vars == <<drafts, entries, clock, owed, lost>>
history == <<owed, lost>>
-----------------------------------------------------------------------------
OwnJournals(s) == {j \in Journals : JournalOwner[j] = Owner[s]}
OwnIds(s) == {e \in Ids : SlotOf[e] = s}

(* A row of drafts, and a row of entries with its blocks.                  *)
Draft ==
  [entry : Ids, journal : Journals, body : Contents, loc : Locations,
   clientTime : Stamps, receivedAt : Times, finalizeAt : Times \cup {NULL}]
Row == [journal : Journals, body : Contents, loc : Tags \cup {Untagged}, clientTime : Stamps]

ASSUME NullIsNoValue == NULL \notin Draft /\ NULL \notin Row /\ NULL \notin Nat

(* What a client sends of an entry. Requests the handlers refuse outright  *)
(* (a foreign journal, a malformed id, bad contents) change nothing.       *)
Requests(s) ==
  [entry : OwnIds(s), journal : OwnJournals(s), body : Bodies, loc : Locations,
   clientTime : Stamps]

RowOf(d) ==
  [journal |-> d.journal, body |-> d.body, loc |-> d.loc, clientTime |-> d.clientTime]

IsBlank(body) == ~body.media /\ body.chars < 3

(* draftIsDue, which the per-user sweep applies to each row, and the WHERE *)
(* clause of dueDrafts, which is the janitor's.                            *)
DraftIsDue(d, at) ==
  /\ d # NULL
  /\ IF d.finalizeAt # NULL THEN d.finalizeAt <= at ELSE at - d.receivedAt >= OrphanAfter

DueDrafts_NoLegacy(at) ==   \* mutant: the orphan arm of the WHERE clause is missing
  {s \in Slots :
     drafts[s] # NULL /\ drafts[s].finalizeAt # NULL /\ drafts[s].finalizeAt <= at}

DueDrafts(at) ==
  {s \in Slots :
     /\ drafts[s] # NULL
     /\ \/ drafts[s].finalizeAt # NULL /\ drafts[s].finalizeAt <= at
        \/ drafts[s].finalizeAt = NULL /\ drafts[s].receivedAt <= at - OrphanAfter}

(* An older stamp for the same entry is a second tab that fell behind.     *)
Stale(d, p) == d # NULL /\ d.entry = p.entry /\ d.clientTime > p.clientTime

Displaced_Overwritten(s, p) == {}   \* mutant: the upsert overwrites, no rollover

(* The slots a scratch update of another entry makes finalizeDraftRow run  *)
(* on: the slot itself, or none.                                           *)
Displaced(s, p) == {t \in {s} : drafts[t] # NULL /\ drafts[t].entry # p.entry}

Commits_Anew(d) == ~IsBlank(d.body)   \* mutant: no look for the id in the journal

(* Whether finalizing draft d adds an entry, and whether trying to throws. *)
Commits(d) == ~IsBlank(d.body) /\ entries[d.entry] = NULL
Throws_Never(d) == FALSE   \* mutant: the location goes in unchecked
Throws(d) == Commits(d) /\ d.loc \in Refused
-----------------------------------------------------------------------------
Emptied(S) == [s \in Slots |-> IF s \in S THEN NULL ELSE drafts[s]]

(* entries once finalizeDraftRow has run on each slot of S.                *)
Finalized(S) ==
  [e \in Ids |->
     LET d == drafts[SlotOf[e]]
     IN IF SlotOf[e] \in S /\ d.entry = e /\ Commits(d) THEN RowOf(d) ELSE entries[e]]

(* finalizeDraftRow deletes the slot first and commits the entry second:   *)
(* done are the slots it went through, torn those it only deleted.         *)
Finalize(done, torn) ==
  /\ \A s \in done : ~Throws(drafts[s])
  /\ drafts' = Emptied(done \cup torn)
  /\ entries' = Finalized(done)
  /\ lost' = lost \cup {drafts[s].entry : s \in {t \in torn : Commits(drafts[t])}}
  /\ UNCHANGED <<clock, owed>>

(* One sweep over the due slots. A draft that cannot be committed throws   *)
(* out of the loop, after its own slot is gone and wherever the loop was.  *)
Sweep(due) ==
  /\ due # {}
  /\ \/ Finalize(due, {})
     \/ \E s \in due :
          Throws(drafts[s]) /\ \E done \in SUBSET (due \ {s}) : Finalize(done, {s})
-----------------------------------------------------------------------------
Legacy(s) ==
  [entry : OwnIds(s), journal : OwnJournals(s), body : Contents, loc : {Untagged},
   clientTime : {0}, receivedAt : {0}, finalizeAt : {NULL}]

(* An empty journal; scratch rows may be left from before finalize_at.     *)
Init ==
  /\ drafts \in {f \in [Slots -> UNION {Legacy(s) : s \in Slots} \cup {NULL}] :
                   \A s \in Slots : f[s] \in Legacy(s) \cup {NULL}}
  /\ entries = [e \in Ids |-> NULL]
  /\ clock = 0
  /\ owed = {e \in Ids : \E s \in Slots :
               drafts[s] # NULL /\ drafts[s].entry = e /\ ~IsBlank(drafts[s].body)}
  /\ lost = {}

Tick == clock < MaxTime /\ clock' = clock + 1 /\ UNCHANGED <<drafts, entries, history>>

(* PUT /current. A draft of another entry in the slot is finalized first;  *)
(* if that throws, the request fails and this update is not stored.        *)
PutCurrent(s, p, finalizeIn) ==
  /\ clock + finalizeIn <= MaxTime
  /\ p.body \notin BadContents
  /\ ~Stale(drafts[s], p)
  /\ LET old == Displaced(s, p) IN
     \/ /\ \A t \in old : ~Throws(drafts[t])
        /\ entries' = Finalized(old)
        /\ drafts' = [drafts EXCEPT ![s] =
             [entry |-> p.entry, journal |-> p.journal, body |-> p.body, loc |-> p.loc,
              clientTime |-> p.clientTime, receivedAt |-> clock,
              finalizeAt |-> clock + finalizeIn]]
        /\ owed' = IF IsBlank(p.body) THEN owed \ {p.entry} ELSE owed \cup {p.entry}
        /\ UNCHANGED <<clock, lost>>
     \/ old # {} /\ Throws(drafts[s]) /\ Finalize({}, old)

(* DELETE /current names the device only.                                  *)
DiscardDraft(s) ==
  /\ drafts[s] # NULL
  /\ drafts' = [drafts EXCEPT ![s] = NULL]
  /\ owed' = owed \ {drafts[s].entry}
  /\ UNCHANGED <<entries, clock, lost>>

(* PATCH /preferences moves the draft along with the active journal.       *)
ReassignDraft(s, j) ==
  /\ drafts[s] # NULL
  /\ drafts' = [drafts EXCEPT ![s].journal = j]
  /\ UNCHANGED <<entries, clock, history>>

(* clearSlotFor: only if the slot still holds the entry just committed.    *)
ClearSlotFor(s, e) ==
  drafts' = [drafts EXCEPT ![s] = IF @ # NULL /\ @.entry = e THEN NULL ELSE @]

(* What a commit may add.                                                  *)
Committable(p) == p.body \notin BadContents /\ ~IsBlank(p.body) /\ p.loc \notin Refused

(* POST /entries. An id already in the journal is answered with the entry  *)
(* that is there, before the contents are looked at; only the slot is      *)
(* cleared.                                                                *)
CommitEntry(s, p) ==
  /\ \/ entries[p.entry] # NULL /\ UNCHANGED entries
     \/ /\ entries[p.entry] = NULL /\ Committable(p)
        /\ entries' = [entries EXCEPT ![p.entry] = RowOf(p)]
  /\ ClearSlotFor(s, p.entry)
  /\ UNCHANGED <<clock, history>>

(* PUT /entries/:id/location, the one update an entry admits here.         *)
ResolveEntryLocation(e, tag) ==
  /\ entries[e] # NULL
  /\ entries[e].loc # Untagged
  /\ entries' = [entries EXCEPT ![e].loc = tag]
  /\ UNCHANGED <<drafts, clock, history>>

(* GET /state and GET /entries sweep the caller's slots, the interval      *)
(* timer everyone's.                                                       *)
SweepOrphanedDrafts(u) == Sweep({s \in Slots : Owner[s] = u /\ DraftIsDue(drafts[s], clock)})
SweepDueDrafts == Sweep(DueDrafts(clock))

(* The process dies while it finalizes: some slots are through, at most    *)
(* one is between its two statements. A scratch update finalizes only its  *)
(* own slot, and dies before storing itself.                               *)
CrashFinalizing ==
  \E S \in {DueDrafts(clock)} \cup
           {{s} : s \in {t \in Slots : drafts[t] # NULL /\ OwnIds(t) # {drafts[t].entry}}} :
    \E done \in SUBSET S, torn \in {{}} \cup {{s} : s \in S} :
      done \cap torn = {} /\ Finalize(done, torn)

(* ... or between the transaction of POST /entries and clearSlotFor.       *)
CrashCommitting(p) ==
  /\ entries[p.entry] = NULL /\ Committable(p)
  /\ entries' = [entries EXCEPT ![p.entry] = RowOf(p)]
  /\ UNCHANGED <<drafts, clock, history>>

Next ==
  \/ Tick
  \/ \E s \in Slots : \E p \in Requests(s) :
       \/ \E finalizeIn \in Delays : PutCurrent(s, p, finalizeIn)
       \/ CommitEntry(s, p)
       \/ CrashCommitting(p)
  \/ \E s \in Slots : DiscardDraft(s) \/ \E j \in OwnJournals(s) : ReassignDraft(s, j)
  \/ \E e \in Ids, tag \in Tags : ResolveEntryLocation(e, tag)
  \/ \E u \in Users : SweepOrphanedDrafts(u)
  \/ SweepDueDrafts
  \/ CrashFinalizing

(* The event loop turns and setInterval fires; nothing else is sure to.    *)
Fairness == WF_vars(Tick) /\ WF_vars(SweepDueDrafts)

Spec == Init /\ [][Next]_vars /\ Fairness
-----------------------------------------------------------------------------
(* Type invariant: each slot holds a draft of its own device, in one of    *)
(* its user's journals, and each entry is one that may be committed.       *)
TypeOK ==
  /\ drafts \in [Slots -> Draft \cup {NULL}]
  /\ \A s \in Slots : drafts[s] # NULL =>
       drafts[s].entry \in OwnIds(s) /\ drafts[s].journal \in OwnJournals(s)
  /\ entries \in [Ids -> Row \cup {NULL}]
  /\ clock \in Times
  /\ owed \subseteq Ids
  /\ lost \subseteq Ids

InSlot(e) ==
  LET d == drafts[SlotOf[e]] IN d # NULL /\ d.entry = e /\ ~IsBlank(d.body)

(* Scratch the server accepted stays in its slot until it is in the        *)
(* journal: rollovers, sweeps, commits of other entries, late commits and  *)
(* retries never drop it. What does (a crash or a failed commit between    *)
(* the slot's delete and the entry's insert) is counted in lost.           *)
OwedIsKept == \A e \in owed : InSlot(e) \/ entries[e] # NULL \/ e \in lost

(* The comment on drafts in server/db.js: losing a slot costs at most the  *)
(* last few seconds of typing. Here: never an entry the server had.        *)
OwedSurvivesCrash == \A e \in owed : InSlot(e) \/ entries[e] # NULL

(* Every accepted scratch is settled: in the journal by the janitor if     *)
(* nobody else acts ("how a closed tab still reaches the journal"), unless *)
(* the device discards it or it is lost as above.                          *)
OwedIsSettled ==
  \A e \in Ids : (e \in owed) ~> (entries[e] # NULL \/ e \in lost \/ e \notin owed)

(* The journal is what Journal.tla promises: whatever the handlers, the    *)
(* sweeps and the crashes do, entries are added once, with a non-blank     *)
(* body, in a journal of their own user, and never change again but for    *)
(* the location of a tagged one.                                           *)
J == INSTANCE Journal WITH
  Rows <- [e \in Ids |->
             {r \in Row : ~IsBlank(r.body) /\ r.journal \in OwnJournals(SlotOf[e])}]

IsJournal == J!Spec
=============================================================================
