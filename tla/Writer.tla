-------------------------------- MODULE Writer --------------------------------
(***************************************************************************)
(* The writing device against its server: the tabs of one browser, each    *)
(* with its session (public/js/session.js, app.js), the local store they   *)
(* share (public/js/store.js), the network, and the server of Entries.     *)
(*                                                                         *)
(* The client owns the lifecycle: it mints the entry's id at the first     *)
(* real input, posts scratch while it writes, and commits the whole entry  *)
(* when it is finished. The server's janitor commits the scratch it last   *)
(* heard of. Both write the same journal, and the first one wins.          *)
(*                                                                         *)
(* A tab's event handlers run to completion; what they await is a step of  *)
(* its own. Server and client read the same clock here.                    *)
(*                                                                         *)
(* finished and adrift are history variables: what finish() last handed    *)
(* over for each entry, and the entries whose scratch the server had no    *)
(* chance to follow, because they took an input when they were already due *)
(* or had contents it refuses.                                             *)
(***************************************************************************)
EXTENDS Entries, FiniteSets, Sequences, SequencesExt

CONSTANTS
  TooLarge,      \* contents that readJSON refuses (413)
  Tabs,          \* tabs of the one browser, which share its device id
  Device,        \* ... and so its scratch slot
  Journal,       \* the active journal
  FinishAfter,   \* finishAfterMs, and the finalizeIn of every scratch post
  MaySignOut,    \* whether the user signs out
  MayPaste,      \* ... and whether they paste, or pick photos
  MayLeave,      \* ... and whether pages are closed or die
  Net,           \* "lossy": requests and replies are lost, delayed, reordered
                 \* "lossless": delayed and reordered only
                 \* "prompt": answered in order, before a timer or page load
  MaxCalls       \* bound: requests in flight

ASSUME WriterConstantsOK ==
  /\ Device \in Slots /\ Journal \in OwnJournals(Device)
  /\ IsFiniteSet(Ids) /\ Ids = 1 .. Cardinality(Ids) /\ OwnIds(Device) = Ids
  /\ FinishAfter \in Delays
  /\ \A n \in Times : n + FinishAfter <= MaxTime => n \in Stamps   \* see TimePasses
  /\ Net \in {"lossy", "lossless", "prompt"}
  /\ MaySignOut => Cardinality(Tabs) = 1   \* a second tab blocks deleting the store

(* A row of the local store, which takes any contents.                     *)
LocalRow == [journal : Journals, body : Bodies, loc : Tags \cup {Untagged}, clientTime : Stamps]

ASSUME NullIsNoneOfThese ==
  NULL \notin Tabs \cup Bodies \cup Requests(Device) \cup [row : LocalRow, synced : BOOLEAN]

VARIABLES
  page,      \* [Tabs -> {"closed", "booting", "open"}]
  seen,      \* [Tabs -> the draft GET /state reported, until it is adopted]
  current,   \* [Tabs -> session.current, or NULL]
  unposted,  \* tabs whose draftTimer is set
  store,     \* [Ids -> the local row, with synced, or NULL]
  calls,     \* requests in flight, in the order they were sent
  minted,    \* how many entry ids have been made up
  finished,  \* history, see above
  adrift     \* history, see above

client == <<page, seen, current, unposted, store, minted, finished, adrift>>
server == <<drafts, entries, clock, owed, lost>>
allVars == <<server, client, calls>>
-----------------------------------------------------------------------------
Entry(e, body) ==
  [entry |-> e, journal |-> Journal, body |-> body, loc |-> Untagged, clientTime |-> clock]

(* What the server refuses of it, and goes on refusing.                    *)
Unfit == BadContents \cup TooLarge

IsStale(c) == c # NULL /\ clock - c.clientTime >= FinishAfter

(* A request: who waits for the reply (NULL once that page is gone), what  *)
(* it carries, the reply, and the entries a flush has yet to send.         *)
Call(kind, t, p, rest) == [kind |-> kind, tab |-> t, load |-> p, reply |-> NULL, rest |-> rest]

Send(c) == Len(calls) < MaxCalls /\ calls' = Append(calls, c)

(* The call the server may take next.                                      *)
Serveable(i) ==
  /\ calls[i].reply = NULL
  /\ Net = "prompt" => \A k \in 1 .. i - 1 : calls[k].reply # NULL
-----------------------------------------------------------------------------
HandOver_PutSynced(t, c) ==   \* mutant: put() without { synced: false }
  IF IsBlank(c.body)
  THEN Send(Call("discard", t, c, {})) /\ UNCHANGED <<store, finished>>
  ELSE /\ Send(Call("commit", t, c, {}))
       /\ finished' = [finished EXCEPT ![c.entry] = c.body]
       /\ store' = [store EXCEPT ![c.entry] = [row |-> RowOf(c), synced |-> TRUE]]

(* finish() and commit(): the session lets go of the entry, which goes to  *)
(* the local store and then to the server. A blank entry only lets go of   *)
(* the slot. A page that dies before the store is written has left what it *)
(* would have left by dying before it finished.                            *)
HandOver(t, c) ==
  IF IsBlank(c.body)
  THEN Send(Call("discard", t, c, {})) /\ UNCHANGED <<store, finished>>
  ELSE /\ Send(Call("commit", t, c, {}))
       /\ finished' = [finished EXCEPT ![c.entry] = c.body]
       /\ store' = [store EXCEPT ![c.entry] = [row |-> RowOf(c), synced |-> FALSE]]

(* noteInput, of input that makes the contents body: an entry begins with  *)
(* the first real input. over says whether finishIfStale came first and    *)
(* let the last entry roll over.                                           *)
NoteInput(t, body, over) ==
  LET c == current[t]
      fresh == c = NULL \/ over
  IN /\ page[t] = "open"
     /\ IF over THEN HandOver(t, c) ELSE UNCHANGED <<store, finished, calls>>
     /\ IF fresh /\ IsBlank(body)
        THEN current' = [current EXCEPT ![t] = NULL] /\ UNCHANGED minted
        ELSE IF fresh
        THEN /\ minted + 1 \in Ids
             /\ minted' = minted + 1
             /\ current' = [current EXCEPT ![t] = Entry(minted', body)]
        ELSE /\ c.body # body \/ c.clientTime # clock
             /\ current' = [current EXCEPT ![t] = Entry(c.entry, body)]
             /\ UNCHANGED minted
     /\ unposted' = IF current'[t] = NULL THEN unposted \ {t} ELSE unposted \cup {t}
     /\ UNCHANGED <<page, seen, server>>

Stray(t, body, late) ==
  adrift' = IF current'[t] # NULL /\ (body \in Unfit \/ late)
            THEN adrift \cup {current'[t].entry} ELSE adrift

Keystroke_Unchecked(t, body) ==   \* mutant: beforeinput does not call finishIfStale
  NoteInput(t, body, FALSE) /\ Stray(t, body, FALSE)

(* A keystroke or a deletion, which beforeinput checks first; a paste or a *)
(* picked photo, which nothing does.                                       *)
Keystroke(t, body) == NoteInput(t, body, IsStale(current[t])) /\ Stray(t, body, FALSE)
Paste(t, body) == MayPaste /\ NoteInput(t, body, FALSE) /\ Stray(t, body, IsStale(current[t]))

Finish_TimerLeft(t) ==   \* mutant: no clearTimeout(draftTimer)
  /\ current[t] # NULL
  /\ HandOver(t, current[t])
  /\ current' = [current EXCEPT ![t] = NULL]
  /\ UNCHANGED <<page, seen, unposted, minted, adrift, server>>

(* The finish timer, the save-hint tick, or the writer's own tap.          *)
Finish(t) ==
  /\ current[t] # NULL
  /\ HandOver(t, current[t])
  /\ current' = [current EXCEPT ![t] = NULL]
  /\ unposted' = unposted \ {t}
  /\ UNCHANGED <<page, seen, minted, adrift, server>>

(* postDraft: the debounce timer, leaving the write view, hiding the tab.  *)
PostDraft(t) ==
  /\ current[t] # NULL
  /\ Send(Call("put", t, current[t], {}))
  /\ unposted' = unposted \ {t}
  /\ UNCHANGED <<page, seen, current, store, minted, finished, adrift, server>>

(* flushUnsynced, at boot and whenever the tab becomes visible: one POST   *)
(* after the other, oldest first, given up at the first that fails.        *)
Unsynced == {e \in Ids : store[e] # NULL /\ ~store[e].synced}

Pending ==
  {[entry |-> e, journal |-> store[e].row.journal, body |-> store[e].row.body,
    loc |-> store[e].row.loc, clientTime |-> store[e].row.clientTime] : e \in Unsynced}

FlushCall_NewestFirst(t, rest) ==   \* mutant: sorted the other way
  LET first == CHOOSE p \in rest : \A q \in rest : p.entry >= q.entry
  IN Call("commit", t, first, rest \ {first})

FlushCall(t, rest) ==
  LET first == CHOOSE p \in rest : \A q \in rest : p.entry <= q.entry
  IN Call("commit", t, first, rest \ {first})

FlushUnsynced(t) ==
  /\ page[t] = "open" /\ Pending # {}
  /\ Send(FlushCall(t, Pending))
  /\ UNCHANGED <<client, server>>

MergeEntries_Replaces(t) ==   \* mutant: the store becomes what was listed
  /\ page[t] = "open"
  /\ \E listed \in SUBSET {e \in Ids : entries[e] # NULL} :
       store' = [e \in Ids |-> IF e \in listed THEN [row |-> entries[e], synced |-> TRUE] ELSE NULL]
  /\ UNCHANGED <<page, seen, current, unposted, minted, finished, adrift, calls, server>>

(* refreshEntries: merge() folds what the server listed into the store.    *)
(* The list may be older than the journal is by now: any part of it.       *)
MergeEntries(t) ==
  /\ page[t] = "open"
  /\ \E listed \in (SUBSET {e \in Ids : entries[e] # NULL}) \ {{}} :
       store' = [e \in Ids |-> IF e \in listed THEN [row |-> entries[e], synced |-> TRUE]
                               ELSE store[e]]
  /\ UNCHANGED <<page, seen, current, unposted, minted, finished, adrift, calls, server>>
-----------------------------------------------------------------------------
(* GET /state sweeps, then reports the slot; the page adopts the report    *)
(* when it arrives.                                                        *)
OpenPage(t) ==
  /\ page[t] = "closed"
  /\ Net = "prompt" => calls = <<>>
  /\ \/ SweepOrphanedDrafts(Owner[Device])
     \/ ~DraftIsDue(drafts[Device], clock) /\ UNCHANGED server
  /\ page' = [page EXCEPT ![t] = "booting"]
  /\ seen' = [seen EXCEPT ![t] = drafts'[Device]]
  /\ UNCHANGED <<current, unposted, store, minted, finished, adrift, calls>>

Adopt(t) ==
  /\ page[t] = "booting"
  /\ page' = [page EXCEPT ![t] = "open"]
  /\ seen' = [seen EXCEPT ![t] = NULL]
  /\ current' = [current EXCEPT ![t] =
       LET d == seen[t]
       IN IF d = NULL THEN NULL
          ELSE [entry |-> d.entry, journal |-> d.journal, body |-> d.body, loc |-> d.loc,
                clientTime |-> d.clientTime]]
  /\ UNCHANGED <<unposted, store, minted, finished, adrift, calls, server>>

(* The page goes away, with its requests still under way. On pagehide it   *)
(* sends its surface once more, in a request with no finalizeIn.           *)
Orphaned(t) ==
  [i \in DOMAIN calls |-> IF calls[i].tab = t THEN [calls[i] EXCEPT !.tab = NULL] ELSE calls[i]]

Leave(t) ==
  /\ page' = [page EXCEPT ![t] = "closed"]
  /\ seen' = [seen EXCEPT ![t] = NULL]
  /\ current' = [current EXCEPT ![t] = NULL]
  /\ unposted' = unposted \ {t}

ClosePage(t) ==
  /\ MayLeave /\ page[t] = "open"
  /\ \/ current[t] = NULL /\ calls' = Orphaned(t)
     \/ /\ current[t] # NULL /\ Len(calls) < MaxCalls
        /\ calls' = Append(Orphaned(t), Call("pagehide", NULL, [current[t] EXCEPT !.clientTime = clock], {}))
  /\ Leave(t)
  /\ UNCHANGED <<store, minted, finished, adrift, server>>

(* ... or dies, with no event at all.                                      *)
KillPage(t) ==
  /\ MayLeave /\ page[t] # "closed"
  /\ calls' = Orphaned(t)
  /\ Leave(t)
  /\ UNCHANGED <<store, minted, finished, adrift, server>>

(* Signing out posts the draft, wipes the local store and reloads.         *)
SignOut(t) ==
  /\ MaySignOut /\ page[t] = "open"
  /\ \/ current[t] = NULL /\ calls' = Orphaned(t)
     \/ /\ current[t] # NULL /\ Len(calls) < MaxCalls
        /\ calls' = Append(Orphaned(t), Call("put", NULL, current[t], {}))
  /\ store' = [e \in Ids |-> NULL]
  /\ Leave(t)
  /\ UNCHANGED <<minted, finished, adrift, server>>
-----------------------------------------------------------------------------
Drop(i) == calls' = RemoveAt(calls, i)

(* The server takes a scratch post. A pagehide post it refuses: updateDraft*)
(* requires finalizeIn. The client looks at none of these replies.         *)
ServePut(i) ==
  LET c == calls[i] IN
  /\ Serveable(i)
  /\ \/ /\ c.kind = "put" /\ c.load.body \notin TooLarge
        /\ PutCurrent(Device, c.load, FinishAfter)
     \/ /\ c.kind = "put" /\ (c.load.body \in Unfit \/ Stale(drafts[Device], c.load))
        /\ UNCHANGED server
     \/ c.kind = "pagehide" /\ UNCHANGED server
  /\ Drop(i)
  /\ UNCHANGED client

ServeDiscard(i) ==
  /\ Serveable(i) /\ calls[i].kind = "discard"
  /\ \/ DiscardDraft(Device)
     \/ drafts[Device] = NULL /\ UNCHANGED server
  /\ Drop(i)
  /\ UNCHANGED client

(* What is too large is not read, and of bad contents only the id is       *)
(* looked up.                                                              *)
Refuses(p) == p.body \in TooLarge \/ (p.body \in BadContents /\ entries[p.entry] = NULL)

(* ... a commit, whose reply is the entry that is in the journal now, or   *)
(* dies after storing it. When it refuses, the commit or the flush that    *)
(* waits gives up.                                                         *)
ServeCommit(i) ==
  /\ Serveable(i) /\ calls[i].kind = "commit"
  /\ LET p == calls[i].load IN
     \/ /\ p.body \notin TooLarge /\ CommitEntry(Device, p)
        /\ calls' = [calls EXCEPT ![i].reply = entries'[p.entry]]
     \/ Net = "lossy" /\ p.body \notin TooLarge /\ CrashCommitting(p) /\ Drop(i)
     \/ Refuses(p) /\ Drop(i) /\ UNCHANGED server
  /\ UNCHANGED client

(* The reply reaches the tab that waits for it: put(saved), and the next   *)
(* request of a flush. To a page that is gone it does not matter.          *)
CommitAnswered(i) ==
  LET c == calls[i] IN
  /\ c.reply # NULL
  /\ IF c.tab = NULL THEN Drop(i) /\ UNCHANGED store
     ELSE /\ calls' = IF c.rest = {} THEN RemoveAt(calls, i)
                      ELSE [calls EXCEPT ![i] = FlushCall(c.tab, c.rest)]
          /\ store' = [store EXCEPT ![c.load.entry] = [row |-> c.reply, synced |-> TRUE]]
  /\ UNCHANGED <<page, seen, current, unposted, minted, finished, adrift, server>>

(* A request, or its reply, never arrives; a flush gives up.               *)
Lose(i) == Net = "lossy" /\ Drop(i) /\ UNCHANGED <<client, server>>

(* Timers run in real time. On a prompt network a second is long enough    *)
(* for the debounce and a round trip. The bound leaves every scratch post  *)
(* a deadline within MaxTime.                                              *)
TimePasses ==
  /\ clock + FinishAfter < MaxTime
  /\ Net = "prompt" => calls = <<>> /\ unposted = {} /\ \A t \in Tabs : page[t] # "booting"
  /\ Tick
  /\ UNCHANGED <<client, calls>>

(* The interval timer, or the sweep that precedes a GET /entries.          *)
Janitor ==
  /\ SweepDueDrafts \/ SweepOrphanedDrafts(Owner[Device])
  /\ UNCHANGED <<client, calls>>

ServerDies == Net = "lossy" /\ CrashFinalizing /\ UNCHANGED <<client, calls>>
-----------------------------------------------------------------------------
WriterInit ==
  /\ Init
  /\ drafts = [s \in Slots |-> NULL]
  /\ page = [t \in Tabs |-> "closed"]
  /\ seen = [t \in Tabs |-> NULL]
  /\ current = [t \in Tabs |-> NULL]
  /\ unposted = {}
  /\ store = [e \in Ids |-> NULL]
  /\ calls = <<>>
  /\ minted = 0
  /\ finished = [e \in Ids |-> NULL]
  /\ adrift = {}

WriterNext ==
  \/ \E t \in Tabs :
       \/ \E body \in Bodies : Keystroke(t, body) \/ Paste(t, body)
       \/ Finish(t) \/ PostDraft(t) \/ FlushUnsynced(t) \/ MergeEntries(t)
       \/ OpenPage(t) \/ Adopt(t) \/ ClosePage(t) \/ KillPage(t) \/ SignOut(t)
  \/ \E i \in DOMAIN calls :
       ServePut(i) \/ ServeDiscard(i) \/ ServeCommit(i) \/ CommitAnswered(i) \/ Lose(i)
  \/ TimePasses \/ Janitor \/ ServerDies

(* The writer comes back to the journal; the server goes through what it    *)
(* has received. No fault strikes every time: a page that is opened again   *)
(* and again loads one day and gets to its flush, and an entry that is      *)
(* posted again and again is received, and answered to the page that waits. *)
WriterFairness ==
  /\ \A t \in Tabs :
       WF_allVars(OpenPage(t)) /\ SF_allVars(Adopt(t)) /\ SF_allVars(FlushUnsynced(t))
  /\ WF_allVars(\E i \in DOMAIN calls :
       ServePut(i) \/ ServeDiscard(i) \/ ServeCommit(i) \/ CommitAnswered(i))
  /\ \A e \in Ids :
       /\ SF_allVars(\E i \in DOMAIN calls :
            calls[i].load.entry = e /\ calls[i].tab # NULL /\ ServeCommit(i))
       /\ SF_allVars(\E i \in DOMAIN calls :
            calls[i].load.entry = e /\ calls[i].tab # NULL /\ CommitAnswered(i))

WriterSpec == WriterInit /\ [][WriterNext]_allVars
FairWriterSpec == WriterSpec /\ WriterFairness
-----------------------------------------------------------------------------
(* Type invariant of the client half; the server half is TypeOK's.         *)
Sessions == Requests(Device)

WriterTypeOK ==
  /\ TypeOK
  /\ page \in [Tabs -> {"closed", "booting", "open"}]
  /\ seen \in [Tabs -> Draft \cup {NULL}]
  /\ current \in [Tabs -> Sessions \cup {NULL}]
  /\ unposted \subseteq {t \in Tabs : current[t] # NULL}
  /\ store \in [Ids -> [row : LocalRow, synced : BOOLEAN] \cup {NULL}]
  /\ \A i \in DOMAIN calls :
       /\ calls[i].kind \in {"put", "pagehide", "discard", "commit"}
       /\ calls[i].tab \in Tabs \cup {NULL} /\ calls[i].load \in Sessions
       /\ calls[i].reply \in Row \cup {NULL} /\ calls[i].rest \subseteq Sessions
  /\ minted \in 0 .. Cardinality(Ids)
  /\ finished \in [Ids -> Bodies \cup {NULL}]
  /\ adrift \subseteq Ids

(* app.js: an entry that is finished goes into the local journal at once   *)
(* and stays queued until the server has it, "so writing is never lost to  *)
(* a dropped connection". Whatever is lost, retried, swept or merged, a    *)
(* finished entry is in the journal or waits in the store, in the form it  *)
(* was finished in.                                                        *)
FinishedIsSafe ==
  \A e \in Ids : finished[e] # NULL =>
    \/ entries[e] # NULL
    \/ store[e] # NULL /\ ~store[e].synced /\ store[e].row.body = finished[e]

(* An entry the server refuses is before e in the queue, or e is one.      *)
Blocked(e) == \E p \in Pending : p.entry <= e /\ Refuses(p)

(* The retries come to an end: each finished entry is in the journal at    *)
(* last, though requests and replies are lost, the server dies and the     *)
(* page is closed or killed on the way; unless the queue is blocked for    *)
(* good, or again and again, by an entry the server refuses.               *)
FinishedReachesJournal ==
  \A e \in Ids : (finished[e] # NULL) ~> (entries[e] # NULL \/ []<>Blocked(e))

(* app.js:689-691, "if that fails it stays queued and is retried, so       *)
(* writing is never lost": a finished entry the server would take is in    *)
(* the journal at last.                                                    *)
FitReachesJournal ==
  \A e \in Ids : (finished[e] # NULL /\ finished[e] \notin Unfit) ~> (entries[e] # NULL)

(* store.js: reconciling local and remote is a set union. A row the store  *)
(* takes for acknowledged is in the journal with the same contents, so     *)
(* that read mode never shows what the server does not have.               *)
SyncedMatchesJournal ==
  \A e \in Ids : store[e] # NULL /\ store[e].synced =>
    entries[e] # NULL /\ store[e].row.body = entries[e].body

(* The journal has each finished entry as it was last finished: the commit *)
(* "carries the entry's full content", and neither the scratch slot nor    *)
(* the janitor has a say in it; unless the entry had gone adrift.          *)
FinishedIsKept ==
  \A e \in Ids \ adrift :
    finished[e] # NULL /\ entries[e] # NULL => entries[e].body = finished[e]

(* editor.js:52-57, "the old entry commits with exactly what was written": *)
(* the same, of every entry.                                               *)
FinishedIsEntire ==
  \A e \in Ids : finished[e] # NULL /\ entries[e] # NULL => entries[e].body = finished[e]

(* store.js on merge(): entries committed locally but not yet acknowledged *)
(* are left alone.                                                         *)
MergeLeavesUnsynced ==
  [][\A t \in Tabs : MergeEntries(t) => \A e \in Unsynced : store'[e] = store[e]]_allVars

(* app.js on pagehide: whatever is on the surface goes out on the way off  *)
(* the page. When the server has dealt with that request it has the text,  *)
(* in the slot or in the journal.                                          *)
ClosingCostsNothing ==
  [][\A i \in DOMAIN calls :
       calls[i].kind = "pagehide" /\ ServePut(i) =>
         LET p == calls[i].load
             slot == drafts'[Device]
         IN \/ slot # NULL /\ slot.entry = p.entry /\ slot.body = p.body
            \/ entries'[p.entry] # NULL]_allVars
=============================================================================
