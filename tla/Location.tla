------------------------------ MODULE Location ------------------------------
(***************************************************************************)
(* Location tagging in one tab (public/js/location.js): automatic tags,    *)
(* picks made for the open entry or before there is one, and the geocoding *)
(* that turns a coordinate into a name, with the session, the server and   *)
(* the list of read mode they land in.                                     *)
(*                                                                         *)
(* Every await of the service is a step: the position, the names, the      *)
(* centroid, and a PUT of a location. Each may fail. An async function is  *)
(* a task; what it does between two awaits is one step.                    *)
(*                                                                         *)
(* A tag is known by the pick that asked for it: picks are numbered in the *)
(* order they are made, automatic tags among them. A granularity is off or *)
(* on; a name and a coordinate are how far the tag has been resolved. The  *)
(* names a position has are abstracted to the failures.                    *)
(*                                                                         *)
(* target and late are history variables: the entry each pick was made     *)
(* for, and the picks made before an entry whose position came after it    *)
(* had begun.                                                              *)
(***************************************************************************)
EXTENDS Integers

CONSTANTS
  MaxEntries,   \* bound: entries begun
  MaxPicks,     \* bound: picks and automatic tags
  MaxFailures   \* bound: awaits that fail

ASSUME LocationConstants == MaxEntries \in Nat \ {0} /\ MaxPicks \in Nat /\ MaxFailures \in Nat

VARIABLES
  current,      \* the entry of session.current, 0 for none
  begun,        \* how many entries have been begun; the newest is entry begun
  local,        \* the location of each entry, in the session and then in its commit
  journal,      \* the location of the server's row
  list, seen,   \* a list on its way; the entries of read mode
  remembered, pendingLocation, pendingToken, epochs, resolving, \* the service
  picker,       \* the entry an open location picker was opened for, Closed
  tasks,        \* async functions under way
  picks, failures, \* how many picks have been made, and awaits have failed
  target, late  \* history, see above

service == <<remembered, pendingLocation, pendingToken, epochs, resolving>>
rows == <<journal, list, seen>>
history == <<target, late>>
vars == <<current, begun, local, rows, service, picker, tasks, picks, failures, history>>

Ids == 1 .. MaxEntries
Picks == 1 .. MaxPicks
None == 0      \* no entry, no pick
Closed == -1
Absent == [pick |-> None, at |-> "absent"]   \* no row, no reply
Untagged == [pick |-> None, at |-> "off"]

Loc == [pick : Picks \cup {None}, at : {"off", "raw", "named", "resolved", "absent"}]
Tag(p, at) == [pick |-> p, at |-> at]
IsTagged(l) == l.at \in {"raw", "named", "resolved"}
Unresolved(l) == l.at \in {"raw", "named"}

(* stamp is the epoch of the entry, or the pending token, a task remembers.*)
Task == [at : {"position", "putTag", "names", "putName", "centroid", "putResolved", "putPlace",
               "pendingPosition", "pendingNames", "pendingCentroid"},
         entry : Ids \cup {None}, stamp : Nat, loc : Loc]
New(at, e, stamp, l) == [at |-> at, entry |-> e, stamp |-> stamp, loc |-> l]

Live_Always(t) == TRUE   \* mutant: no generations
Live(t) == t.stamp = epochs[t.entry]
Bump(e) == epochs' = [epochs EXCEPT ![e] = @ + 1]
-----------------------------------------------------------------------------
Init ==
  /\ current = None /\ begun = 0
  /\ local = [e \in Ids |-> Untagged]
  /\ journal = [e \in Ids |-> Absent] /\ list = journal /\ seen = journal
  /\ remembered \in BOOLEAN
  /\ pendingLocation = Absent /\ pendingToken = 0
  /\ epochs = [e \in Ids |-> 0] /\ resolving = {}
  /\ picker = Closed
  /\ tasks = {} /\ picks = 0 /\ failures = 0
  /\ target = [p \in Picks |-> None] /\ late = {}

(* Picks made while no entry was open are for the next one.                *)
Aimed(e) == [p \in Picks |-> IF p <= picks /\ target[p] = None THEN e ELSE target[p]]

(* resolveIfNeeded begins for each given entry that needs it and is not    *)
(* being resolved already: the tasks it adds.                              *)
ToResolve(S, l) == {e \in S : Unresolved(l[e]) /\ e \notin resolving}
Resolve(S, l, stamps) == {New("names", e, stamps[e], l[e]) : e \in ToResolve(S, l)}
-----------------------------------------------------------------------------
(* noteInput on an empty session, and autoTag of the new entry.            *)
AutoTagPending_Kept(e) ==   \* mutant: the pending location is not used up
  /\ pendingLocation # Absent
  /\ pendingToken' = pendingToken + 1
  /\ Bump(e)
  /\ local' = [local EXCEPT ![e] = pendingLocation]
  /\ target' = Aimed(e)
  /\ UNCHANGED <<picks, remembered, pendingLocation, tasks, resolving>>

AutoTagPending(e) ==
  /\ pendingLocation # Absent
  /\ pendingLocation' = Absent /\ pendingToken' = pendingToken + 1
  /\ Bump(e)
  /\ local' = [local EXCEPT ![e] = pendingLocation]
  /\ tasks' = tasks \cup Resolve({e}, local', epochs')
  /\ resolving' = resolving \cup ToResolve({e}, local')
  /\ target' = Aimed(e)
  /\ UNCHANGED <<picks, remembered>>

AutoTagRemembered(e) ==
  /\ pendingLocation = Absent
  /\ IF ~remembered
     THEN target' = Aimed(e) /\ UNCHANGED <<tasks, picks, epochs>>
     ELSE /\ picks < MaxPicks /\ picks' = picks + 1
          /\ Bump(e)
          /\ tasks' = tasks \cup {New("position", e, epochs'[e], Tag(picks', "raw"))}
          /\ target' = [Aimed(e) EXCEPT ![picks'] = e]
  /\ UNCHANGED <<local, pendingLocation, pendingToken, resolving, remembered>>

(* The picker is modal: nothing is typed while it is open.                 *)
StartEntry ==
  /\ current = None /\ picker = Closed /\ begun < MaxEntries
  /\ begun' = begun + 1 /\ current' = begun'
  /\ AutoTagPending(begun') \/ AutoTagRemembered(begun')
  /\ UNCHANGED <<rows, picker, late, failures>>

(* setEntries shows the rows l and has the unresolved ones among S         *)
(* resolved again.                                                         *)
SetEntries(l, S) ==
  /\ seen' = l
  /\ tasks' = tasks \cup Resolve(S, l, epochs)
  /\ resolving' = resolving \cup ToResolve(S, l)
  /\ UNCHANGED <<remembered, pendingLocation, pendingToken, epochs>>

(* finish and commit: the row is in the list before the request is sent.   *)
FinishEntry ==
  /\ current # None
  /\ current' = None
  /\ SetEntries([seen EXCEPT ![current] = local[current]], Ids)
  /\ UNCHANGED <<begun, local, journal, list, picker, picks, failures, history>>

(* The server's half of the commit, any time later. Its reply is a list of *)
(* one row: see below.                                                     *)
Commit(e) ==
  /\ e \in 1 .. begun /\ e # current
  /\ journal[e] = Absent
  /\ journal' = [journal EXCEPT ![e] = local[e]]
  /\ UNCHANGED <<current, begun, local, list, seen, service, picker, tasks, picks, failures, history>>

(* refreshEntries: what is stored is shown first, the list the server read *)
(* when it arrives. Rows that were not in the journal then are kept.       *)
NoRows == [e \in Ids |-> Absent]
ListEntries ==
  /\ list = NoRows /\ journal # NoRows
  /\ list' = journal
  /\ SetEntries(seen, Ids)
  /\ UNCHANGED <<current, begun, local, journal, picker, picks, failures, history>>

RefreshEntries ==
  /\ list # NoRows
  /\ list' = NoRows
  /\ SetEntries([e \in Ids |-> IF list[e] # Absent THEN list[e] ELSE seen[e]], Ids)
  /\ UNCHANGED <<current, begun, local, journal, picker, picks, failures, history>>
-----------------------------------------------------------------------------
(* The picker keeps the entry it was opened with.                          *)
OpenPicker ==
  /\ picker = Closed
  /\ picker' = current
  /\ UNCHANGED <<current, begun, local, rows, service, tasks, picks, failures, history>>

Picked ==
  /\ picker # Closed /\ picks < MaxPicks
  /\ picks' = picks + 1
  /\ target' = [target EXCEPT ![picks'] = picker]
  /\ picker' = Closed
  /\ UNCHANGED <<current, begun, rows, late, failures>>

(* tag: a level for an entry. Clearing one that is no longer open is       *)
(* refused by the server.                                                  *)
TagEntry(on) ==
  /\ Picked /\ picker # None
  /\ remembered' = on
  /\ pendingLocation' = Absent /\ pendingToken' = pendingToken + 1
  /\ Bump(picker)
  /\ IF on
     THEN /\ tasks' = tasks \cup {New("position", picker, epochs'[picker], Tag(picks', "raw"))}
          /\ UNCHANGED local
     ELSE /\ local' = IF picker = current THEN [local EXCEPT ![picker] = Tag(picks', "off")]
                      ELSE local
          /\ UNCHANGED tasks
  /\ UNCHANGED resolving

(* tagPlace: a tag that needs no resolving.                                *)
TagPlace ==
  /\ Picked /\ picker # None
  /\ remembered' = TRUE
  /\ pendingLocation' = Absent /\ pendingToken' = pendingToken + 1
  /\ Bump(picker)
  /\ IF picker = current
     THEN local' = [local EXCEPT ![picker] = Tag(picks', "resolved")] /\ UNCHANGED tasks
     ELSE /\ tasks' = tasks \cup {New("putPlace", picker, epochs'[picker], Tag(picks', "resolved"))}
          /\ UNCHANGED local
  /\ UNCHANGED resolving

(* tagPending, and tagPlace, without an entry.                             *)
TagPending(on) ==
  /\ Picked /\ picker = None
  /\ remembered' = on
  /\ pendingToken' = pendingToken + 1
  /\ IF on
     THEN /\ tasks' = tasks \cup {New("pendingPosition", None, pendingToken', Tag(picks', "raw"))}
          /\ UNCHANGED pendingLocation
     ELSE pendingLocation' = Absent /\ UNCHANGED tasks
  /\ UNCHANGED <<local, epochs, resolving>>

TagPendingPlace ==
  /\ Picked /\ picker = None
  /\ remembered' = TRUE
  /\ pendingToken' = pendingToken + 1
  /\ pendingLocation' = Tag(picks', "resolved")
  /\ UNCHANGED <<local, epochs, resolving, tasks>>
-----------------------------------------------------------------------------
(* The steps of a task t. Ends, or goes on as u; a task that resolves      *)
(* leaves the entry's mark in resolving until it ends.                     *)
Ends_NoFinally(t) ==   \* mutant: the entry stays marked as being resolved
  tasks' = tasks \ {t} /\ UNCHANGED resolving

Ends(t) ==
  /\ tasks' = tasks \ {t}
  /\ resolving' = IF t.at \in {"names", "putName", "centroid", "putResolved"}
                  THEN resolving \ {t.entry} ELSE resolving
GoesOn(t, at, l) == tasks' = (tasks \ {t}) \cup {[t EXCEPT !.at = at, !.loc = l]}

Task_(t, at) ==
  /\ t \in tasks /\ t.at = at
  /\ UNCHANGED <<current, begun, list, picker, picks, failures, target, remembered,
                 epochs>>
NoPending == UNCHANGED <<pendingLocation, pendingToken, late>>

IsPut(t) == t.at \in {"putTag", "putPlace", "putName", "putResolved"}
Elsewhere == UNCHANGED <<current, begun, local, list, seen, remembered, pendingLocation,
                         pendingToken, epochs, picker, picks, history>>

(* The server has no such entry yet, or it is untagged: it refuses.        *)
Refused(t) ==
  /\ t \in tasks /\ IsPut(t) /\ ~IsTagged(journal[t.entry])
  /\ Ends(t)
  /\ UNCHANGED <<journal, failures>> /\ Elsewhere

(* Failures: no position, no names, no centroid, a request or only its     *)
(* reply lost.                                                             *)
Fails(t) ==
  /\ t \in tasks /\ failures < MaxFailures
  /\ failures' = failures + 1
  /\ Ends(t)
  /\ \/ UNCHANGED journal
     \/ IsPut(t) /\ IsTagged(journal[t.entry]) /\ journal' = [journal EXCEPT ![t.entry] = t.loc]
  /\ Elsewhere

(* After the tag is on the entry: resolveIfNeeded, unless it is under way. *)
ThenResolve(t, l) ==
  IF t.entry \in resolving THEN tasks' = tasks \ {t} /\ UNCHANGED resolving
  ELSE GoesOn(t, "names", l) /\ resolving' = resolving \cup {t.entry}

(* applyLocation for the open entry is at once.                            *)
ApplyOpen(t, l) == t.entry = current /\ local' = [local EXCEPT ![t.entry] = l]

PositionArrives(t) ==
  /\ Task_(t, "position") /\ NoPending /\ UNCHANGED rows
  /\ IF ~Live(t) THEN Ends(t) /\ UNCHANGED local
     ELSE \/ ApplyOpen(t, t.loc) /\ ThenResolve(t, t.loc)
          \/ t.entry # current /\ GoesOn(t, "putTag", t.loc) /\ UNCHANGED <<local, resolving>>

(* resolveEntryLocation at the server, which takes any tag for a tagged    *)
(* entry, and its reply.                                                   *)
Put(t) ==
  /\ IsTagged(journal[t.entry])
  /\ journal' = [journal EXCEPT ![t.entry] = t.loc]
  /\ seen' = [seen EXCEPT ![t.entry] = t.loc]
  /\ UNCHANGED local

TagIsPut(t) ==
  /\ Task_(t, "putTag") /\ NoPending /\ Put(t)
  /\ IF Live(t) THEN ThenResolve(t, t.loc) ELSE Ends(t)

PlaceIsPut(t) == Task_(t, "putPlace") /\ NoPending /\ Put(t) /\ Ends(t)

(* The names: the tag is shown with its name at once, if it had none.      *)
NamesArrive(t) ==
  /\ Task_(t, "names") /\ NoPending /\ UNCHANGED rows
  /\ LET named == Tag(t.loc.pick, "named") IN
     IF ~Live(t) THEN Ends(t) /\ UNCHANGED local
     ELSE /\ \/ t.loc = named /\ GoesOn(t, "centroid", named) /\ UNCHANGED local
             \/ t.loc # named /\ ApplyOpen(t, named) /\ GoesOn(t, "centroid", named)
             \/ /\ t.loc # named /\ t.entry # current
                /\ GoesOn(t, "putName", named) /\ UNCHANGED local
          /\ UNCHANGED resolving

NameIsPut(t) ==
  Task_(t, "putName") /\ NoPending /\ Put(t) /\ GoesOn(t, "centroid", t.loc) /\ UNCHANGED resolving

CentroidArrives(t) ==
  /\ Task_(t, "centroid") /\ NoPending /\ UNCHANGED rows
  /\ LET done == Tag(t.loc.pick, "resolved") IN
     IF ~Live(t) THEN Ends(t) /\ UNCHANGED local
     ELSE \/ ApplyOpen(t, done) /\ Ends(t)
          \/ /\ t.entry # current
             /\ GoesOn(t, "putResolved", done) /\ UNCHANGED <<local, resolving>>

ResolvedIsPut(t) == Task_(t, "putResolved") /\ NoPending /\ Put(t) /\ Ends(t)

(* The same for a tag without an entry, in pendingLocation.                *)
PendingPosition(t) ==
  /\ Task_(t, "pendingPosition")
  /\ IF t.stamp # pendingToken
     THEN Ends(t) /\ UNCHANGED <<pendingLocation, late>>
     ELSE /\ pendingLocation' = t.loc
          /\ GoesOn(t, "pendingNames", t.loc)
          /\ late' = IF target[t.loc.pick] # None THEN late \cup {t.loc.pick} ELSE late
          /\ UNCHANGED resolving
  /\ UNCHANGED <<rows, local, pendingToken>>

PendingGeocode(t) ==
  /\ \/ Task_(t, "pendingNames") /\ LET named == Tag(t.loc.pick, "named") IN
          IF t.stamp # pendingToken THEN Ends(t) /\ UNCHANGED pendingLocation
          ELSE /\ pendingLocation' = named
               /\ GoesOn(t, "pendingCentroid", named) /\ UNCHANGED resolving
     \/ Task_(t, "pendingCentroid") /\ Ends(t) /\
          pendingLocation' = IF t.stamp = pendingToken THEN Tag(t.loc.pick, "resolved")
                             ELSE pendingLocation
  /\ UNCHANGED <<rows, local, pendingToken, late>>

Succeeds(t) ==
  \/ PositionArrives(t) \/ TagIsPut(t) \/ PlaceIsPut(t) \/ NamesArrive(t) \/ NameIsPut(t)
  \/ CentroidArrives(t) \/ ResolvedIsPut(t) \/ PendingPosition(t) \/ PendingGeocode(t)

Next ==
  \/ StartEntry \/ FinishEntry \/ ListEntries \/ RefreshEntries \/ OpenPicker
  \/ \E e \in Ids : Commit(e)
  \/ \E on \in BOOLEAN : TagEntry(on) \/ TagPending(on)
  \/ TagPlace \/ TagPendingPlace
  \/ \E t \in tasks : Succeeds(t) \/ Refused(t) \/ Fails(t)

(* Read mode is opened again and again, and what does not fail is answered *)
(* some time.                                                              *)
Fairness ==
  /\ WF_vars(ListEntries) /\ WF_vars(RefreshEntries)
  /\ \A e \in Ids : WF_vars(\E t \in tasks : t.entry = e /\ (Succeeds(t) \/ Refused(t)))

Spec == Init /\ [][Next]_vars /\ Fairness
-----------------------------------------------------------------------------
(* Type invariant; what is pending is a tag.                               *)
TypeOK ==
  /\ current \in Ids \cup {None} /\ begun \in Ids \cup {None}
  /\ local \in [Ids -> Loc]
  /\ {journal, list, seen} \subseteq [Ids -> Loc]
  /\ remembered \in BOOLEAN
  /\ pendingLocation \in {l \in Loc : IsTagged(l)} \cup {Absent}
  /\ pendingToken \in Nat
  /\ epochs \in [Ids -> Nat] /\ resolving \subseteq Ids
  /\ picker \in Ids \cup {None, Closed}
  /\ tasks \subseteq Task
  /\ picks \in 0 .. MaxPicks /\ failures \in 0 .. MaxFailures
  /\ target \in [Picks -> Ids \cup {None}] /\ late \subseteq Picks

(* resolving is released whatever becomes of the geocode: an entry is in   *)
(* it exactly while one task resolves it. A mark left behind would keep    *)
(* the entry from ever being resolved, a second task would race the first. *)
OneResolverEach ==
  \A e \in Ids :
    LET mine == {t \in tasks : t.entry = e /\ t.at \in {"names", "putName", "centroid",
                                                       "putResolved"}}
    IN IF e \in resolving THEN \E t \in mine : mine = {t} ELSE mine = {}

Shown(e) == {local[e], journal[e], list[e], seen[e]}
LandsWhereMade(p) == \A e \in Ids : (\E l \in Shown(e) : l.pick = p) => target[p] = e

(* A tag is on no entry but the one it was made for, however late its      *)
(* position or its name arrives, whatever was begun or committed since.    *)
(* The picks in late are the exception.                                    *)
TagsStayPut == \A p \in Picks \ late : LandsWhereMade(p)

(* "A location chosen before an entry exists ... applied on the first      *)
(* keystroke" (public/js/location.js:39-42): of that entry, not of a later *)
(* one.                                                                    *)
PickGoesToItsEntry == \A p \in Picks : LandsWhereMade(p)

(* "So a stale GPS/geocode cannot overwrite a later pick" (epochs): the    *)
(* tag of the open entry never goes back to an earlier pick, and what is   *)
(* in the journal is never from before the pick the entry was finished     *)
(* with. Between two picks that both reach a finished entry there is no    *)
(* such order: their requests may overtake each other.                     *)
LaterPickStays ==
  [][\A e \in Ids :
       /\ local'[e].pick >= local[e].pick
       /\ journal'[e] # Absent => journal'[e].pick >= local'[e].pick]_vars

(* Time and again no tag in the journal is without its name: it gets it in *)
(* the end, although only the list asks for it again.                      *)
TagsAreResolved == []<>(\A e \in Ids : ~Unresolved(journal[e]))
=============================================================================
