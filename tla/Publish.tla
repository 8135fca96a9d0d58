------------------------------- MODULE Publish -------------------------------
(***************************************************************************)
(* The published flag and the job that turns published entries into static *)
(* sites (server/publish.js; the flag and the slug in server/entries.js;   *)
(* the files as index.js serves them).                                     *)
(*                                                                         *)
(* Setting the flag is one synchronous handler. The job awaits every file  *)
(* operation, so it is one step per operation and the handlers run in      *)
(* between. The disk outlives the process, a job does not.                 *)
(*                                                                         *)
(* A tree is the entries that have a page in it and the entries its index  *)
(* lists; the contents of a page never change. An entry is published with  *)
(* a slug (PublishedHaveSlugs), so the job's "missing publish_slug" and    *)
(* the tree without articles cannot come up and are not modelled. A media  *)
(* file that cannot be copied only leaves its figure out.                  *)
(*                                                                         *)
(* A recursive rm of a site takes it down file by file, in any order, and  *)
(* may stop at any of them. That of a staging directory is one step:       *)
(* nobody is served from it, and it is cleared before it is used. So is    *)
(* that of a tree of nobody, whose files are not told apart.               *)
(*                                                                         *)
(* unseen and missed are history variables: the entries whose flag moved   *)
(* at a time that the start of a run already carries, and the trees of     *)
(* nobody that the latest sweep did not come to.                           *)
(***************************************************************************)
EXTENDS Integers, FiniteSets

CONSTANTS
  Users,
  Strays,     \* names with a tree in publishedDir that are no user's
  Entries,
  OwnerOf,    \* OwnerOf[e]: the user of entry e
  Minute,     \* Minute[e]: the wall clock minute e began, in its own zone
  Runs,       \* jobs that may be under way together
  NULL,       \* no tree, no slug, no run
  MaxTime,    \* bound: the last value of now()
  MaxFaults   \* bound: crashes and failing file operations

Names == Users \cup Strays
Times == 0 .. MaxTime
Minutes == {Minute[e] : e \in Entries}

(* wallClockSlug, and the suffix of a collision: 1 stands for no suffix.   *)
Slugs == Minutes \X (1 .. Cardinality(Entries))

ASSUME PublishConstants ==
  /\ Users \cap Strays = {}
  /\ OwnerOf \in [Entries -> Users]
  /\ IsFiniteSet(Entries)
  /\ MaxTime \in Nat \ {0} /\ MaxFaults \in Nat

VARIABLES
  published, slug,          \* columns of entries
  changeAt, lastSuccessAt,  \* publish_meta
  live, staging,            \* publishedDir: <username>/ and .tmp-<username>-<pid>/
  runs,                     \* [Runs -> job or NULL]
  clock, faults,
  unseen, missed            \* history, see above

db == <<published, slug, changeAt, lastSuccessAt>>
disk == <<live, staging>>
history == <<unseen, missed>>
vars == <<db, disk, runs, clock, faults, history>>
-----------------------------------------------------------------------------
EntriesOf(u) == {e \in Entries : OwnerOf[e] = u}
Published(u) == {e \in EntriesOf(u) : published[e]}
Tree == [pages : SUBSET Entries, index : (SUBSET Entries) \cup {NULL}]
Whole(S) == [pages |-> S, index |-> S]
Bare == [pages |-> {}, index |-> NULL]
Site(u) == IF Published(u) = {} THEN NULL ELSE Whole(Published(u))

PublishIsDirty == changeAt > lastSuccessAt

(* The steps of a job: the sweep of publishedDir, then for each user the   *)
(* read of the rows and the operations of rebuildUser, then the trees of   *)
(* nobody, then the watermark ("next" with no user, and no tree, left).    *)
Steps == {"sweep", "next", "clear", "none", "mkdir", "pages", "index", "remove", "rename",
          "undo", "undoLive"}
Job == [at : Steps, started : Times, users : SUBSET Users, strays : SUBSET Strays,
        user : Users \cup {NULL}, rows : SUBSET Entries, failed : BOOLEAN]

ASSUME NullIsNoValue ==
  /\ NULL \notin Slugs /\ NULL \notin Names /\ \A S \in SUBSET Entries : NULL # S
  /\ NULL \notin Tree /\ NULL \notin Job

(* servePublished: the index of a name, or one page; NULL is its 404.      *)
ServeIndex(n) == IF live[n] = NULL THEN NULL ELSE live[n].index
ServePage(n, e) == IF live[n] # NULL /\ e \in live[n].pages THEN e ELSE NULL
-----------------------------------------------------------------------------
Init ==
  /\ published = [e \in Entries |-> FALSE]
  /\ slug = [e \in Entries |-> NULL]
  /\ changeAt = 0 /\ lastSuccessAt = 0
  /\ live = [n \in Names |-> IF n \in Strays THEN Whole({}) ELSE NULL]
  /\ staging = [u \in Users |-> NULL]
  /\ runs = [r \in Runs |-> NULL]
  /\ clock = 1 /\ faults = 0
  /\ unseen = {} /\ missed = {}

Tick == clock < MaxTime /\ clock' = clock + 1 /\ UNCHANGED <<db, disk, runs, faults, history>>

Taken_Public(e) ==   \* mutant: only the slugs of what is public now
  {slug[f] : f \in Published(OwnerOf[e]) \ {e}} \ {NULL}
Taken(e) == {slug[f] : f \in EntriesOf(OwnerOf[e]) \ {e}} \ {NULL}

AllocatePublishSlug_Kept(e) == slug[e]   \* mutant: none is made up
AllocatePublishSlug(e) ==
  IF slug[e] # NULL THEN slug[e]
  ELSE CHOOSE s \in {Minute[e]} \X (1 .. Cardinality(Entries)) :
         s \notin Taken(e) /\ \A n \in 1 .. s[2] - 1 : <<Minute[e], n>> \in Taken(e)

(* Whether a flip now is no later than the newest start the watermark has  *)
(* or will get.                                                            *)
InStartedMs ==
  \/ clock <= lastSuccessAt
  \/ \E r \in Runs : runs[r] # NULL /\ clock <= runs[r].started

SetEntryPublished(e, next) ==
  /\ published[e] # next
  /\ slug' = IF next THEN [slug EXCEPT ![e] = AllocatePublishSlug(e)] ELSE slug
  /\ published' = [published EXCEPT ![e] = next]
  /\ changeAt' = clock
  /\ unseen' = IF InStartedMs THEN unseen \cup {e} ELSE unseen
  /\ UNCHANGED <<lastSuccessAt, disk, runs, clock, faults, missed>>
-----------------------------------------------------------------------------
(* A tick of the scheduler, at boot and every PUBLISH_MS: it starts a job  *)
(* when there is something to publish, and does not ask whether the last   *)
(* one has ended.                                                          *)
StartRun(r) ==
  /\ runs[r] = NULL
  /\ PublishIsDirty
  /\ runs' = [runs EXCEPT ![r] =
       [at |-> "sweep", started |-> clock, users |-> Users, strays |-> {}, user |-> NULL,
        rows |-> {}, failed |-> FALSE]]
  /\ unseen' = {}
  /\ UNCHANGED <<db, disk, clock, faults, missed>>

At(r, step) == runs[r] # NULL /\ runs[r].at = step
Goto(r, step) == runs' = [runs EXCEPT ![r].at = step]
OnDisk(l, s) == live' = l /\ staging' = s /\ UNCHANGED <<db, clock, faults, history>>
User(r) == runs[r].user
LiveWith(n, tree) == [live EXCEPT ![n] = tree]
StagingWith(u, tree) == [staging EXCEPT ![u] = tree]

TurnFails_Forgiven(r) == Goto(r, "next")   \* mutant: the error is logged and not counted

(* A turn that throws makes the job no clean pass.                         *)
TurnFails(r) == runs' = [runs EXCEPT ![r].at = "next", ![r].failed = TRUE]

(* The sweep finds the trees of nobody, and the staging directories go,    *)
(* whoever's they are.                                                     *)
TreesOfNobody == {n \in Strays : live[n] # NULL}
Swept(r, found) ==
  /\ At(r, "sweep")
  /\ runs' = [runs EXCEPT ![r].at = "next", ![r].strays = found]
  /\ missed' = TreesOfNobody \ found
  /\ UNCHANGED <<db, live, clock, unseen>>

SweepDisk(r) ==
  /\ Swept(r, TreesOfNobody)
  /\ staging' = [u \in Users |-> NULL]
  /\ UNCHANGED faults

(* The rows of a user are read once, before anything is awaited.           *)
ReadRows(r) ==
  /\ At(r, "next")
  /\ \E u \in runs[r].users :
       runs' = [runs EXCEPT ![r].at = "clear", ![r].user = u, ![r].users = @ \ {u},
                            ![r].rows = Published(u)]
  /\ UNCHANGED <<db, disk, clock, faults, history>>

ClearStaging(r) ==
  /\ At(r, "clear")
  /\ Goto(r, IF runs[r].rows = {} THEN "none" ELSE "mkdir")
  /\ OnDisk(live, StagingWith(User(r), NULL))

(* rm of a site: a page or the index goes, or, when all have, the          *)
(* directory; the job goes on when that is gone.                           *)
Unlinked(tree) ==
  {[tree EXCEPT !.pages = @ \ {e}] : e \in tree.pages}
    \cup {t \in {[tree EXCEPT !.index = NULL]} : t # tree}

Unlink(r) ==
  /\ live[User(r)] # NULL
  /\ \E tree \in Unlinked(live[User(r)]) : OnDisk(LiveWith(User(r), tree), staging)
  /\ UNCHANGED runs

Rmdir(r) == live[User(r)] \in {NULL, Bare} /\ OnDisk(LiveWith(User(r), NULL), staging)

NothingPublished(r) ==
  At(r, "none") /\ (Unlink(r) \/ (Rmdir(r) /\ Goto(r, "next")))

(* mkdir -p, and the theme: a directory that is there is left as it is.    *)
MakeStaging(r) ==
  /\ At(r, "mkdir") /\ Goto(r, "pages")
  /\ OnDisk(live, IF staging[User(r)] # NULL THEN staging ELSE StagingWith(User(r), Bare))

(* A file operation whose path is not there throws into rebuildUser's      *)
(* catch.                                                                  *)
Broken(r) == Goto(r, "undo") /\ OnDisk(live, staging)

WritePage(r) ==
  /\ At(r, "pages")
  /\ LET u == User(r) IN
     IF staging[u] = NULL THEN Broken(r)
     ELSE \E e \in runs[r].rows :
       /\ e \notin staging[u].pages
       /\ Goto(r, IF runs[r].rows \subseteq staging[u].pages \cup {e} THEN "index" ELSE "pages")
       /\ OnDisk(live, [staging EXCEPT ![u].pages = @ \cup {e}])

WriteIndex_Fresh(r) ==   \* mutant: the rows are read again for the index
  /\ At(r, "index")
  /\ Goto(r, "remove")
  /\ OnDisk(live, [staging EXCEPT ![User(r)].index = Published(User(r))])

WriteIndex(r) ==
  /\ At(r, "index")
  /\ IF staging[User(r)] = NULL THEN Broken(r)
     ELSE Goto(r, "remove") /\ OnDisk(live, [staging EXCEPT ![User(r)].index = runs[r].rows])

RemoveLive(r) ==
  At(r, "remove") /\ (Unlink(r) \/ (Rmdir(r) /\ Goto(r, "rename")))

(* rename needs its source, and no tree where it goes.                     *)
RenameStaging(r) ==
  /\ At(r, "rename")
  /\ IF staging[User(r)] = NULL \/ live[User(r)] # NULL THEN Broken(r)
     ELSE /\ Goto(r, "next")
          /\ OnDisk(LiveWith(User(r), staging[User(r)]), StagingWith(User(r), NULL))

(* The catch: both directories go, and the job is no clean pass.           *)
UndoStaging(r) ==
  At(r, "undo") /\ Goto(r, "undoLive") /\ OnDisk(live, StagingWith(User(r), NULL))
UndoLive(r) ==
  At(r, "undoLive") /\ (Unlink(r) \/ (Rmdir(r) /\ TurnFails(r)))

RemoveStray(r) ==
  /\ At(r, "next") /\ runs[r].users = {}
  /\ \E n \in runs[r].strays :
       /\ runs' = [runs EXCEPT ![r].strays = @ \ {n}]
       /\ OnDisk(LiveWith(n, NULL), staging)

Done(r) == At(r, "next") /\ runs[r].users = {} /\ runs[r].strays = {}

MarkSuccess_AtEnd(r) ==   \* mutant: stamped with the time it ends
  /\ Done(r)
  /\ lastSuccessAt' = IF runs[r].failed THEN lastSuccessAt ELSE clock
  /\ runs' = [runs EXCEPT ![r] = NULL]
  /\ UNCHANGED <<published, slug, changeAt, disk, clock, faults, history>>

MarkSuccess(r) ==
  /\ Done(r)
  /\ lastSuccessAt' = IF runs[r].failed THEN lastSuccessAt ELSE runs[r].started
  /\ runs' = [runs EXCEPT ![r] = NULL]
  /\ UNCHANGED <<published, slug, changeAt, disk, clock, faults, history>>

RunStep(r) ==
  \/ SweepDisk(r) \/ ReadRows(r) \/ ClearStaging(r) \/ NothingPublished(r) \/ MakeStaging(r)
  \/ WritePage(r) \/ WriteIndex(r) \/ RemoveLive(r) \/ RenameStaging(r)
  \/ UndoStaging(r) \/ UndoLive(r) \/ RemoveStray(r) \/ MarkSuccess(r)

Fault == faults < MaxFaults /\ faults' = faults + 1

(* A file operation of rebuildUser fails: inside its try it throws into    *)
(* the catch (a full disk), before the try and in the catch out of it. The *)
(* unlinks of an rm that fails are taken to have ended with it.            *)
DiskFails(r) ==
  /\ Fault
  /\ runs[r] # NULL
  /\ \/ runs[r].at \in {"mkdir", "pages", "index", "remove", "rename"} /\ Goto(r, "undo")
     \/ runs[r].at \in {"clear", "none", "undo", "undoLive"} /\ TurnFails(r)
  /\ UNCHANGED <<db, disk, clock, history>>

(* The sweep fails on its way, which is swallowed and does not count.      *)
SweepFails(r) ==
  /\ Fault
  /\ \E found \in SUBSET TreesOfNobody, cleared \in SUBSET Users :
       /\ Swept(r, found)
       /\ staging' = [u \in Users |-> IF u \in cleared THEN NULL ELSE staging[u]]

StrayStays(r) ==   \* its rm fails, which counts
  /\ Fault
  /\ At(r, "next") /\ runs[r].users = {}
  /\ \E n \in runs[r].strays :
       runs' = [runs EXCEPT ![r].strays = @ \ {n}, ![r].failed = TRUE]
  /\ UNCHANGED <<db, disk, clock, history>>

(* The process dies; the staging directory of the same pid may be there    *)
(* for the next one, any other one is only swept.                          *)
Crash ==
  /\ Fault
  /\ \E r \in Runs : runs[r] # NULL
  /\ runs' = [r \in Runs |-> NULL]
  /\ UNCHANGED <<db, disk, clock, history>>

Next ==
  \/ Tick \/ Crash
  \/ \E e \in Entries, next \in BOOLEAN : SetEntryPublished(e, next)
  \/ \E r \in Runs : StartRun(r) \/ RunStep(r) \/ DiskFails(r) \/ SweepFails(r) \/ StrayStays(r)

(* setInterval fires, and a file operation ends in one way or another.     *)
Fairness == \A r \in Runs : WF_vars(StartRun(r)) /\ WF_vars(RunStep(r))

Spec == Init /\ [][Next]_vars /\ Fairness
-----------------------------------------------------------------------------
PublishedHaveSlugs == \A e \in Entries : published[e] => slug[e] # NULL

(* Type invariant; what is published has a slug.                           *)
TypeOK ==
  /\ published \in [Entries -> BOOLEAN]
  /\ slug \in [Entries -> Slugs \cup {NULL}]
  /\ PublishedHaveSlugs
  /\ changeAt \in Times /\ lastSuccessAt \in Times /\ clock \in Times
  /\ live \in [Names -> Tree \cup {NULL}]
  /\ staging \in [Users -> Tree \cup {NULL}]
  /\ runs \in [Runs -> Job \cup {NULL}]
  /\ faults \in 0 .. MaxFaults
  /\ unseen \subseteq Entries /\ missed \subseteq Strays

(* What the index links to is there, and there is an index.                *)
IsSite(tree) == tree \in {Whole(S) : S \in (SUBSET Entries) \ {{}}}

(* rebuildUser writes to staging for this: a site comes up in one piece,   *)
(* whatever is flipped while its pages are written. Otherwise it only      *)
(* loses files. Needs one job at a time.                                   *)
SitesAppearWhole ==
  [][\A u \in Users :
       \/ live'[u] = NULL \/ IsSite(live'[u])
       \/ live[u] # NULL /\ live'[u] \in Unlinked(live[u]) \cup {live[u]}]_vars

(* The removal of a site is the one thing that shows: half a site is       *)
(* served while a job takes it down, or when that failed or the process    *)
(* died on the way, and then a job is still due. Needs one job at a time.  *)
SitesAreWhole ==
  \A u \in Users :
    live[u] # NULL /\ ~IsSite(live[u]) =>
      /\ PublishIsDirty
      /\ faults > 0 \/ \E r \in Runs : (At(r, "none") \/ At(r, "remove")) /\ User(r) = u

(* When nothing is pending and no job is under way, every user's site is   *)
(* exactly what is published, and nobody else has one but who a failing    *)
(* sweep missed: a watermark that advanced covers every flip, up to those  *)
(* made in the very millisecond of a start. Needs one job at a time.       *)
Settled == ~PublishIsDirty /\ (\A r \in Runs : runs[r] = NULL)
CleanMeansPublished ==
  Settled =>
    /\ unseen = {} => \A u \in Users : live[u] = Site(u)
    /\ lastSuccessAt > 0 => \A n \in Strays \ missed : live[n] = NULL

(* ... as publish.js:449-451 has it, "last_success_at only advances after  *)
(* a fully clean pass": then nobody else has a site.                       *)
CleanMeansSwept == Settled /\ lastSuccessAt > 0 => \A n \in Strays : live[n] = NULL

(* publish.js:449-451, "Failures wipe the affected user's tree (404)".     *)
FailuresWipe ==
  [][\A r \in Runs :
       runs[r] # NULL /\ runs'[r] # NULL /\ runs[r].at # "next" /\ ~runs[r].failed /\ runs'[r].failed =>
         live'[User(r)] = NULL]_vars

(* An address belongs to one entry: the slug of an entry never changes     *)
(* again, published or not, and no other entry of its user is given it     *)
(* ("unpublishing keeps the slug", server/entries.js).                     *)
AddressesHold ==
  [][\A e \in Entries :
       slug[e] # NULL =>
         /\ slug'[e] = slug[e]
         /\ \A f \in EntriesOf(OwnerOf[e]) \ {e} : slug'[f] # slug[e]]_vars

(* A flip is on the site in the end, either way, in spite of crashes and   *)
(* failed runs, unless it is taken back or fell into a start's millisecond.*)
Shown(e) == ServePage(OwnerOf[e], e) = e
FlipIsPublished ==
  \A e \in Entries :
    (published[e] # Shown(e)) ~> (published[e] = Shown(e) \/ e \in unseen)
=============================================================================
