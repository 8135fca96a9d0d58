------------------------------- MODULE Surface -------------------------------
(***************************************************************************)
(* The writing surface of one tab and the entry it stands for              *)
(* (public/js/editor.js, session.js, app.js): which input ends up in which *)
(* entry. The two are kept in step by the handlers only: finish() drops    *)
(* the entry at once, while the text stays on screen until the local store *)
(* has the entry and the fade is over.                                     *)
(*                                                                         *)
(* An input is one keystroke, paste or picked photo, numbered in the order *)
(* they are made. typed, pasted and exposed are history variables: the     *)
(* inputs made and neither erased by the writer nor dropped with an entry  *)
(* too short to save; those that came by a paste or the media button; and  *)
(* those that were on the surface when the writer changed it while an      *)
(* older text was fading.                                                  *)
(***************************************************************************)
EXTENDS Integers, FiniteSets, Sequences

CONSTANTS
  Least,             \* isBlank: inputs an entry needs to be saved
  FinishAfter,       \* finishAfterMs
  NULL,              \* no entry
  MaxInput, MaxTime  \* bounds

ASSUME SurfaceConstantsOK ==
  /\ Least \in 1 .. MaxInput /\ FinishAfter \in 1 .. MaxTime
  /\ MaxInput \in Nat /\ MaxTime \in Nat

VARIABLES
  surface,    \* inputs whose text the editor shows
  current,    \* session.current, or NULL
  fading,     \* commits and their clearAnimated that have yet to empty the surface
  committed,  \* blocks of the entries handed to commit(), in order
  clock,      \* Date.now()
  made,       \* how many inputs there have been
  typed, pasted, exposed \* history, see above

vars == <<surface, current, fading, committed, clock, made, typed, pasted, exposed>>

Inputs == 1 .. MaxInput
-----------------------------------------------------------------------------
IsBlank(blocks) == Cardinality(blocks) < Least

IsStale == current # NULL /\ clock - current.lastInputAt >= FinishAfter

(* noteInput: what the session makes of the contents, from entry c.        *)
Noted(c, contents) ==
  IF c = NULL /\ IsBlank(contents) THEN NULL ELSE [blocks |-> contents, lastInputAt |-> clock]

(* finish() hands the entry over, or drops it when it is blank.            *)
HandOver(c) ==
  committed' = IF IsBlank(c.blocks) THEN committed ELSE Append(committed, c.blocks)

Exposed == exposed' = IF fading > 0 THEN exposed \cup surface \cup surface' ELSE exposed

Input == made < MaxInput /\ made' = made + 1 /\ UNCHANGED clock

(* insertText, insertMedia and ordinary typing end in onChange.            *)
Insert(i) ==
  /\ surface' = surface \cup {i}
  /\ current' = Noted(current, surface')
  /\ typed' = typed \cup {i}
  /\ UNCHANGED <<fading, committed>>

Kept(c) == IF IsBlank(c.blocks) THEN typed \ c.blocks ELSE typed

RollOver_SurfaceKept(new) ==   \* mutant: no setContents([])
  /\ HandOver(current)
  /\ surface' = surface \cup new
  /\ current' = Noted(NULL, surface')
  /\ typed' = Kept(current) \cup new
  /\ UNCHANGED fading

RollOver_Fades(new) ==   \* mutant: clearAnimated whatever the reason
  /\ HandOver(current)
  /\ surface' = new
  /\ current' = Noted(NULL, new)
  /\ typed' = Kept(current) \cup new
  /\ fading' = fading + 1

(* beforeinput on a stale entry: it is finished, the surface emptied, and  *)
(* the text of the event, if it has one, inserted by hand.                 *)
RollOver(new) ==
  /\ HandOver(current)
  /\ surface' = new
  /\ current' = Noted(NULL, new)
  /\ typed' = Kept(current) \cup new
  /\ UNCHANGED fading
-----------------------------------------------------------------------------
(* A fresh page, or one that adopted a draft, perhaps long after its last  *)
(* input.                                                                  *)
Init ==
  /\ made \in {0, Least}
  /\ surface = 1 .. made
  /\ typed = surface
  /\ current = IF made = 0 THEN NULL ELSE [blocks |-> surface, lastInputAt |-> 0]
  /\ clock \in {0, FinishAfter}
  /\ fading = 0
  /\ committed = <<>>
  /\ pasted = {} /\ exposed = {}

Type_Unchecked ==   \* mutant: beforeinput never looks at the clock
  Input /\ Insert(made') /\ Exposed /\ UNCHANGED pasted

Type ==
  /\ Input /\ UNCHANGED pasted
  /\ IF IsStale THEN RollOver({made'}) ELSE Insert(made')
  /\ Exposed

(* A deletion carries no text: on a stale entry it is swallowed.           *)
Erase(gone) ==
  /\ gone # {}
  /\ IF IsStale
     THEN RollOver({})
     ELSE /\ surface' = surface \ gone
          /\ current' = Noted(current, surface')
          /\ typed' = typed \ gone
          /\ UNCHANGED <<fading, committed>>
  /\ Exposed
  /\ UNCHANGED <<clock, made, pasted>>

(* The paste handler cancels the event, so that no beforeinput follows;    *)
(* the media button never had one.                                         *)
Paste == Input /\ Insert(made') /\ Exposed /\ pasted' = pasted \cup {made'}

(* The finish timer, the countdown or a tap: the surface is left to        *)
(* clearAnimated, which waits for the local store and for the fade. A      *)
(* blank entry is let go of, and its text stays.                           *)
Finish ==
  /\ current # NULL
  /\ HandOver(current)
  /\ current' = NULL
  /\ fading' = IF IsBlank(current.blocks) THEN fading ELSE fading + 1
  /\ UNCHANGED <<surface, clock, made, typed, pasted, exposed>>

(* The end of the fade sets the contents; that is no input event.          *)
Cleared ==
  /\ fading > 0
  /\ fading' = fading - 1
  /\ surface' = {}
  /\ UNCHANGED <<current, committed, clock, made, typed, pasted, exposed>>

(* The fade is over long before an entry has gone quiet.                   *)
Tick == fading = 0 /\ clock < MaxTime /\ clock' = clock + 1
        /\ UNCHANGED <<surface, current, fading, committed, made, typed, pasted, exposed>>

Next == Type \/ Paste \/ (\E gone \in SUBSET surface : Erase(gone)) \/ Finish \/ Cleared \/ Tick

Spec == Init /\ [][Next]_vars
-----------------------------------------------------------------------------
TypeOK ==
  /\ surface \subseteq Inputs
  /\ current \in [blocks : SUBSET Inputs, lastInputAt : 0 .. MaxTime] \cup {NULL}
  /\ fading \in Nat
  /\ committed \in Seq(SUBSET Inputs)
  /\ clock \in 0 .. MaxTime
  /\ made \in 0 .. MaxInput
  /\ typed \cup pasted \cup exposed \subseteq 1 .. made

Blocks == IF current = NULL THEN {} ELSE current.blocks

(* editor.js on beforeinput: the old entry commits with exactly what was   *)
(* written, the keystroke starts a genuinely new one, and there are never  *)
(* two entries' text on one surface. No input is in two entries, except    *)
(* what the writer found on a surface that was fading, or put there.       *)
EachInputInOneEntry ==
  /\ \A i, k \in DOMAIN committed : i # k => committed[i] \cap committed[k] \subseteq exposed
  /\ \A i \in DOMAIN committed : committed[i] \cap Blocks \subseteq exposed

(* ... as the comment has it: whenever the keystroke comes.                *)
EntriesAreApart ==
  \A i, k \in DOMAIN committed : i # k => committed[i] \cap committed[k] = {}

(* What was typed is on the surface, in the entry being written or in a    *)
(* finished one: no clearing of the surface, whenever it happens, "would   *)
(* wipe what the user just typed" (app.js on commit), but for what was     *)
(* typed during a fade.                                                    *)
NothingTypedIsLost ==
  \A i \in typed \ exposed :
    \/ i \in surface \cup Blocks
    \/ \E k \in DOMAIN committed : i \in committed[k]

(* session.js: finishIfStale, called before input is accepted, is the      *)
(* whole of the 5-minute rule. An entry that has gone quiet for that long  *)
(* takes no more input, a paste excepted, whose handler does not ask.      *)
StaleNeverGrows ==
  [][IsStale =>
       \/ current' \in {NULL, current} \/ current'.blocks \cap surface = {}
       \/ pasted' # pasted]_vars
=============================================================================
