---------------------------- MODULE Surface_proofs ----------------------------
(***************************************************************************)
(* Every input is in exactly one entry and none is lost, but for those on  *)
(* a surface that was changed during a fade, for any number of inputs, any *)
(* threshold and any quiet time. The invariant says what the surface       *)
(* stands for: the entry being written, one that has just been finished    *)
(* and is fading, or too little for an entry.                              *)
(***************************************************************************)
EXTENDS Surface, TLAPS

Finished(i) == \E k \in DOMAIN committed : i \in committed[k]

Typed ==
  /\ surface \subseteq Inputs /\ surface \subseteq 1 .. made
  /\ current \in [blocks : SUBSET Inputs, lastInputAt : 0 .. MaxTime] \cup {NULL}
  /\ committed \in Seq(SUBSET Inputs)
  /\ \A k \in DOMAIN committed : committed[k] \subseteq 1 .. made
  /\ clock \in 0 .. MaxTime /\ made \in 0 .. MaxInput
  /\ typed \cup pasted \cup exposed \subseteq 1 .. made

Stands ==
  /\ fading \in Nat
  /\ current # NULL => \/ current.blocks = surface
                       \/ surface = {} /\ current.blocks \subseteq exposed
  /\ fading > 0 /\ current # NULL => current.blocks \subseteq exposed
  /\ fading = 0 => \A i \in surface \ exposed : ~Finished(i)
  /\ fading > 0 => \A i \in surface \ exposed : Finished(i)

Apart == \A i, k \in DOMAIN committed : i # k => committed[i] \cap committed[k] \subseteq exposed

Inv ==
  /\ Typed /\ Stands /\ Apart
  /\ \A i \in typed \ exposed : i \in surface \/ Finished(i)

LEMMA Numbers ==
  /\ Least \in Nat \ {0} /\ FinishAfter \in Nat \ {0} /\ FinishAfter <= MaxTime
  /\ MaxInput \in Nat \ {0} /\ Least <= MaxInput /\ MaxTime \in Nat
  BY SurfaceConstantsOK DEF SurfaceConstantsOK

LEMMA InitInv == Init => Inv
<1> SUFFICES ASSUME Init PROVE Inv
  OBVIOUS
<1>1. made \in 0 .. MaxInput /\ surface = 1 .. made /\ surface \subseteq Inputs
  BY Numbers DEF Init, Inputs
<1>2. clock \in 0 .. MaxTime
  BY Numbers DEF Init
<1>3. committed = <<>> /\ DOMAIN committed = {} /\ committed \in Seq(SUBSET Inputs)
  BY DEF Init
<1>4. current \in [blocks : SUBSET Inputs, lastInputAt : 0 .. MaxTime] \cup {NULL}
  BY <1>1, Numbers DEF Init
<1>5. Typed
  BY <1>1, <1>2, <1>3, <1>4 DEF Typed, Init
<1>6. Stands
  BY <1>3 DEF Stands, Init, Finished
<1> QED BY <1>3, <1>5, <1>6 DEF Inv, Init, Apart

(* What noteInput makes of contents, which the entry then has.             *)
LEMMA NotedIs ==
  ASSUME NEW c, NEW contents \in SUBSET Inputs, clock \in 0 .. MaxTime
  PROVE  /\ Noted(c, contents) \in [blocks : SUBSET Inputs, lastInputAt : 0 .. MaxTime] \cup {NULL}
         /\ Noted(c, contents) # NULL => Noted(c, contents).blocks = contents
  BY DEF Noted

(* The entry being written has no block of an older one, unless the writer *)
(* changed the surface during a fade.                                      *)
LEMMA Fresh ==
  ASSUME Inv, current # NULL
  PROVE  /\ current.blocks \in SUBSET Inputs /\ current.blocks \subseteq 1 .. made
         /\ \A i \in current.blocks \ exposed : i \in surface /\ fading = 0 /\ ~Finished(i)
<1>1. fading \in Nat /\ (fading = 0 \/ fading > 0)
  BY DEF Inv, Stands
<1> QED BY <1>1 DEF Inv, Typed, Stands

(* An entry that is finished joins the others, or is dropped.              *)
LEMMA HandedOver ==
  ASSUME Inv, current # NULL, HandOver(current), exposed \subseteq exposed'
  PROVE  /\ committed' \in Seq(SUBSET Inputs)
         /\ \A k \in DOMAIN committed' : committed'[k] \subseteq 1 .. made
         /\ Apart'
         /\ \A i : Finished(i)' <=> \/ Finished(i)
                                    \/ ~IsBlank(current.blocks) /\ i \in current.blocks
<1> DEFINE blocks == current.blocks
<1>1. /\ blocks \in SUBSET Inputs /\ blocks \subseteq 1 .. made
      /\ \A i \in blocks \ exposed : ~Finished(i)
      /\ committed \in Seq(SUBSET Inputs)
      /\ \A k \in DOMAIN committed : committed[k] \subseteq 1 .. made
      /\ \A i, k \in DOMAIN committed : i # k => committed[i] \cap committed[k] \subseteq exposed
  BY Fresh DEF Inv, Typed, Apart
<1>2. CASE IsBlank(blocks)
  <2>1. committed' = committed
    BY <1>2 DEF HandOver
  <2> QED BY <1>1, <1>2, <2>1 DEF Finished, Apart
<1>3. CASE ~IsBlank(blocks)
  <2>1. committed' = Append(committed, blocks)
    BY <1>3 DEF HandOver
  <2> HIDE DEF blocks
  <2> DEFINE n == Len(committed)
  <2>2. /\ committed' \in Seq(SUBSET Inputs) /\ n \in Nat
        /\ DOMAIN committed = 1 .. n /\ DOMAIN committed' = (1 .. n) \cup {n + 1}
        /\ \A k \in 1 .. n : committed'[k] = committed[k]
        /\ committed'[n + 1] = blocks
    BY <1>1, <2>1
  <2> HIDE DEF n
  <2>3. \A k \in 1 .. n : committed[k] \cap blocks \subseteq exposed'
    BY <1>1, <2>2 DEF Finished
  <2>4. \A i, k \in DOMAIN committed' :
          i # k => committed'[i] \cap committed'[k] \subseteq exposed'
    <3> SUFFICES ASSUME NEW i \in DOMAIN committed', NEW k \in DOMAIN committed', i # k
                 PROVE  committed'[i] \cap committed'[k] \subseteq exposed'
      OBVIOUS
    <3>1. CASE i \in 1 .. n /\ k \in 1 .. n
      BY <1>1, <2>2, <3>1
    <3>2. CASE i \in 1 .. n /\ k = n + 1
      BY <2>2, <2>3, <3>2
    <3>3. CASE i = n + 1 /\ k \in 1 .. n
      BY <2>2, <2>3, <3>3
    <3> QED BY <2>2, <3>1, <3>2, <3>3
  <2>5. \A k \in DOMAIN committed' : committed'[k] \subseteq 1 .. made
    BY <1>1, <2>2
  <2>6. \A i : Finished(i)' <=> Finished(i) \/ i \in blocks
    BY <2>2 DEF Finished
  <2>7. Apart'
    BY <2>4 DEF Apart
  <2> QED BY <1>3, <2>2, <2>5, <2>6, <2>7 DEF blocks
<1> QED BY <1>2, <1>3

(* What the writer does to a fading surface exposes it.                    *)
LEMMA ExposedIs ==
  ASSUME Inv, Exposed, surface' \subseteq 1 .. made', 1 .. made \subseteq 1 .. made'
  PROVE  /\ exposed \subseteq exposed' /\ exposed' \subseteq 1 .. made'
         /\ fading > 0 => surface \cup surface' \subseteq exposed'
  BY DEF Inv, Typed, Exposed

(* The contents change, by input or by deletion.                           *)
LEMMA ChangeInv ==
  ASSUME Inv, NEW new \in SUBSET {made + 1}, NEW gone \in SUBSET surface, Exposed,
         made' \in {made, made + 1}, made' <= MaxInput, new # {} => made' = made + 1,
         surface' = (surface \ gone) \cup new,
         current' = Noted(current, surface'),
         typed' = (typed \ gone) \cup new,
         pasted' \subseteq pasted \cup new,
         UNCHANGED <<fading, committed, clock>>
  PROVE  Inv'
<1> USE DEF Inv, Typed
<1>1. made' \in 0 .. MaxInput /\ 1 .. made \subseteq 1 .. made' /\ new \subseteq 1 .. made'
  BY Numbers
<1>2. 1 .. made' \subseteq Inputs
  BY <1>1, Numbers DEF Inputs
<1>3. surface' \subseteq 1 .. made' /\ surface' \in SUBSET Inputs
  BY <1>1, <1>2
<1>4. /\ current' \in [blocks : SUBSET Inputs, lastInputAt : 0 .. MaxTime] \cup {NULL}
      /\ current' # NULL => current'.blocks = surface'
  BY <1>3, NotedIs
<1>5. /\ exposed \subseteq exposed' /\ exposed' \subseteq 1 .. made'
      /\ fading > 0 => surface \cup surface' \subseteq exposed'
  BY <1>1, <1>3, ExposedIs
<1>6. \A i : Finished(i)' <=> Finished(i)
  BY DEF Finished
<1>7. \A i \in new : ~Finished(i)
  <2>1. made + 1 \notin 1 .. made
    OBVIOUS
  <2> QED BY <2>1 DEF Finished
<1>8. Typed'
  BY <1>1, <1>3, <1>4, <1>5
<1> HIDE DEF Inv, Typed
<1>9. Stands'
  <2>1. fading' = fading /\ fading \in Nat
    BY DEF Inv, Stands
  <2>2. fading = 0 => \A i \in surface' \ exposed' : ~Finished(i)'
    BY <1>5, <1>6, <1>7 DEF Inv, Stands
  <2> QED BY <1>4, <1>5, <2>1, <2>2 DEF Stands
<1>10. Apart'
  BY <1>5 DEF Inv, Apart
<1>11. \A i \in typed' \ exposed' : i \in surface' \/ Finished(i)'
  BY <1>5, <1>6 DEF Inv
<1> QED BY <1>8, <1>9, <1>10, <1>11 DEF Inv

(* The old entry is finished, and what comes next is on a surface of its   *)
(* own.                                                                    *)
LEMMA RollOverInv ==
  ASSUME Inv, NEW new \in SUBSET {made + 1}, current # NULL, Exposed,
         made' \in {made, made + 1}, made' <= MaxInput, new # {} => made' = made + 1,
         RollOver(new), pasted' = pasted, clock' = clock
  PROVE  Inv'
<1>1. /\ Typed /\ Stands /\ HandOver(current) /\ surface' = new
      /\ current' = Noted(NULL, new) /\ typed' = Kept(current) \cup new /\ fading' = fading
  BY DEF Inv, RollOver
<1>2. /\ made' \in 0 .. MaxInput /\ 1 .. made \subseteq 1 .. made' /\ new \subseteq 1 .. made'
      /\ 1 .. made' \subseteq Inputs
  BY <1>1, Numbers DEF Typed, Inputs
<1>3. /\ current' \in [blocks : SUBSET Inputs, lastInputAt : 0 .. MaxTime] \cup {NULL}
      /\ current' # NULL => current'.blocks = surface'
  BY <1>1, <1>2, NotedIs DEF Typed
<1>4. /\ exposed \subseteq exposed' /\ exposed' \subseteq 1 .. made'
      /\ fading > 0 => surface \cup surface' \subseteq exposed'
  BY <1>1, <1>2, ExposedIs
<1>5. \A i \in new : i \notin current.blocks /\ ~Finished(i)
  <2>1. made + 1 \notin 1 .. made
    BY <1>1 DEF Typed
  <2> QED BY <1>1, <2>1, Fresh DEF Typed, Finished
<1>6. \A i \in surface' : ~Finished(i)'
  BY <1>1, <1>4, <1>5, HandedOver
<1>7. \A i \in typed' \ exposed' : i \in surface' \/ Finished(i)'
  <2> SUFFICES ASSUME NEW i \in typed, i \notin exposed', i \in Kept(current)
               PROVE  Finished(i)'
    BY <1>1 DEF Kept
  <2>1. i \in surface \/ Finished(i)
    BY <1>4 DEF Inv
  <2>2. CASE i \in surface
    <3>1. i \in current.blocks
      BY <1>1, <2>2 DEF Stands
    <3> QED BY <1>1, <1>4, <3>1, HandedOver DEF Kept
  <2> QED BY <1>1, <1>4, <2>1, <2>2, HandedOver
<1>8. Typed'
  <2>1. typed' \subseteq 1 .. made'
    BY <1>1, <1>2 DEF Kept, Typed
  <2>2. \A k \in DOMAIN committed' : committed'[k] \subseteq 1 .. made'
    BY <1>1, <1>2, <1>4, HandedOver
  <2> QED BY <1>1, <1>2, <1>3, <1>4, <2>1, <2>2, HandedOver DEF Typed
<1>9. Stands'
  BY <1>1, <1>3, <1>4, <1>6 DEF Stands
<1> QED BY <1>1, <1>4, <1>7, <1>8, <1>9, HandedOver DEF Inv

LEMMA FinishInv ==
  ASSUME Inv, Finish PROVE Inv'
<1>1. /\ current # NULL /\ HandOver(current) /\ Stands /\ Typed
      /\ current' = NULL /\ UNCHANGED <<surface, clock, made, typed, pasted, exposed>>
      /\ fading' = IF IsBlank(current.blocks) THEN fading ELSE fading + 1
  BY DEF Inv, Finish
<1>2. Typed'
  BY <1>1, HandedOver DEF Typed
<1>3. \A i \in surface \ exposed : i \in current.blocks
  BY <1>1 DEF Stands
<1>4. Stands'
  <2>1. fading \in Nat /\ fading' \in Nat
    BY <1>1 DEF Stands
  <2>2. CASE IsBlank(current.blocks)
    BY <1>1, <2>1, <2>2, HandedOver DEF Stands
  <2>3. CASE ~IsBlank(current.blocks)
    <3>1. fading' > 0
      BY <1>1, <2>1, <2>3
    <3>2. \A i \in surface' \ exposed' : Finished(i)'
      BY <1>1, <1>3, <2>3, HandedOver
    <3> QED BY <1>1, <2>1, <3>1, <3>2 DEF Stands
  <2> QED BY <2>2, <2>3
<1>5. \A i \in typed' \ exposed' : i \in surface' \/ Finished(i)'
  BY <1>1, HandedOver DEF Inv
<1> QED BY <1>1, <1>2, <1>4, <1>5, HandedOver DEF Inv

LEMMA ClearedInv ==
  ASSUME Inv, Cleared PROVE Inv'
<1>1. /\ fading > 0 /\ fading \in Nat /\ fading' = fading - 1 /\ surface' = {}
      /\ UNCHANGED <<current, committed, clock, made, typed, pasted, exposed>>
  BY DEF Inv, Stands, Cleared
<1>2. \A i : Finished(i)' <=> Finished(i)
  BY <1>1 DEF Finished
<1>3. Typed'
  BY <1>1 DEF Inv, Typed
<1>4. Stands'
  BY <1>1 DEF Inv, Stands
<1>5. \A i \in typed' \ exposed' : Finished(i)'
  BY <1>1, <1>2 DEF Inv, Stands
<1>6. Apart'
  BY <1>1 DEF Inv, Apart
<1> QED BY <1>3, <1>4, <1>5, <1>6 DEF Inv

LEMMA NextInv ==
  Inv /\ [Next]_vars => Inv'
<1> SUFFICES ASSUME Inv, [Next]_vars PROVE Inv'
  OBVIOUS
<1>1. made + 1 <= MaxInput => made + 1 \in Nat /\ made \in Nat
  BY DEF Inv, Typed
<1>2. IsStale => current # NULL
  BY DEF IsStale
<1>3. CASE Type
  <2>1. /\ Exposed /\ made < MaxInput /\ made' = made + 1 /\ UNCHANGED <<clock, pasted>>
        /\ made \in Nat /\ made' <= MaxInput
    BY <1>3, Numbers DEF Type, Input, Inv, Typed
  <2>2. /\ {made + 1} \in SUBSET {made + 1} /\ {} \in SUBSET surface
        /\ pasted' \subseteq pasted \cup {made + 1} /\ made' \in {made, made + 1}
    BY <2>1
  <2>3. CASE IsStale
    <3>1. RollOver({made + 1})
      BY <1>3, <2>1, <2>3 DEF Type
    <3> QED BY <1>2, <2>1, <2>2, <2>3, <3>1, RollOverInv
  <2>4. CASE ~IsStale
    <3>1. Insert(made + 1)
      BY <1>3, <2>1, <2>4 DEF Type
    <3>2. /\ surface' = (surface \ {}) \cup {made + 1} /\ typed' = (typed \ {}) \cup {made + 1}
          /\ current' = Noted(current, surface') /\ UNCHANGED <<fading, committed>>
      BY <3>1 DEF Insert
    <3> QED BY <2>1, <2>2, <3>2, ChangeInv
  <2> QED BY <2>3, <2>4
<1>4. CASE Paste
  <2>1. /\ Exposed /\ made < MaxInput /\ made' = made + 1 /\ UNCHANGED clock
        /\ made \in Nat /\ made' <= MaxInput /\ pasted' = pasted \cup {made + 1}
    BY <1>4, Numbers DEF Paste, Input, Inv, Typed
  <2>2. /\ surface' = (surface \ {}) \cup {made + 1} /\ typed' = (typed \ {}) \cup {made + 1}
        /\ current' = Noted(current, surface') /\ UNCHANGED <<fading, committed>>
    BY <1>4, <2>1 DEF Paste, Insert
  <2>3. /\ {made + 1} \in SUBSET {made + 1} /\ {} \in SUBSET surface
        /\ pasted' \subseteq pasted \cup {made + 1} /\ made' \in {made, made + 1}
    BY <2>1
  <2> QED BY <2>1, <2>2, <2>3, ChangeInv
<1>5. ASSUME NEW gone \in SUBSET surface, Erase(gone) PROVE Inv'
  <2>1. Exposed /\ UNCHANGED <<clock, made, pasted>> /\ made \in Nat /\ made <= MaxInput
    BY <1>5, Numbers DEF Erase, Inv, Typed
  <2>2. CASE IsStale
    BY <1>2, <1>5, <2>1, <2>2, RollOverInv DEF Erase
  <2>3. CASE ~IsStale
    <3>1. /\ surface' = (surface \ gone) \cup {} /\ typed' = (typed \ gone) \cup {}
          /\ current' = Noted(current, surface') /\ UNCHANGED <<fading, committed>>
      BY <1>5, <2>3 DEF Erase
    <3> QED BY <2>1, <3>1, ChangeInv
  <2> QED BY <2>2, <2>3
<1>6. CASE Finish
  BY <1>6, FinishInv
<1>7. CASE Cleared
  BY <1>7, ClearedInv
<1>8. CASE Tick
  <2>1. clock' \in 0 .. MaxTime
    BY <1>8, Numbers DEF Tick, Inv, Typed
  <2> QED BY <1>8, <2>1 DEF Tick, Inv, Typed, Stands, Apart, Finished
<1>9. CASE UNCHANGED vars
  BY <1>9 DEF vars, Inv, Typed, Stands, Apart, Finished
<1> QED BY <1>3, <1>4, <1>5, <1>6, <1>7, <1>8, <1>9 DEF Next

LEMMA AlwaysInv == Spec => []Inv
  BY InitInv, NextInv, PTL DEF Spec
-----------------------------------------------------------------------------
(* The state is of its type.                                               *)
THEOREM TypeCorrect == Spec => []TypeOK
<1>1. Inv => TypeOK
  BY Numbers DEF Inv, Typed, Stands, TypeOK
<1> QED BY <1>1, AlwaysInv, PTL

(* No input is in two entries (editor.js:52-57), but for those a fading    *)
(* surface exposed.                                                        *)
THEOREM OneEntryEach == Spec => []EachInputInOneEntry
<1>1. Inv => EachInputInOneEntry
  <2> SUFFICES ASSUME Inv PROVE EachInputInOneEntry
    OBVIOUS
  <2>1. \A i \in Blocks \ exposed : ~Finished(i)
    BY Fresh DEF Blocks
  <2> QED BY <2>1 DEF EachInputInOneEntry, Inv, Apart, Finished
<1> QED BY <1>1, AlwaysInv, PTL

(* No input is lost, whenever the surface is emptied, but for those a      *)
(* fading surface exposed.                                                 *)
THEOREM NothingLost == Spec => []NothingTypedIsLost
<1>1. Inv => NothingTypedIsLost
  BY DEF Inv, Finished, NothingTypedIsLost
<1> QED BY <1>1, AlwaysInv, PTL

(* An entry that has gone quiet takes no more input but a paste.           *)
THEOREM StaleStays == Spec => StaleNeverGrows
<1>1. Inv /\ [Next]_vars =>
        [IsStale => \/ current' \in {NULL, current} \/ current'.blocks \cap surface = {}
                    \/ pasted' # pasted]_vars
  <2> SUFFICES ASSUME Inv, Next, IsStale
               PROVE  \/ current' \in {NULL, current} \/ current'.blocks \cap surface = {}
                      \/ pasted' # pasted
    BY DEF vars
  <2>1. made + 1 \notin 1 .. made /\ surface \subseteq 1 .. made /\ pasted \subseteq 1 .. made
    BY DEF Inv, Typed
  <2>2. CASE Type
    <3>1. current' = Noted(NULL, {made + 1})
      BY <2>2 DEF Type, Input, RollOver
    <3>2. current' = NULL \/ current'.blocks = {made + 1}
      BY <3>1 DEF Noted
    <3> QED BY <2>1, <3>2
  <2>3. CASE Paste
    BY <2>1, <2>3 DEF Paste, Input
  <2>4. CASE \E gone \in SUBSET surface : Erase(gone)
    <3>1. current' = Noted(NULL, {})
      BY <2>4 DEF Erase, RollOver
    <3>2. current' = NULL \/ current'.blocks = {}
      BY <3>1 DEF Noted
    <3> QED BY <3>2
  <2>5. CASE Finish \/ Cleared \/ Tick
    BY <2>5 DEF Finish, Cleared, Tick
  <2> QED BY <2>2, <2>3, <2>4, <2>5 DEF Next
<1> QED BY <1>1, AlwaysInv, PTL DEF Spec, StaleNeverGrows
=============================================================================
