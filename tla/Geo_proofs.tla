------------------------------ MODULE Geo_proofs ------------------------------
(***************************************************************************)
(* Slots come back, the chain is bounded and calls keep their distance,    *)
(* for any number of requests, any choice of keys, any limit and any       *)
(* spacing. The invariant ties the three ways there are to count who holds *)
(* a slot: the counter, the requests that are upstream, and the chain; and *)
(* the age of the last call by the wall clock to its age in real time.     *)
(***************************************************************************)
EXTENDS Geo, FiniteSetTheorems, TLAPS

(* Who is in a queue, and that nobody is twice.                            *)
In(s) == {s[i] : i \in 1 .. Len(s)}
Once(s) == \A i, j \in 1 .. Len(s) : s[i] = s[j] => i = j
OnlyFirstCalls == \A r \in Requests : at[r] \in {"sleeping", "calling"} => First(r)

Slots ==
  /\ at \in [Requests -> Places] /\ chain \in Seq(Requests)
  /\ inflight = Cardinality(Holding) /\ inflight <= MaxInflight
  /\ Len(chain) = inflight
  /\ Holding = In(chain) /\ Once(chain) /\ OnlyFirstCalls
Inv == TypeOK /\ Slots

LEMMA Constants ==
  IsFiniteSet(Requests) /\ MaxInflight \in Nat /\ Gap \in Nat /\ MaxBack \in Nat
  BY GeoConstants DEF GeoConstants

LEMMA HoldingIsFinite ==
  IsFiniteSet(Holding) /\ Cardinality(Holding) \in Nat
<1>1. Holding \in SUBSET Requests
  BY DEF Holding
<1> QED BY <1>1, Constants, FS_Subset, FS_CardinalityType

LEMMA InitInv == Init => Inv
<1> SUFFICES ASSUME Init PROVE Inv
  OBVIOUS
<1>1. Holding = {}
  BY DEF Init, Holding, Upstream
<1>2. inflight = Cardinality(Holding)
  BY <1>1, FS_EmptySet DEF Init
<1>3. chain = <<>> /\ Len(chain) = 0 /\ chain \in Seq(Requests)
  BY DEF Init
<1>4. In(chain) = {} /\ Once(chain)
  BY <1>3 DEF In, Once
<1>5. OnlyFirstCalls
  BY DEF Init, OnlyFirstCalls
<1>6. at \in [Requests -> Places]
  BY DEF Init, Places
<1>7. TypeOK
  <2>1. jumped \in BOOLEAN
    BY DEF Init
  <2>2. cache \subseteq Keys
    BY DEF Init
  <2> QED BY <1>3, <1>6, <2>1, <2>2, Constants DEF Init, TypeOK
<1> QED BY <1>1, <1>2, <1>3, <1>4, <1>5, <1>6, <1>7, Constants DEF Inv, Slots, Init

(* Who is in a sequence once one more, who was not in it, is appended.     *)
LEMMA Appended ==
  ASSUME NEW s \in Seq(Requests), NEW r \in Requests, r \notin In(s), Once(s), NEW t, t = Append(s, r)
  PROVE  /\ t \in Seq(Requests) /\ Len(t) = Len(s) + 1
         /\ In(t) = In(s) \cup {r} /\ Once(t)
         /\ s # <<>> => t # <<>> /\ Head(t) = Head(s)
<1>1. /\ t \in Seq(Requests) /\ Len(t) = Len(s) + 1 /\ Len(s) \in Nat
      /\ \A i \in 1 .. Len(s) : t[i] = s[i]
      /\ t[Len(s) + 1] = r
  OBVIOUS
<1>2. s # <<>> => t # <<>> /\ Head(t) = Head(s)
  OBVIOUS
<1>3. 1 .. Len(t) = (1 .. Len(s)) \cup {Len(s) + 1}
  BY <1>1
<1>4. In(t) = In(s) \cup {r}
  <2>1. ASSUME NEW x \in {t[i] : i \in 1 .. Len(t)}
        PROVE  x \in {s[i] : i \in 1 .. Len(s)} \cup {r}
    <3>1. PICK i \in (1 .. Len(s)) \cup {Len(s) + 1} : x = t[i]
      BY <1>3, <2>1
    <3>2. CASE i \in 1 .. Len(s)
      BY <1>1, <3>1, <3>2
    <3>3. CASE i = Len(s) + 1
      BY <1>1, <3>1, <3>3
    <3> QED BY <3>1, <3>2, <3>3
  <2>2. ASSUME NEW i \in 1 .. Len(s) PROVE s[i] \in {t[j] : j \in 1 .. Len(t)}
    BY <1>1, <1>3
  <2>3. r \in {t[j] : j \in 1 .. Len(t)}
    BY <1>1, <1>3
  <2> QED BY <2>1, <2>2, <2>3 DEF In
<1>5. ASSUME NEW i \in 1 .. Len(t), NEW j \in 1 .. Len(t), t[i] = t[j] PROVE i = j
  <2>1. \A k \in 1 .. Len(s) : t[k] # t[Len(s) + 1]
    BY <1>1 DEF In
  <2>2. i \in (1 .. Len(s)) \cup {Len(s) + 1} /\ j \in (1 .. Len(s)) \cup {Len(s) + 1}
    BY <1>3
  <2>3. CASE i \in 1 .. Len(s) /\ j \in 1 .. Len(s)
    BY <1>1, <1>5, <2>3 DEF Once
  <2>4. CASE i = Len(s) + 1 \/ j = Len(s) + 1
    BY <1>5, <2>1, <2>2, <2>4
  <2> QED BY <2>2, <2>3, <2>4
<1> QED BY <1>1, <1>2, <1>4, <1>5 DEF Once

(* A request that finds a free slot goes to the end of the chain.          *)
LEMMA Joins ==
  ASSUME Slots, NEW r \in Requests, at[r] = "idle", inflight < MaxInflight,
         at' = [at EXCEPT ![r] = "queued"], inflight' = inflight + 1,
         chain' = Append(chain, r)
  PROVE  Slots'
<1>1. at' \in [Requests -> Places] /\ at \in [Requests -> Places] /\ chain \in Seq(Requests)
  BY DEF Slots, Places, Upstream
<1>2. r \notin Holding /\ Holding' = Holding \cup {r}
  BY <1>1 DEF Holding, Upstream
<1>3. inflight' = Cardinality(Holding')
  BY <1>2, HoldingIsFinite, FS_AddElement DEF Slots
<1>4. r \notin In(chain) /\ Once(chain)
  BY <1>2 DEF Slots
<1>5. /\ chain' \in Seq(Requests) /\ Len(chain') = Len(chain) + 1
      /\ In(chain') = In(chain) \cup {r} /\ Once(chain')
      /\ chain # <<>> => chain' # <<>> /\ Head(chain') = Head(chain)
  BY <1>1, <1>4, Appended
<1>6. inflight' <= MaxInflight /\ Len(chain') = inflight'
  BY <1>5, HoldingIsFinite, Constants DEF Slots
<1>7. OnlyFirstCalls'
  <2> SUFFICES ASSUME NEW q \in Requests, at'[q] \in {"sleeping", "calling"} PROVE First(q)'
    BY DEF OnlyFirstCalls
  <2>1. First(q)
    BY <1>1 DEF Slots, OnlyFirstCalls
  <2> QED BY <1>5, <2>1 DEF First
<1> QED BY <1>1, <1>2, <1>3, <1>5, <1>6, <1>7 DEF Slots

(* What the first of the chain's leaving does to the rest.                 *)
LEMMA FirstLeaves ==
  ASSUME Slots, NEW r \in Requests, First(r)
  PROVE  /\ chain # <<>> /\ Tail(chain) \in Seq(Requests)
         /\ Len(Tail(chain)) = Len(chain) - 1 /\ Len(chain) \in Nat \ {0}
         /\ In(Tail(chain)) = Holding \ {r} /\ Once(Tail(chain))
         /\ \A q \in Requests : at[q] \in {"sleeping", "calling"} => q = r
<1> DEFINE rest == Tail(chain)
<1>1. chain \in Seq(Requests) /\ chain # <<>> /\ chain[1] = r
  BY DEF Slots, First
<1>2. /\ Len(chain) \in Nat \ {0} /\ rest \in Seq(Requests) /\ Len(rest) = Len(chain) - 1
      /\ \A i \in 1 .. Len(rest) : rest[i] = chain[i + 1]
  BY <1>1
<1>3. \A i, j \in 1 .. Len(chain) : chain[i] = chain[j] => i = j
  BY DEF Slots, Once
<1> HIDE DEF rest
<1>4. Once(rest)
  <2> SUFFICES ASSUME NEW i \in 1 .. Len(rest), NEW j \in 1 .. Len(rest), rest[i] = rest[j]
               PROVE  i = j
    BY DEF Once
  <2>1. i + 1 \in 1 .. Len(chain) /\ j + 1 \in 1 .. Len(chain)
    BY <1>2
  <2>2. chain[i + 1] = chain[j + 1]
    BY <1>2
  <2>3. i + 1 = j + 1
    BY <1>3, <2>1, <2>2
  <2> QED BY <1>2, <2>3
<1>5. In(rest) = Holding \ {r}
  <2>1. Holding = {chain[i] : i \in 1 .. Len(chain)}
    BY DEF Slots, In
  <2>2. ASSUME NEW i \in 1 .. Len(rest) PROVE rest[i] \in Holding \ {r}
    <3>1. i + 1 \in 1 .. Len(chain) /\ i + 1 # 1 /\ 1 \in 1 .. Len(chain)
      BY <1>2
    <3>2. chain[i + 1] # chain[1]
      BY <1>3, <3>1
    <3>3. chain[i + 1] \in Holding
      BY <2>1, <3>1
    <3> QED BY <1>1, <1>2, <3>2, <3>3
  <2>3. ASSUME NEW q \in Holding \ {r} PROVE \E i \in 1 .. Len(rest) : rest[i] = q
    <3>1. PICK i \in 1 .. Len(chain) : chain[i] = q
      BY <2>1, <2>3
    <3>2. i # 1
      BY <1>1, <2>3, <3>1
    <3>3. i - 1 \in 1 .. Len(rest) /\ (i - 1) + 1 = i
      BY <1>2, <3>2
    <3> QED BY <1>2, <3>1, <3>3
  <2> QED BY <2>2, <2>3 DEF In
<1>6. \A q \in Requests : at[q] \in {"sleeping", "calling"} => q = r
  BY <1>1 DEF Slots, OnlyFirstCalls, First
<1> QED BY <1>1, <1>2, <1>4, <1>5, <1>6 DEF rest

(* Its last call over, it leaves, and its slot is free.                    *)
LEMMA Leaves ==
  ASSUME Slots, NEW r \in Requests, First(r), at[r] = "calling",
         at' = [at EXCEPT ![r] = "padding"], inflight' = inflight - 1, chain' = Tail(chain)
  PROVE  Slots'
<1>1. at' \in [Requests -> Places] /\ at \in [Requests -> Places]
  BY DEF Slots, Places
<1>2. r \in Holding /\ Holding' = Holding \ {r}
  BY <1>1 DEF Holding, Upstream
<1>3. inflight' = Cardinality(Holding')
  BY <1>2, HoldingIsFinite, FS_RemoveElement DEF Slots
<1>4. inflight' <= MaxInflight /\ Len(chain') = inflight'
  BY FirstLeaves, HoldingIsFinite, Constants DEF Slots
<1>5. chain' \in Seq(Requests) /\ Once(chain') /\ In(chain') = Holding'
  BY <1>2, FirstLeaves
<1>6. OnlyFirstCalls'
  BY <1>1, FirstLeaves DEF OnlyFirstCalls
<1> QED BY <1>1, <1>3, <1>4, <1>5, <1>6 DEF Slots

(* Its first call over and another to make, it goes to the end and keeps   *)
(* its slot.                                                               *)
LEMMA GoesOn ==
  ASSUME Slots, NEW r \in Requests, First(r), at[r] = "calling",
         at' = [at EXCEPT ![r] = "queued"], inflight' = inflight,
         chain' = Append(Tail(chain), r)
  PROVE  Slots'
<1> DEFINE rest == Tail(chain)
<1>1. at' \in [Requests -> Places] /\ at \in [Requests -> Places]
  BY DEF Slots, Places, Upstream
<1>2. r \in Holding /\ Holding' = Holding
  BY <1>1 DEF Holding, Upstream
<1>3. /\ rest \in Seq(Requests) /\ Len(rest) = Len(chain) - 1 /\ Len(chain) \in Nat \ {0}
      /\ In(rest) = Holding \ {r} /\ Once(rest)
  BY FirstLeaves
<1> HIDE DEF rest
<1>4. /\ chain' \in Seq(Requests) /\ Len(chain') = Len(rest) + 1
      /\ In(chain') = In(rest) \cup {r} /\ Once(chain')
  <2>1. chain' = Append(rest, r)
    BY DEF rest
  <2> QED BY <1>3, <2>1, Appended
<1>5. Len(chain') = inflight'
  BY <1>3, <1>4, HoldingIsFinite DEF Slots
<1>6. In(chain') = Holding'
  BY <1>2, <1>3, <1>4
<1>7. OnlyFirstCalls'
  BY <1>1, FirstLeaves DEF OnlyFirstCalls
<1> QED BY <1>1, <1>2, <1>4, <1>5, <1>6, <1>7 DEF Slots

(* The first goes from one place upstream to the next.                     *)
LEMMA MovesUp ==
  ASSUME Slots, NEW r \in Requests, First(r), NEW p \in Upstream, at[r] \in Upstream,
         at' = [at EXCEPT ![r] = p], UNCHANGED <<inflight, chain>>
  PROVE  Slots'
<1>1. at' \in [Requests -> Places] /\ at \in [Requests -> Places]
  BY DEF Slots, Places
<1>2. Holding' = Holding
  BY <1>1 DEF Holding
<1>3. OnlyFirstCalls'
  BY <1>1 DEF Slots, OnlyFirstCalls, First
<1> QED BY <1>1, <1>2, <1>3 DEF Slots, In, Once

(* Outside of the chain, or not at all.                                    *)
LEMMA MovesAside ==
  ASSUME Slots, NEW r \in Requests, NEW p \in {"idle", "padding"}, at[r] \notin Upstream,
         at' = [at EXCEPT ![r] = p], UNCHANGED <<inflight, chain>>
  PROVE  Slots'
<1>1. at' \in [Requests -> Places] /\ at \in [Requests -> Places]
  BY DEF Slots, Places
<1>2. Holding' = Holding
  BY <1>1 DEF Holding, Upstream
<1>3. OnlyFirstCalls'
  BY <1>1 DEF Slots, OnlyFirstCalls, First
<1> QED BY <1>1, <1>2, <1>3 DEF Slots, In, Once

LEMMA StaysPut ==
  ASSUME Slots, UNCHANGED <<at, inflight, chain>> PROVE Slots'
  BY DEF Slots, Holding, In, Once, OnlyFirstCalls, First
-----------------------------------------------------------------------------
LEMMA ArriveInv ==
  ASSUME Inv, NEW r \in Requests, NEW w \in Wants, Arrive(r, w) PROVE Inv'
<1>1. at[r] = "idle" /\ at[r] \notin Upstream /\ Slots
  BY DEF Arrive, Inv, Upstream
<1>2. CASE at' = [at EXCEPT ![r] = "padding"] /\ UNCHANGED <<inflight, chain>>
  <2>1. Slots'
    BY <1>1, <1>2, MovesAside
  <2> QED BY <2>1, HoldingIsFinite DEF Inv, TypeOK, Slots, Arrive, history
<1>3. CASE ~(at' = [at EXCEPT ![r] = "padding"] /\ UNCHANGED <<inflight, chain>>)
  <2>1. /\ inflight < MaxInflight /\ at' = [at EXCEPT ![r] = "queued"]
        /\ inflight' = inflight + 1 /\ chain' = Append(chain, r)
    BY <1>3 DEF Arrive, Reserve
  <2>2. Slots'
    BY <1>1, <2>1, Joins
  <2> QED BY <2>1, <2>2 DEF Inv, TypeOK, Slots, Arrive, history
<1> QED BY <1>2, <1>3

LEMMA AnswerInv ==
  ASSUME Inv, NEW r \in Requests, Answer(r) PROVE Inv'
<1>1. Slots'
  BY MovesAside DEF Answer, Inv, Upstream
<1> QED BY <1>1 DEF Answer, Inv, TypeOK, Slots, history

LEMMA TakeTurnInv ==
  ASSUME Inv, NEW r \in Requests, TakeTurn(r) PROVE Inv'
<1>1. Slots'
  BY MovesUp DEF TakeTurn, Inv, Upstream
<1>2. sleep' \in Nat
  BY Constants DEF TakeTurn, Wait, Most, Inv, TypeOK
<1>3. jumped' \in BOOLEAN
  BY DEF TakeTurn
<1> QED BY <1>1, <1>2, <1>3 DEF TakeTurn, Inv, TypeOK, Slots

LEMMA CallInv ==
  ASSUME Inv, NEW r \in Requests, Call(r) PROVE Inv'
<1>1. Slots'
  BY MovesUp DEF Call, Inv, Upstream
<1> QED BY <1>1 DEF Call, Inv, TypeOK, Slots, history

(* What the end of a call leaves of the type, however it ends.             *)
LEMMA CallEndsType ==
  ASSUME Inv, NEW r \in Requests, NEW ok \in BOOLEAN, CallEnds(r, ok),
         Slots', key' \in [Requests -> {1, 2}], inflight' \in Nat, cache' \subseteq Keys
  PROVE  Inv'
<1>1. jumped' \in BOOLEAN
  BY DEF CallEnds
<1>2. sinceCall' \in Int /\ quiet' \in Nat /\ sleep' \in Nat /\ want' \in [Requests -> Wants]
  BY DEF CallEnds, Inv, TypeOK
<1> QED BY <1>1, <1>2 DEF Inv, TypeOK, Slots

LEMMA ResolvedInv ==
  ASSUME Inv, NEW r \in Requests, NEW ok \in BOOLEAN, Resolved(r, ok) PROVE Inv'
<1>1. Slots'
  BY Leaves DEF Resolved, CallEnds, Finish, Rest, Inv
<1>2. inflight' \in Nat
  <2>1. IsFiniteSet(Holding') /\ Cardinality(Holding') \in Nat
    <3>1. Holding' \in SUBSET Requests
      BY DEF Holding
    <3> QED BY <3>1, Constants, FS_Subset, FS_CardinalityType
  <2> QED BY <1>1, <2>1 DEF Slots
<1>3. cache' \subseteq Keys
  <2>1. want[r] \in Wants /\ Len(want[r]) \in {1, 2} /\ key[r] = Len(want[r])
    BY GeoConstants DEF Inv, TypeOK, Resolved, GeoConstants
  <2>2. want[r][1] \in Keys /\ want[r][key[r]] \in Keys
    BY <2>1 DEF Keys
  <2> QED BY <2>2 DEF Resolved, Inv, TypeOK
<1> QED BY <1>1, <1>2, <1>3, CallEndsType DEF Resolved, Inv, TypeOK

LEMMA FirstOfTwoInv ==
  ASSUME Inv, NEW r \in Requests, NEW ok \in BOOLEAN, FirstOfTwo(r, ok) PROVE Inv'
<1>1. Slots /\ First(r) /\ at[r] = "calling" /\ CallEnds(r, ok)
  BY DEF Inv, FirstOfTwo, CallEnds
<1>2. IsFiniteSet(Holding') /\ Cardinality(Holding') \in Nat
  <2>1. Holding' \in SUBSET Requests
    BY DEF Holding
  <2> QED BY <2>1, Constants, FS_Subset, FS_CardinalityType
<1>3. want[r][1] \in Keys
  <2>1. want[r] \in Wants /\ Len(want[r]) = 2
    BY DEF Inv, TypeOK, FirstOfTwo
  <2> QED BY <2>1 DEF Keys
<1>4. CASE ok /\ want[r][2] \notin cache
  <2>1. key' = [key EXCEPT ![r] = 2] /\ Queue(r, Rest(r)) /\ UNCHANGED cache
    BY <1>4 DEF FirstOfTwo
  <2>2. Slots'
    BY <1>1, <2>1, GoesOn DEF Queue, Rest
  <2>3. key' \in [Requests -> {1, 2}] /\ cache' \subseteq Keys /\ inflight' \in Nat
    BY <1>2, <2>1, <2>2 DEF Inv, TypeOK, Slots
  <2> QED BY <1>1, <2>2, <2>3, CallEndsType
<1>5. CASE ~(ok /\ want[r][2] \notin cache)
  <2>1. /\ cache' = (IF ok THEN cache \cup {want[r][1]} ELSE cache)
        /\ chain' = Rest(r) /\ Finish(r) /\ UNCHANGED key
    BY <1>5 DEF FirstOfTwo
  <2>2. Slots'
    BY <1>1, <2>1, Leaves DEF Finish, Rest
  <2>3. key' \in [Requests -> {1, 2}] /\ cache' \subseteq Keys /\ inflight' \in Nat
    BY <1>2, <1>3, <2>1, <2>2 DEF Inv, TypeOK, Slots
  <2> QED BY <1>1, <2>2, <2>3, CallEndsType
<1> QED BY <1>4, <1>5

LEMMA ThrowsInv ==
  ASSUME Inv, NEW r \in Requests, Throws(r) PROVE Inv'
<1>1. Slots'
  BY Leaves DEF Throws, CallEnds, Finish, Rest, Inv
<1>2. IsFiniteSet(Holding') /\ Cardinality(Holding') \in Nat
  <2>1. Holding' \in SUBSET Requests
    BY DEF Holding
  <2> QED BY <2>1, Constants, FS_Subset, FS_CardinalityType
<1>3. inflight' \in Nat
  BY <1>1, <1>2 DEF Slots
<1> QED BY <1>1, <1>3, CallEndsType DEF Throws, Inv, TypeOK

LEMMA ClockInv ==
  ASSUME Inv, Pass \/ ClockBack \/ ClockForward \/ (\E k \in Keys : Expire(k)) PROVE Inv'
<1>1. UNCHANGED <<at, inflight, chain, want, key>>
  BY DEF Pass, ClockBack, ClockForward, Expire
<1>2. Slots'
  BY <1>1, StaysPut DEF Inv
<1>3. cache' \subseteq Keys /\ jumped' \in BOOLEAN
  BY DEF Inv, TypeOK, Pass, ClockBack, ClockForward, Expire, history
<1>4. sleep' \in Nat /\ sinceCall' \in Int /\ quiet' \in Nat
  BY Constants DEF Inv, TypeOK, Pass, ClockBack, ClockForward, Expire, history, Least, Most
<1> QED BY <1>1, <1>2, <1>3, <1>4 DEF Inv, TypeOK

LEMMA NextInv == Inv /\ [Next]_vars => Inv'
<1> SUFFICES ASSUME Inv, [Next]_vars PROVE Inv'
  OBVIOUS
<1>1. ASSUME NEW r \in Requests, NEW w \in Wants, Arrive(r, w) PROVE Inv'
  BY <1>1, ArriveInv
<1>2. ASSUME NEW r \in Requests, Answer(r) \/ TakeTurn(r) \/ Call(r) \/ Throws(r) PROVE Inv'
  BY <1>2, AnswerInv, TakeTurnInv, CallInv, ThrowsInv
<1>3. ASSUME NEW r \in Requests, NEW ok \in BOOLEAN, Resolved(r, ok) \/ FirstOfTwo(r, ok) PROVE Inv'
  BY <1>3, ResolvedInv, FirstOfTwoInv
<1>4. CASE Pass \/ ClockBack \/ ClockForward \/ \E k \in Keys : Expire(k)
  BY <1>4, ClockInv
<1>5. CASE UNCHANGED vars
  <2>1. UNCHANGED <<at, inflight, chain>>
    BY <1>5 DEF vars
  <2>2. Slots'
    BY <2>1, StaysPut DEF Inv
  <2> QED BY <1>5, <2>2 DEF vars, history, Inv, TypeOK
<1> QED BY <1>1, <1>2, <1>3, <1>4, <1>5 DEF Next

(* The invariant the others are parts of, or follow from.                  *)
THEOREM InvHolds == Spec => []Inv
  BY InitInv, NextInv, PTL DEF Spec

(* The state is of its type.                                               *)
THEOREM TypeCorrect == Spec => []TypeOK
<1>1. Inv => TypeOK
  BY DEF Inv
<1> QED BY <1>1, InvHolds, PTL

(* Slots come back: the count of rate.js is of the requests that hold one, *)
(* however they end, and within MAX_INFLIGHT.                              *)
THEOREM SlotsHold == Spec => []SlotsComeBack
<1>1. Inv => SlotsComeBack
  BY DEF Inv, Slots, SlotsComeBack
<1> QED BY <1>1, InvHolds, PTL

(* The chain is as deep as reserve lets it be, with each request that      *)
(* holds a slot in it once, and only the first one calls (geo.js:40-42).   *)
THEOREM ChainHolds == Spec => []ChainIsBounded
<1>1. Inv => ChainIsBounded
  BY DEF Inv, Slots, ChainIsBounded, Once, In, OnlyFirstCalls
<1> QED BY <1>1, InvHolds, PTL
-----------------------------------------------------------------------------
(* Unless it was put forward, the wall clock says that no more time went   *)
(* by since the last call than did; so whoever sleeps, sleeps long enough, *)
(* if a timer can wait that long.                                          *)
Spaced ==
  \/ jumped
  \/ /\ quiet >= sinceCall
     /\ \A r \in Requests : at[r] = "sleeping" => quiet + sleep >= Gap

LEMMA Numbers ==
  ASSUME Inv
  PROVE  quiet \in Nat /\ sleep \in Nat /\ sinceCall \in Int /\ Gap \in Nat
BY Constants DEF Inv, TypeOK

(* A call that ends counts from then on, and nobody sleeps meanwhile.      *)
LEMMA CallEndsSpaced ==
  ASSUME Inv, NEW r \in Requests, NEW ok \in BOOLEAN, CallEnds(r, ok),
         at'[r] # "sleeping", \A q \in Requests \ {r} : at'[q] = at[q]
  PROVE  Spaced'
<1>1. quiet' = 0 /\ sinceCall' = 0
  BY DEF CallEnds
<1>2. First(r) /\ at[r] = "calling" /\ Slots
  BY DEF CallEnds, Inv
<1>3. \A q \in Requests : at[q] = "sleeping" => q = r
  BY <1>2, FirstLeaves
<1>4. \A q \in Requests : at'[q] # "sleeping"
  BY <1>3
<1>5. QED
  BY <1>1, <1>4 DEF Spaced

LEMMA NextSpaced == Inv /\ Spaced /\ [Next]_vars => Spaced'
<1> SUFFICES ASSUME Inv, Spaced, [Next]_vars PROVE Spaced'
  OBVIOUS
<1>0. at \in [Requests -> Places]
  BY DEF Inv, TypeOK
<1>1. ASSUME NEW r \in Requests, Answer(r) \/ Call(r) \/ \E w \in Wants : Arrive(r, w)
      PROVE  Spaced'
  <2>1. UNCHANGED <<sleep, sinceCall, quiet, jumped>>
    BY <1>1 DEF Answer, Call, Arrive, history
  <2>2. at'[r] # "sleeping" /\ \A q \in Requests \ {r} : at'[q] = at[q]
    BY <1>0, <1>1 DEF Answer, Call, Arrive
  <2>3. QED
    BY <2>1, <2>2 DEF Spaced
<1>2. ASSUME NEW r \in Requests, TakeTurn(r) PROVE Spaced'
  <2>1. /\ UNCHANGED <<sinceCall, quiet>>
        /\ jumped => jumped'
        /\ ~jumped' => sleep' = Most(0, Gap - sinceCall)
    <3>1. Wait > MaxDelay => jumped'
      BY <1>2 DEF TakeTurn
    <3>2. Wait \in Int /\ MaxDelay \in Nat
      BY Numbers, GeoConstants DEF Wait, Most
    <3>3. ~(Wait <= MaxDelay) => jumped'
      BY <3>1, <3>2
    <3>4. QED
      BY <1>2, <3>3 DEF TakeTurn, Wait
  <2>2. ~jumped' /\ quiet >= sinceCall => quiet + sleep' >= Gap
    BY <2>1, Numbers DEF Most
  <2>3. QED
    BY <2>1, <2>2 DEF Spaced
<1>3. ASSUME NEW r \in Requests, NEW ok \in BOOLEAN, Resolved(r, ok) \/ FirstOfTwo(r, ok)
      PROVE  Spaced'
  <2>1. CallEnds(r, ok) /\ at'[r] # "sleeping" /\ \A q \in Requests \ {r} : at'[q] = at[q]
    BY <1>0, <1>3 DEF Resolved, FirstOfTwo, Finish, Queue
  <2>2. QED
    BY <2>1, CallEndsSpaced
<1>4. ASSUME NEW r \in Requests, Throws(r) PROVE Spaced'
  <2>1. CallEnds(r, TRUE) /\ at'[r] # "sleeping" /\ \A q \in Requests \ {r} : at'[q] = at[q]
    BY <1>0, <1>4 DEF Throws, Finish
  <2>2. QED
    BY <2>1, CallEndsSpaced
<1>5. CASE Pass
  <2>1. UNCHANGED <<at, jumped>> /\ sinceCall' = Least(Gap, sinceCall + 1)
        /\ quiet' = Least(Gap, quiet + 1) /\ sleep' = Most(0, sleep - 1)
    BY <1>5 DEF Pass
  <2>2. quiet >= sinceCall => quiet' >= sinceCall'
    BY <2>1, Numbers DEF Least
  <2>3. quiet + sleep >= Gap => quiet' + sleep' >= Gap
    BY <2>1, Numbers DEF Least, Most
  <2>4. QED
    BY <2>1, <2>2, <2>3 DEF Spaced
<1>6. CASE ClockBack
  <2>1. UNCHANGED <<at, jumped, quiet, sleep>> /\ sinceCall' = sinceCall - 1
    BY <1>6 DEF ClockBack, history
  <2>2. quiet >= sinceCall => quiet >= sinceCall'
    BY <2>1, Numbers
  <2>3. QED
    BY <2>1, <2>2 DEF Spaced
<1>7. CASE ClockForward
  BY <1>7 DEF ClockForward, Spaced
<1>8. CASE UNCHANGED vars \/ \E k \in Keys : Expire(k)
  BY <1>8 DEF vars, history, Expire, Spaced
<1>9. QED
  BY <1>1, <1>2, <1>3, <1>4, <1>5, <1>6, <1>7, <1>8 DEF Next

(* A call starts no sooner than Gap after the last one ended, in real      *)
(* time, whatever failed and however often the clock was put back; only    *)
(* one put forward, or back by more than setTimeout can wait, lets a call  *)
(* through early (geo.js:44-61).                                           *)
THEOREM CallsSpaced == Spec => CallsAreSpaced
<1>1. Init => Inv /\ Spaced
  BY InitInv, Constants DEF Init, Spaced
<1>2. Inv /\ Spaced /\ [Next]_vars => (Inv /\ Spaced)'
  BY NextInv, NextSpaced
<1>3. Inv /\ Spaced /\ [Next]_vars =>
        [\A r \in Requests :
           at[r] # "calling" /\ at'[r] = "calling" => quiet >= Gap \/ jumped]_vars
  <2> SUFFICES ASSUME Inv, Spaced, Next, NEW r \in Requests,
                      at[r] # "calling", at'[r] = "calling"
               PROVE  quiet >= Gap \/ jumped
    OBVIOUS
  <2>0. at \in [Requests -> Places]
    BY DEF Inv, TypeOK
  <2>1. ASSUME NEW q \in Requests, \/ \E w \in Wants : Arrive(q, w)
                                   \/ Answer(q) \/ TakeTurn(q) \/ Throws(q)
        PROVE  FALSE
    BY <2>0, <2>1 DEF Arrive, Answer, TakeTurn, Throws, Finish
  <2>2. ASSUME NEW q \in Requests, NEW ok \in BOOLEAN, Resolved(q, ok) \/ FirstOfTwo(q, ok)
        PROVE  FALSE
    BY <2>0, <2>2 DEF Resolved, FirstOfTwo, Finish, Queue
  <2>3. ASSUME Pass \/ ClockBack \/ ClockForward \/ \E k \in Keys : Expire(k)
        PROVE  FALSE
    BY <2>3 DEF Pass, ClockBack, ClockForward, Expire
  <2>4. PICK q \in Requests : Call(q)
    BY <2>1, <2>2, <2>3 DEF Next
  <2>5. q = r /\ at[r] = "sleeping" /\ sleep = 0
    BY <2>0, <2>4 DEF Call
  <2>6. QED
    BY <2>5, Numbers DEF Spaced
<1>4. QED
  BY <1>1, <1>2, <1>3, PTL DEF Spec, CallsAreSpaced
=============================================================================
