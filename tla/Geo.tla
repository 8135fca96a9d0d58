-------------------------------- MODULE Geo --------------------------------
(***************************************************************************)
(* Geocoding at the server: the slots of rate.js, geoRequest of index.js,  *)
(* the cache and the chain of upstream calls of geo.js.                    *)
(*                                                                         *)
(* A request wants one key of the cache (the names of a coordinate, the    *)
(* centroid of a name, a search), or two (the places nearby, then the      *)
(* names there). What a request does between two awaits is one step.       *)
(*                                                                         *)
(* Time is kept as ages, so that it need not end: sinceCall is now() minus *)
(* lastCallAt, which steps of the wall clock change; a timer sleeps real   *)
(* time. quiet and jumped are history variables: the real time since an    *)
(* upstream call ended, and whether the wall clock has been put forward    *)
(* since, or so far back that a timer cannot wait for it.                  *)
(***************************************************************************)
EXTENDS Integers, Sequences, FiniteSets

CONSTANTS
  Requests,     \* requests that may be under way together
  Wants,        \* what a request may want, as sequences of one or two keys
  MaxInflight,  \* MAX_INFLIGHT
  Gap,          \* the 1100 ms between two upstream calls
  MaxDelay,     \* the longest delay setTimeout keeps, 2^31 - 1 ms
  MaxBack       \* bound: how far the wall clock is put back

Keys == UNION {{w[i] : i \in 1 .. Len(w)} : w \in Wants}

ASSUME GeoConstants ==
  /\ IsFiniteSet(Requests)
  /\ \A w \in Wants : Len(w) \in {1, 2}
  /\ MaxInflight \in Nat /\ Gap \in Nat /\ MaxDelay \in Nat /\ MaxBack \in Nat

VARIABLES
  at,           \* where each request is
  want, key,    \* what it wants, and the index of the key it is at
  inflight,     \* slots claimed
  chain,        \* the requests whose upstream calls are queued, in order
  sleep,        \* what is left of the first one's timer
  sinceCall,    \* now() - lastCallAt, up to Gap
  cache,        \* the keys in geo_cache, not expired
  quiet, jumped \* history, see above

history == <<quiet, jumped>>
vars == <<at, want, key, inflight, chain, sleep, sinceCall, cache, history>>

Upstream == {"queued", "sleeping", "calling"}
Places == {"idle", "padding"} \cup Upstream
Least(a, b) == IF a <= b THEN a ELSE b
Most(a, b) == IF a >= b THEN a ELSE b
-----------------------------------------------------------------------------
Init ==
  /\ at = [r \in Requests |-> "idle"]
  /\ want \in [Requests -> Wants] /\ key = [r \in Requests |-> 1]
  /\ inflight = 0
  /\ chain = <<>> /\ sleep = 0
  /\ sinceCall = Gap
  /\ cache = {}
  /\ quiet = Gap /\ jumped = FALSE

(* serialize appends r's call to the chain.                                *)
Queue(r, c) ==
  /\ at' = [at EXCEPT ![r] = "queued"]
  /\ chain' = Append(c, r)
  /\ UNCHANGED inflight

(* The finally of geoRequest gives the slot back; the answer is padded     *)
(* after that.                                                             *)
Finish_Leaking(r) ==   \* mutant: nothing found, nothing released
  /\ at' = [at EXCEPT ![r] = "padding"]
  /\ inflight' = IF cache' = cache THEN inflight ELSE inflight - 1
Finish(r) ==
  /\ at' = [at EXCEPT ![r] = "padding"]
  /\ inflight' = inflight - 1

(* reserve refuses when all slots are taken; the refusal is padded too.    *)
Reserve_Always(r) == TRUE   \* mutant: the queue is not bounded
Reserve(r) == inflight < MaxInflight

(* A request comes in: the slot is claimed before the cache is looked at.  *)
Arrive(r, w) ==
  /\ at[r] = "idle"
  /\ want' = [want EXCEPT ![r] = w] /\ key' = [key EXCEPT ![r] = 1]
  /\ IF ~Reserve(r)
     THEN at' = [at EXCEPT ![r] = "padding"] /\ UNCHANGED <<inflight, chain>>
     ELSE IF w[1] \in cache
     THEN at' = [at EXCEPT ![r] = "padding"] /\ UNCHANGED <<inflight, chain>>
     ELSE /\ at' = [at EXCEPT ![r] = "queued"]
          /\ inflight' = inflight + 1 /\ chain' = Append(chain, r)
  /\ UNCHANGED <<sleep, sinceCall, cache, history>>

(* atLeast is over.                                                        *)
Answer(r) ==
  /\ at[r] = "padding"
  /\ at' = [at EXCEPT ![r] = "idle"]
  /\ UNCHANGED <<want, key, inflight, chain, sleep, sinceCall, cache, history>>
-----------------------------------------------------------------------------
First(r) == chain # <<>> /\ Head(chain) = r

(* r's turn: it sleeps for what is missing to Gap by the wall clock. A     *)
(* longer delay than setTimeout keeps is one of 1 ms, less than a tick.    *)
Wait == Most(0, Gap - sinceCall)

TakeTurn(r) ==
  /\ First(r) /\ at[r] = "queued"
  /\ at' = [at EXCEPT ![r] = "sleeping"]
  /\ sleep' = IF Wait <= MaxDelay THEN Wait ELSE 0
  /\ jumped' = (jumped \/ Wait > MaxDelay)
  /\ UNCHANGED <<want, key, inflight, chain, sinceCall, cache, quiet>>

Call(r) ==
  /\ First(r) /\ at[r] = "sleeping" /\ sleep = 0
  /\ at' = [at EXCEPT ![r] = "calling"]
  /\ UNCHANGED <<want, key, inflight, chain, sleep, sinceCall, cache, history>>

(* The call ends, well or with the null of fetchJSON: either way the time  *)
(* is noted and the chain goes on.                                         *)
CallEnds_FailureUntimed(r, ok) ==   \* mutant: a failed call does not count for the spacing
  /\ First(r) /\ at[r] = "calling"
  /\ sinceCall' = IF ok THEN 0 ELSE sinceCall
  /\ quiet' = 0 /\ jumped' = FALSE
  /\ UNCHANGED <<want, sleep>>
CallEnds(r, ok) ==
  /\ First(r) /\ at[r] = "calling"
  /\ sinceCall' = 0
  /\ quiet' = 0 /\ jumped' = FALSE
  /\ UNCHANGED <<want, sleep>>

Rest_Stuck(r) == chain   \* mutant: the call that ends does not let the next one go
Rest(r) == Tail(chain)

(* The only key, or the second one, is answered. The places nearby are     *)
(* cached whatever became of the names.                                    *)
Resolved(r, ok) ==
  /\ key[r] = Len(want[r])
  /\ CallEnds(r, ok)
  /\ cache' = cache \cup (IF key[r] = 2 THEN {want[r][1]} ELSE {})
                    \cup (IF ok THEN {want[r][key[r]]} ELSE {})
  /\ chain' = Rest(r)
  /\ Finish(r) /\ UNCHANGED key

(* The places nearby are answered: nothing without them, the names next.   *)
FirstOfTwo(r, ok) ==
  /\ key[r] = 1 /\ Len(want[r]) = 2
  /\ CallEnds(r, ok)
  /\ IF ok /\ want[r][2] \notin cache
     THEN key' = [key EXCEPT ![r] = 2] /\ Queue(r, Rest(r)) /\ UNCHANGED cache
     ELSE /\ cache' = IF ok THEN cache \cup {want[r][1]} ELSE cache
          /\ chain' = Rest(r)
          /\ Finish(r) /\ UNCHANGED key

(* What comes after the call throws, a write to the cache say: the slot is *)
(* given back all the same.                                                *)
Throws(r) ==
  /\ CallEnds(r, TRUE)
  /\ chain' = Rest(r) /\ UNCHANGED <<key, cache>>
  /\ Finish(r)
-----------------------------------------------------------------------------
Pass ==
  /\ sinceCall' = Least(Gap, sinceCall + 1)
  /\ quiet' = Least(Gap, quiet + 1)
  /\ sleep' = Most(0, sleep - 1)
  /\ UNCHANGED <<at, want, key, inflight, chain, cache, jumped>>

ClockBack ==
  /\ sinceCall > -MaxBack
  /\ sinceCall' = sinceCall - 1
  /\ UNCHANGED <<at, want, key, inflight, chain, sleep, cache, history>>

ClockForward ==
  /\ sinceCall < Gap
  /\ sinceCall' = sinceCall + 1
  /\ jumped' = TRUE
  /\ UNCHANGED <<at, want, key, inflight, chain, sleep, cache, quiet>>

Expire(k) ==
  /\ k \in cache
  /\ cache' = cache \ {k}
  /\ UNCHANGED <<at, want, key, inflight, chain, sleep, sinceCall, history>>

Next ==
  \/ \E r \in Requests :
       \/ \E w \in Wants : Arrive(r, w)
       \/ Answer(r) \/ TakeTurn(r) \/ Call(r) \/ Throws(r)
       \/ \E ok \in BOOLEAN : Resolved(r, ok) \/ FirstOfTwo(r, ok)
  \/ Pass \/ ClockBack \/ ClockForward
  \/ \E k \in Keys : Expire(k)

(* Time passes, timers fire, and a call ends by its timeout at the latest. *)
Goes(r) ==
  \/ Answer(r) \/ TakeTurn(r) \/ Call(r)
  \/ \E ok \in BOOLEAN : Resolved(r, ok) \/ FirstOfTwo(r, ok)
Fairness == WF_vars(Pass) /\ \A r \in Requests : WF_vars(Goes(r))

Spec == Init /\ [][Next]_vars /\ Fairness
-----------------------------------------------------------------------------
Holding == {r \in Requests : at[r] \in Upstream}

(* Type invariant.                                                         *)
TypeOK ==
  /\ at \in [Requests -> Places]
  /\ want \in [Requests -> Wants] /\ key \in [Requests -> {1, 2}]
  /\ inflight \in Nat
  /\ chain \in Seq(Requests)
  /\ sleep \in Nat /\ sinceCall \in Int /\ quiet \in Nat
  /\ cache \subseteq Keys
  /\ jumped \in BOOLEAN

(* Slots come back: however a request ends (cached, refused, failed at its *)
(* first or second call, thrown out of), the count is of the requests that *)
(* hold one, so that it never locks geocoding out nor lets more than       *)
(* MAX_INFLIGHT in.                                                        *)
SlotsComeBack == inflight = Cardinality(Holding) /\ inflight <= MaxInflight

(* "The chain's depth is bounded by reserve" (server/geo.js:40-42): each   *)
(* request that holds a slot is in the chain once, nobody else is, and     *)
(* only the first calls upstream.                                          *)
ChainIsBounded ==
  /\ Len(chain) <= MaxInflight
  /\ \A i, j \in 1 .. Len(chain) : chain[i] = chain[j] => i = j
  /\ Holding = {chain[i] : i \in 1 .. Len(chain)}
  /\ \A r \in Requests : at[r] \in {"sleeping", "calling"} => First(r)

(* Upstream's policy: a call starts no sooner than Gap after the last one  *)
(* ended, failed or not, in real time, though the wall clock was put back  *)
(* in between. Put forward, or back by more than a timer can wait (25      *)
(* days), it lets one call through too early.                              *)
CallsAreSpaced ==
  [][\A r \in Requests :
       at[r] # "calling" /\ at'[r] = "calling" => quiet >= Gap \/ jumped]_vars

(* Every request is answered in the end: none is stuck behind a failed     *)
(* call or a clock that was put back.                                      *)
AllAreAnswered == \A r \in Requests : at[r] # "idle" ~> at[r] = "idle"
=============================================================================
