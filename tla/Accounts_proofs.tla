--------------------------- MODULE Accounts_proofs ---------------------------
(***************************************************************************)
(* The bound of the token bucket, for every burst and rate and however the *)
(* wall clock is set, and what holds of accounts behind it for any users,  *)
(* requests and runs of the script: tokens are redeemed once, sessions go  *)
(* with passwords, and a PATCH keeps to the preferences it names. The      *)
(* invariant of accounts has a part for each, about what requests hold     *)
(* over an await.                                                          *)
(***************************************************************************)
EXTENDS Accounts, TLAPS

Inv == LimitTypeOK /\ Accounted

(* The product of two natural numbers is one; the provers use products as  *)
(* they are.                                                               *)
LEMMA ProductNat == ASSUME NEW a \in Nat, NEW b \in Nat PROVE a * b \in Nat
  OBVIOUS

(* The burst in parts is a natural number; the constants as numbers.       *)
LEMMA Sizes ==
  /\ Unit \in Nat \ {0} /\ Rps \in Nat /\ Burst \in Nat
  /\ Burst * Unit \in Nat
  BY BucketConstants DEF BucketConstants

LEMMA InitInv == LimitInit => Inv
  BY Sizes DEF LimitInit, Inv, LimitTypeOK, Accounted, Larger

(* A product with a rate grows with its other factor.                      *)
LEMMA RateMonotone ==
  ASSUME NEW a \in Nat, NEW b \in Nat, a <= b PROVE a * Rps <= b * Rps /\ a * Rps \in Nat
  BY Sizes

LEMMA RateAdds ==
  ASSUME NEW a \in Nat, NEW b \in Nat PROVE (a + b) * Rps = a * Rps + b * Rps
  BY Sizes

(* What a take finds: at most the burst, and at most what was left and due.*)
LEMMA RefilledBounds ==
  ASSUME LimitTypeOK
  PROVE  /\ Refilled \in Nat /\ Refilled <= Burst * Unit
         /\ Refilled <= bucket + Larger(0, wall - last) * Rps
         /\ Larger(0, wall - last) * Rps \in Nat
<1> DEFINE due == Larger(0, wall - last)
<1>1. due \in Nat
  BY DEF LimitTypeOK, Larger
<1>2. due * Rps \in Nat
  BY <1>1, Sizes
<1> HIDE DEF due
<1>3. Refilled = Smaller(Burst * Unit, bucket + due * Rps)
  BY DEF Refilled, due
<1>4. bucket \in Nat
  BY Sizes DEF LimitTypeOK
<1>5. Refilled \in Nat /\ Refilled <= Burst * Unit /\ Refilled <= bucket + due * Rps
  BY <1>2, <1>3, <1>4, Sizes DEF Smaller
<1> QED BY <1>2, <1>5 DEF due

LEMMA TakeInv ==
  ASSUME Inv, TakeOk \/ TakeRefused, UNCHANGED clocks PROVE Inv'
<1> DEFINE due == Larger(0, wall - last) * Rps
<1>1. /\ Refilled \in Nat /\ Refilled <= Burst * Unit
      /\ Refilled <= bucket + due
      /\ due \in Nat
  BY RefilledBounds DEF Inv
<1>2. wall' = wall /\ forward' = forward /\ sets' = sets /\ last' = wall
  BY DEF clocks, TakeOk, TakeRefused
<1>3. Larger(0, wall' - last') * Rps = 0
  BY <1>2, Sizes DEF Larger, Inv, LimitTypeOK
<1>4. taken * Unit \in Nat /\ (taken + 1) * Unit = taken * Unit + Unit
  BY Sizes DEF Inv, LimitTypeOK
<1>5. taken * Unit + bucket + due <= Burst * Unit + forward * Rps
  BY DEF Inv, Accounted
<1>6. forward * Rps \in Nat /\ bucket \in Nat
  BY Sizes DEF Inv, LimitTypeOK
<1> HIDE DEF due
<1>7. taken' * Unit + bucket' <= taken * Unit + Refilled
  <2>1. CASE TakeOk
    BY <2>1, <1>1, <1>4, Sizes DEF TakeOk
  <2>2. CASE TakeRefused
    BY <2>2, <1>1, <1>4 DEF TakeRefused
  <2> QED BY <2>1, <2>2
<1>8. taken' \in Nat /\ bucket' \in Nat /\ bucket' <= Burst * Unit
  <2>1. CASE TakeOk
    BY <2>1, <1>1, Sizes DEF TakeOk, Inv, LimitTypeOK
  <2>2. CASE TakeRefused
    BY <2>2, <1>1 DEF TakeRefused, Inv, LimitTypeOK
  <2> QED BY <2>1, <2>2
<1>9. LimitTypeOK'
  BY <1>2, <1>8 DEF Inv, LimitTypeOK
<1>10. taken' * Unit + bucket' <= Burst * Unit + forward * Rps
  <2>1. taken' * Unit \in Nat /\ bucket' \in Nat /\ Refilled \in Nat
    BY <1>1, <1>8, Sizes, ProductNat
  <2> QED BY <2>1, <1>1, <1>4, <1>5, <1>6, <1>7, Sizes
<1>11. taken' * Unit \in Nat /\ bucket' \in Nat
  BY <1>8, Sizes, ProductNat
<1>12. taken' * Unit + bucket' + Larger(0, wall' - last') * Rps
         <= Burst * Unit + forward' * Rps
  BY <1>2, <1>3, <1>10, <1>11
<1> QED BY <1>9, <1>12 DEF Inv, Accounted

LEMMA Rest == ASSUME NEW a \in Int, NEW b \in Int PROVE b = a + (b - a)
  OBVIOUS

(* When a reading grows by at most m, so does its lead over l, if any.      *)
LEMMA LargerMoves ==
  ASSUME NEW v \in Int, NEW w \in Int, NEW l \in Int, NEW m \in Nat, w - v <= m
  PROVE  /\ Larger(0, v - l) \in Nat /\ Larger(0, w - l) \in Nat
         /\ Larger(0, w - l) <= Larger(0, v - l) + m
  BY DEF Larger

(* The clock moves by d: forward then moves by at least as much as what is *)
(* due grows.                                                              *)
LEMMA ClockInv ==
  ASSUME Inv, Clock PROVE Inv'
<1> DEFINE due == Larger(0, wall - last)
           more == forward' - forward
<1>1. UNCHANGED limiter
  BY DEF Clock, Pass, SetForward, SetBack
<1>2. /\ wall' \in Int /\ forward' \in Nat /\ sets' \in Nat /\ more \in Nat
      /\ wall' - wall <= more
  <2>1. CASE Pass
    BY <2>1 DEF Pass, Inv, LimitTypeOK
  <2>2. CASE SetForward
    BY <2>2 DEF SetForward, Inv, LimitTypeOK
  <2>3. CASE SetBack
    BY <2>3, BucketConstants DEF SetBack, Inv, LimitTypeOK, BucketConstants
  <2> QED BY <2>1, <2>2, <2>3 DEF Clock
<1>3. LimitTypeOK'
  BY <1>1, <1>2 DEF Inv, LimitTypeOK, limiter
<1>4. /\ wall \in Int /\ last \in Int /\ last' = last /\ forward \in Nat
      /\ taken \in Nat /\ bucket \in Nat
  BY <1>1 DEF Inv, LimitTypeOK, limiter
<1>5. due \in Nat /\ Larger(0, wall' - last) \in Nat
      /\ Larger(0, wall' - last) <= due + more
  BY <1>2, <1>4, LargerMoves
<1>6. due' = Larger(0, wall' - last)
  BY <1>4
<1>7. forward' = forward + more
  <2>1. forward \in Int /\ forward' \in Int
    BY <1>2, <1>4
  <2>2. forward' = forward + (forward' - forward)
    BY <2>1, Rest
  <2> QED BY <2>2 DEF more
<1>10. more \in Nat
  BY <1>2
<1>11. due \in Nat /\ due' \in Nat /\ due' <= due + more
  BY <1>5, <1>6
<1> HIDE DEF due, more
<1>12. due' * Rps <= due * Rps + more * Rps
  <2>1. due' * Rps <= (due + more) * Rps
    BY <1>10, <1>11, RateMonotone
  <2> QED BY <2>1, <1>10, <1>11, RateAdds
<1>13. forward' * Rps = forward * Rps + more * Rps
  BY <1>4, <1>7, <1>10, RateAdds
<1>14. /\ due * Rps \in Nat /\ due' * Rps \in Nat /\ more * Rps \in Nat
      /\ forward * Rps \in Nat /\ taken * Unit \in Nat
  BY <1>4, <1>10, <1>11, Sizes, ProductNat
<1>8. taken * Unit + bucket + due * Rps <= Burst * Unit + forward * Rps
  BY DEF Inv, Accounted, due
<1>9. taken' * Unit + bucket' + due' * Rps <= Burst * Unit + forward' * Rps
  <2>1. taken' = taken /\ bucket' = bucket
    BY <1>1 DEF limiter
  <2> QED BY <2>1, <1>4, <1>12, <1>13, <1>14, <1>8, Sizes
<1> QED BY <1>3, <1>9 DEF Inv, Accounted, due

(* What is handed out is part of what is accounted for.                    *)
LEMMA InvBounds == Inv => BucketBound
<1> SUFFICES ASSUME Inv PROVE BucketBound
  OBVIOUS
<1>1. Larger(0, wall - last) * Rps \in Nat
  BY RefilledBounds DEF Inv
<1>2. taken * Unit \in Nat /\ bucket \in Nat /\ forward * Rps \in Nat
  BY Sizes DEF Inv, LimitTypeOK
<1> QED BY <1>1, <1>2, Sizes DEF Inv, Accounted, BucketBound

(* The bucket hands out no more than its burst and rps times the time that *)
(* has passed, whatever the clock is set to in between (server/rate.js).   *)
THEOREM BucketIsBounded == LimitSpec => []BucketBound
<1>1. LimitInit => Inv
  BY InitInv
<1>2. Inv /\ [LimitNext]_limits => Inv'
  <2> SUFFICES ASSUME Inv, [LimitNext]_limits PROVE Inv'
    OBVIOUS
  <2>1. CASE Clock
    BY <2>1, ClockInv
  <2>2. CASE (TakeOk \/ TakeRefused) /\ UNCHANGED clocks
    BY <2>2, TakeInv
  <2>3. CASE UNCHANGED limits
    BY <2>3 DEF limits, clocks, limiter, Inv, LimitTypeOK, Accounted
  <2> QED BY <2>1, <2>2, <2>3 DEF LimitNext
<1>3. Inv => BucketBound
  BY InvBounds
<1> QED BY <1>1, <1>2, <1>3, PTL DEF LimitSpec
-----------------------------------------------------------------------------

ShellState == {Idle} \cup [op : {"mint"}, name : Names, exp : Int]
CallState ==
  {Idle} \cup [op : {"setup"}, token : 1 .. MaxTokens]
    \cup [op : {"login"}, name : Names, pw : 1 .. MaxTokens, row : 1 .. MaxTokens]
    \cup [op : {"patch"}, name : Names, row : Account, crossed : BOOLEAN]

RowTypes ==
  /\ tokens \in SUBSET Token /\ minted \in 0 .. MaxTokens
  /\ shells \in [Shells -> ShellState]
  /\ accounts \in [Names -> {Nobody} \cup Account]
  /\ sessions \in SUBSET Session /\ issued \in 0 .. MaxSessions
  /\ calls \in [Calls -> CallState]
  /\ newest \in [Names -> 0 .. MaxTokens] /\ spent \in [1 .. MaxTokens -> Nat]

(* A token that is left is its name's newest, and has not been redeemed.   *)
TokensFresh ==
  /\ \A t \in tokens : t.id <= minted /\ newest[t.name] = t.id /\ spent[t.id] = 0
  /\ \A t, u \in tokens : t.id = u.id => t = u
  /\ \A i \in 1 .. MaxTokens : i > minted => spent[i] = 0

(* Accounts are there to stay, so that the one a request has read still is.*)
AccountsThere ==
  /\ \A n \in Names : Exists(n) => accounts[n].active \in accounts[n].journals
  /\ \A c \in Calls : calls[c].op \in {"login", "patch"} => Exists(calls[c].name)
  /\ \A c \in Calls : calls[c].op = "patch" =>
       calls[c].row.active \in accounts[calls[c].name].journals

(* What a PATCH has read is as it was, or it has been crossed.             *)
RowsAsRead ==
  \A c \in Calls : calls[c].op = "patch" /\ ~calls[c].crossed =>
    /\ calls[c].row.active = accounts[calls[c].name].active
    /\ calls[c].row.level = accounts[calls[c].name].level

RowsInv == RowTypes /\ TokensFresh /\ AccountsThere /\ SessionsMatch /\ RowsAsRead
AccountInv == Inv /\ RowsInv

LEMMA Numbers ==
  /\ TokenTTL \in Nat \ {0} /\ SessionTTL \in Nat \ {0}
  /\ MaxTokens \in Nat /\ MaxSessions \in Nat
  BY AccountConstants DEF AccountConstants

LEMMA Existing ==
  ASSUME NEW a \in Account PROVE a # Nobody
<1>1. a.pw \in 1 .. MaxTokens
  BY DEF Account
<1>2. Nobody.pw = 0
  BY DEF Nobody
<1> QED BY <1>1, <1>2, Numbers

LEMMA InitRows == Init => RowsInv
<1> SUFFICES ASSUME Init PROVE RowsInv
  OBVIOUS
<1>1. RowTypes
  BY Numbers DEF Init, RowTypes, ShellState, CallState
<1>2. TokensFresh
  BY DEF Init, TokensFresh
<1>3. \A c \in Calls : calls[c].op = "idle"
  BY DEF Init, Idle
<1>4. AccountsThere /\ RowsAsRead
  BY <1>3 DEF Init, AccountsThere, RowsAsRead, Exists
<1>5. SessionsMatch
  BY DEF Init, SessionsMatch
<1> QED BY <1>1, <1>2, <1>4, <1>5 DEF RowsInv
-----------------------------------------------------------------------------
(* A step of the script touches its own tables only.                       *)
LEMMA RetireRows ==
  ASSUME Inv, RowsInv, NEW s \in Shells, NEW n \in Names, Retire(s, n) PROVE RowsInv'
<1>1. tokens' \in SUBSET tokens
  BY DEF Retire
<1>2. UNCHANGED <<minted, accounts, sessions, issued, calls, newest, spent>>
  BY DEF Retire
<1>3. shells' \in [Shells -> ShellState]
  <2>1. wall + TokenTTL \in Int
    BY Numbers DEF Inv, LimitTypeOK
  <2>2. [op |-> "mint", name |-> n, exp |-> wall + TokenTTL] \in ShellState
    BY <2>1 DEF ShellState
  <2> QED BY <2>2 DEF Retire, RowsInv, RowTypes
<1>4. RowTypes'
  BY <1>1, <1>2, <1>3 DEF RowsInv, RowTypes
<1>5. TokensFresh'
  BY <1>1, <1>2 DEF RowsInv, TokensFresh
<1>6. AccountsThere' /\ SessionsMatch' /\ RowsAsRead'
  BY <1>2 DEF RowsInv, AccountsThere, SessionsMatch, RowsAsRead, Exists
<1> QED BY <1>4, <1>5, <1>6 DEF RowsInv

LEMMA MintRows ==
  ASSUME RowsInv, NEW s \in Shells, Mint(s) PROVE RowsInv'
<1> DEFINE n == shells[s].name
<1>1. UNCHANGED <<accounts, sessions, issued, calls, spent>> /\ shells' = [shells EXCEPT ![s] = Idle]
  BY DEF Mint
<1>2. n \in Names /\ shells[s].exp \in Int /\ minted \in Nat /\ minted + 1 \in 1 .. MaxTokens
  <2>1. shells[s] \in ShellState /\ shells[s].op = "mint"
    BY DEF Mint, RowsInv, RowTypes
  <2>2. shells[s].name \in Names /\ shells[s].exp \in Int
    BY <2>1 DEF ShellState, Idle
  <2>3. minted \in Nat /\ minted < MaxTokens
    BY Numbers DEF Mint, RowsInv, RowTypes
  <2> QED BY <2>2, <2>3, Numbers
<1>3. AccountsThere' /\ SessionsMatch' /\ RowsAsRead'
  BY <1>1 DEF RowsInv, AccountsThere, SessionsMatch, RowsAsRead, Exists
<1>4. shells' \in [Shells -> ShellState]
  BY <1>1 DEF RowsInv, RowTypes, ShellState
<1>5. CASE UniqueName(n)
  <2> DEFINE t == [id |-> minted + 1, name |-> n, exp |-> shells[s].exp]
  <2>1. minted' = minted + 1 /\ tokens' = tokens \cup {t}
        /\ newest' = [newest EXCEPT ![n] = minted + 1]
    BY <1>5 DEF Mint
  <2>2. t \in Token
    BY <1>2 DEF Token
  <2>3. RowTypes'
    <3>1. tokens' \in SUBSET Token
      BY <2>1, <2>2 DEF RowsInv, RowTypes
    <3>2. minted' \in 0 .. MaxTokens /\ newest' \in [Names -> 0 .. MaxTokens]
      BY <1>2, <2>1, Numbers DEF RowsInv, RowTypes
    <3> QED BY <1>1, <1>4, <3>1, <3>2 DEF RowsInv, RowTypes
  <2>4. TokensFresh'
    <3>1. \A u \in tokens : u.name # n /\ u.name \in Names /\ u.id \in 1 .. MaxTokens
      BY <1>5 DEF UniqueName, RowsInv, RowTypes, Token
    <3>2. \A u \in tokens : u.id <= minted /\ newest'[u.name] = u.id /\ spent[u.id] = 0
      BY <2>1, <3>1 DEF RowsInv, RowTypes, TokensFresh
    <3>3. spent[minted + 1] = 0
      BY <1>2 DEF RowsInv, TokensFresh
    <3>4. t.id = minted + 1 /\ t.name = n /\ newest'[n] = minted + 1
      BY <1>2, <2>1 DEF RowsInv, RowTypes
    <3>5. \A u \in tokens' : u.id <= minted' /\ newest'[u.name] = u.id /\ spent[u.id] = 0
      BY <1>2, <2>1, <3>1, <3>2, <3>3, <3>4, Numbers
    <3>6. \A u, v \in tokens' : u.id = v.id => u = v
      BY <1>2, <2>1, <3>1, <3>2, <3>4, Numbers DEF RowsInv, TokensFresh
    <3>7. \A i \in 1 .. MaxTokens : i > minted' => spent[i] = 0
      BY <1>2, <2>1, Numbers DEF RowsInv, TokensFresh
    <3> QED BY <1>1, <3>5, <3>6, <3>7 DEF TokensFresh
  <2> QED BY <1>3, <2>3, <2>4 DEF RowsInv
<1>6. CASE ~UniqueName(n)
  <2>1. UNCHANGED <<tokens, minted, newest>>
    BY <1>6 DEF Mint
  <2> QED BY <1>1, <1>3, <1>4, <2>1 DEF RowsInv, RowTypes, TokensFresh
<1> QED BY <1>5, <1>6
-----------------------------------------------------------------------------
LEMMA SameRows ==
  ASSUME RowsInv, UNCHANGED rows PROVE RowsInv'
  BY DEF rows, RowsInv, RowTypes, TokensFresh, AccountsThere, SessionsMatch, RowsAsRead, Exists

(* A request takes up or puts down what it holds, and that is all.         *)
LEMMA CallsOnly ==
  ASSUME RowsInv, NEW c \in Calls, NEW held \in CallState, calls' = [calls EXCEPT ![c] = held],
         held.op \in {"login", "patch"} => Exists(held.name),
         held.op = "patch" =>
           /\ held.row.active \in accounts[held.name].journals
           /\ held.row.active = accounts[held.name].active
           /\ held.row.level = accounts[held.name].level,
         UNCHANGED <<tokens, minted, shells, accounts, sessions, issued, newest, spent>>
  PROVE  RowsInv'
<1>1. calls' \in [Calls -> CallState] /\ \A d \in Calls : calls'[d] = IF d = c THEN held ELSE calls[d]
  BY DEF RowsInv, RowTypes
<1>2. RowTypes' /\ TokensFresh' /\ SessionsMatch'
  BY <1>1 DEF RowsInv, RowTypes, TokensFresh, SessionsMatch, Exists
<1>3. AccountsThere'
  BY <1>1 DEF RowsInv, AccountsThere, Exists
<1>4. RowsAsRead'
  BY <1>1 DEF RowsInv, RowsAsRead
<1> QED BY <1>2, <1>3, <1>4 DEF RowsInv

LEMMA StartRows ==
  ASSUME RowsInv, NEW c \in Calls,
         \/ \E i \in 1 .. minted : StartSetUp(c, i)
         \/ \E n \in Names, pw \in 1 .. minted : StartLogin(c, n, pw)
         \/ \E s \in sessions : StartPatch(c, s)
         \/ Drop(c)
  PROVE  RowsInv'
<1>1. 1 .. minted \subseteq 1 .. MaxTokens
  BY Numbers DEF RowsInv, RowTypes
<1>2. \A n \in Names : Exists(n) => accounts[n] \in Account /\ accounts[n].pw \in 1 .. MaxTokens
  BY DEF RowsInv, RowTypes, Exists, Account
<1>3. CASE \E i \in 1 .. minted : StartSetUp(c, i)
  <2>1. PICK i \in 1 .. minted : StartSetUp(c, i)
    BY <1>3
  <2> DEFINE held == [op |-> "setup", token |-> i]
  <2>2. held \in CallState /\ held.op = "setup"
    BY <1>1 DEF CallState
  <2> QED BY <2>1, <2>2, CallsOnly DEF StartSetUp
<1>4. CASE \E n \in Names, pw \in 1 .. minted : StartLogin(c, n, pw)
  <2>1. PICK n \in Names, pw \in 1 .. minted : StartLogin(c, n, pw)
    BY <1>4
  <2> DEFINE held == [op |-> "login", name |-> n, pw |-> pw, row |-> accounts[n].pw]
  <2>2. Exists(n)
    BY <2>1 DEF StartLogin
  <2>3. held \in CallState /\ held.op = "login" /\ held.name = n
    BY <1>1, <1>2, <2>2 DEF CallState
  <2> QED BY <2>1, <2>2, <2>3, CallsOnly DEF StartLogin
<1>5. CASE \E s \in sessions : StartPatch(c, s)
  <2>1. PICK s \in sessions : StartPatch(c, s)
    BY <1>5
  <2> DEFINE held == [op |-> "patch", name |-> s.name, row |-> accounts[s.name], crossed |-> FALSE]
  <2>2. s.name \in Names /\ Exists(s.name)
    BY DEF RowsInv, RowTypes, SessionsMatch, Session
  <2>3. held \in CallState /\ held.op = "patch" /\ held.name = s.name /\ held.row = accounts[s.name]
    BY <1>2, <2>2 DEF CallState
  <2>4. accounts[s.name].active \in accounts[s.name].journals
    BY <2>2 DEF RowsInv, AccountsThere
  <2> QED BY <2>1, <2>2, <2>3, <2>4, CallsOnly DEF StartPatch
<1>6. CASE Drop(c)
  <2>1. Idle \in CallState /\ Idle.op = "idle"
    BY DEF CallState, Idle
  <2> QED BY <1>6, <2>1, CallsOnly DEF Drop
<1> QED BY <1>3, <1>4, <1>5, <1>6

LEMMA LogoutRows ==
  ASSUME RowsInv, NEW s \in sessions, Logout(s) PROVE RowsInv'
<1>1. sessions' \in SUBSET sessions
  BY DEF Logout
<1>2. UNCHANGED <<tokens, minted, shells, accounts, issued, calls, newest, spent>>
  BY DEF Logout
<1>3. RowTypes' /\ SessionsMatch'
  BY <1>1, <1>2 DEF RowsInv, RowTypes, SessionsMatch, Exists
<1>4. TokensFresh' /\ AccountsThere' /\ RowsAsRead'
  BY <1>2 DEF RowsInv, TokensFresh, AccountsThere, RowsAsRead, Exists
<1> QED BY <1>3, <1>4 DEF RowsInv

(* A session is issued.                                                    *)
LEMMA Issued ==
  ASSUME Inv, RowsInv, issued < MaxSessions, NEW n \in Names, NEW pw \in 1 .. MaxTokens, NEW late \in BOOLEAN
  PROVE  /\ Issue(n, pw, late) \in Session /\ issued + 1 \in 0 .. MaxSessions
         /\ Issue(n, pw, late).name = n /\ Issue(n, pw, late).pw = pw
         /\ Issue(n, pw, late).late = late
<1>1. wall + SessionTTL \in Int /\ issued + 1 \in 1 .. MaxSessions
  BY Numbers DEF Inv, LimitTypeOK, RowsInv, RowTypes
<1>2. Issue(n, pw, late) \in Session /\ issued + 1 \in 0 .. MaxSessions
  BY <1>1 DEF Issue, Session
<1> QED BY <1>2 DEF Issue

LEMMA FinishLoginRows ==
  ASSUME Inv, RowsInv, NEW c \in Calls, FinishLogin(c) PROVE RowsInv'
<1> DEFINE call == calls[c]
<1>1. call.op = "login" /\ call.name \in Names /\ call.pw \in 1 .. MaxTokens
      /\ call.row \in 1 .. MaxTokens /\ Exists(call.name)
  <2>1. call \in CallState /\ call.op = "login"
    BY DEF FinishLogin, RowsInv, RowTypes
  <2> QED BY <2>1 DEF CallState, Idle, RowsInv, AccountsThere
<1>2. /\ calls' = [calls EXCEPT ![c] = Idle] /\ issued < MaxSessions
      /\ UNCHANGED <<tokens, minted, shells, accounts, newest, spent>>
  BY DEF FinishLogin
<1>3. calls' \in [Calls -> CallState] /\ \A d \in Calls : calls'[d] = IF d = c THEN Idle ELSE calls[d]
  BY <1>2 DEF RowsInv, RowTypes, CallState
<1>4. Idle.op = "idle"
  BY DEF Idle
<1>5. TokensFresh' /\ AccountsThere' /\ RowsAsRead'
  BY <1>2, <1>3, <1>4 DEF RowsInv, TokensFresh, AccountsThere, RowsAsRead, Exists
<1>6. CASE call.pw = call.row
  <2> DEFINE late == call.row # accounts[call.name].pw
             new == Issue(call.name, call.pw, late)
  <2>1. sessions' = sessions \cup {new} /\ issued' = issued + 1
    BY <1>6 DEF FinishLogin
  <2>2. late \in BOOLEAN
    OBVIOUS
  <2>3. /\ new \in Session /\ issued + 1 \in 0 .. MaxSessions
        /\ new.name = call.name /\ new.pw = call.pw /\ new.late = late
    <3> HIDE DEF late
    <3> QED BY <1>1, <1>2, <2>2, Issued
  <2> HIDE DEF new
  <2>4. RowTypes'
    BY <1>2, <1>3, <2>1, <2>3 DEF RowsInv, RowTypes
  <2>5. new.pw = accounts[new.name].pw \/ new.late
    <3>1. CASE call.row = accounts[call.name].pw
      BY <1>6, <2>3, <3>1
    <3>2. CASE call.row # accounts[call.name].pw
      <4>1. new.late = TRUE
        BY <2>3, <3>2
      <4> QED BY <4>1
    <3> QED BY <3>1, <3>2
  <2>6. SessionsMatch'
    <3>1. Exists(new.name)
      BY <1>1, <2>3
    <3>2. \A x \in sessions \cup {new} : Exists(x.name) /\ (x.pw = accounts[x.name].pw \/ x.late)
      BY <2>5, <3>1, Zenon DEF RowsInv, SessionsMatch
    <3> QED BY <1>2, <2>1, <3>2, Zenon DEF SessionsMatch, Exists
  <2> QED BY <1>5, <2>4, <2>6 DEF RowsInv
<1>7. CASE call.pw # call.row
  <2>1. UNCHANGED <<sessions, issued>>
    BY <1>7 DEF FinishLogin
  <2> QED BY <1>2, <1>3, <1>5, <2>1 DEF RowsInv, RowTypes, SessionsMatch, Exists
<1> QED BY <1>6, <1>7

(* What goes on at an account there is leaves it there.                    *)
LEMMA CreateJournalRows ==
  ASSUME RowsInv, NEW s \in sessions, NEW j \in Journals, CreateJournal(s, j) PROVE RowsInv'
<1> DEFINE n == s.name
           a == [accounts[n] EXCEPT !.journals = @ \cup {j}]
<1>1. n \in Names /\ Exists(n) /\ accounts[n] \in Account
  BY DEF RowsInv, RowTypes, SessionsMatch, Session, Exists
<1>2. /\ a \in Account /\ a.pw = accounts[n].pw /\ a.active = accounts[n].active
      /\ a.level = accounts[n].level /\ a.journals = accounts[n].journals \cup {j}
  BY <1>1 DEF Account, AnyJournal
<1>3. a # Nobody
  BY <1>2, Existing
<1>4. /\ accounts' = [accounts EXCEPT ![n] = a]
      /\ UNCHANGED <<tokens, minted, shells, sessions, issued, calls, newest, spent>>
  BY DEF CreateJournal
<1> HIDE DEF a
<1>5. \A m \in Names : accounts'[m] = IF m = n THEN a ELSE accounts[m]
  BY <1>4 DEF RowsInv, RowTypes
<1>6. \A m \in Names : Exists(m) => Exists(m)'
  BY <1>3, <1>5 DEF Exists
<1>7. RowTypes' /\ TokensFresh'
  BY <1>2, <1>4 DEF RowsInv, RowTypes, TokensFresh
<1>8. SessionsMatch'
  <2>1. \A x \in sessions : x.name \in Names
    BY DEF RowsInv, RowTypes, Session
  <2> QED BY <1>2, <1>4, <1>5, <1>6, <2>1 DEF RowsInv, SessionsMatch
<1>9. \A c \in Calls : calls[c].op \in {"login", "patch"} => calls[c].name \in Names
  BY DEF RowsInv, RowTypes, CallState, Idle
<1>10. AccountsThere'
  <2>1. \A m \in Names : Exists(m)' => accounts'[m].active \in accounts'[m].journals
    BY <1>1, <1>2, <1>5 DEF RowsInv, AccountsThere, Exists
  <2>2. \A c \in Calls : calls[c].op \in {"login", "patch"} => accounts'[calls[c].name] # Nobody
    BY <1>6, <1>9 DEF RowsInv, AccountsThere, Exists
  <2>3. \A c \in Calls : calls[c].op = "patch" =>
          calls[c].row.active \in accounts'[calls[c].name].journals
    BY <1>2, <1>5, <1>9 DEF RowsInv, AccountsThere
  <2> QED BY <1>4, <2>1, <2>2, <2>3 DEF AccountsThere, Exists
<1>11. RowsAsRead'
  BY <1>2, <1>4, <1>5, <1>9 DEF RowsInv, RowsAsRead
<1> QED BY <1>7, <1>8, <1>10, <1>11 DEF RowsInv

(* A token is spent: it is gone, and its user's sessions go with the old   *)
(* password.                                                               *)
LEMMA FinishSetUpRows ==
  ASSUME Inv, RowsInv, NEW c \in Calls, FinishSetUp(c) PROVE RowsInv'
<1> DEFINE i == calls[c].token
<1>1. calls[c].op = "setup" /\ i \in 1 .. MaxTokens
  BY DEF FinishSetUp, RowsInv, RowTypes, CallState, Idle
<1>2. /\ calls' = [calls EXCEPT ![c] = Idle] /\ issued < MaxSessions
      /\ UNCHANGED <<minted, shells, newest>> /\ wall' = wall
  BY DEF FinishSetUp, limits, clocks
<1>3. calls' \in [Calls -> CallState] /\ \A d \in Calls : calls'[d] = IF d = c THEN Idle ELSE calls[d]
  BY <1>2 DEF RowsInv, RowTypes, CallState
<1>4. Idle.op = "idle"
  BY DEF Idle
<1>5. CASE UNCHANGED <<tokens, accounts, sessions, issued, spent>>
  BY <1>2, <1>3, <1>4, <1>5
  DEF RowsInv, RowTypes, TokensFresh, AccountsThere, SessionsMatch, RowsAsRead, Exists
<1>6. ASSUME NEW t \in Redeemable(i), tokens' = {u \in tokens : u.id # i},
             accounts' = [accounts EXCEPT ![t.name] = SetUp(t.name, i)],
             sessions' = Reset(t.name) \cup {Issue(t.name, i, FALSE)},
             issued' = issued + 1, spent' = [spent EXCEPT ![i] = @ + 1]
      PROVE  RowsInv'
  <2> DEFINE n == t.name
             a == SetUp(n, i)
             new == Issue(n, i, FALSE)
  <2>1. t \in tokens /\ t.id = i /\ n \in Names
    BY DEF Redeemable, Found, RowsInv, RowTypes, Token
  <2>2. /\ a \in Account /\ a.pw = i /\ a.active \in a.journals
        /\ Exists(n) => /\ a.active = accounts[n].active /\ a.level = accounts[n].level
                        /\ a.journals = accounts[n].journals
    <3>1. CASE Exists(n)
      <4>1. accounts[n] \in Account /\ accounts[n].active \in accounts[n].journals
        BY <2>1, <3>1 DEF RowsInv, RowTypes, AccountsThere, Exists
      <4> QED BY <1>1, <3>1, <4>1 DEF SetUp, Account
    <3>2. CASE ~Exists(n)
      BY <1>1, <3>2 DEF SetUp, Account, AnyJournal, AnyLevel
    <3> QED BY <3>1, <3>2
  <2>3. a # Nobody
    BY <2>2, Existing
  <2>4. /\ new \in Session /\ issued + 1 \in 0 .. MaxSessions
        /\ new.name = n /\ new.pw = i
    BY <1>1, <1>2, <2>1, Issued
  <2> HIDE DEF a, new
  <2>5. \A m \in Names : accounts'[m] = IF m = n THEN a ELSE accounts[m]
    BY <1>6, <2>1 DEF RowsInv, RowTypes, a
  <2>6. \A m \in Names : Exists(m) => Exists(m)'
    BY <2>3, <2>5 DEF Exists
  <2>7. \A d \in Calls : calls[d].op \in {"login", "patch"} => calls[d].name \in Names
    BY DEF RowsInv, RowTypes, CallState, Idle
  <2>8. RowTypes'
    <3>1. accounts' \in [Names -> {Nobody} \cup Account]
      BY <1>6, <2>1, <2>2 DEF RowsInv, RowTypes, a
    <3>2. sessions' \in SUBSET Session /\ issued' \in 0 .. MaxSessions
      BY <1>6, <2>4 DEF RowsInv, RowTypes, Reset, new
    <3>3. tokens' \in SUBSET Token /\ spent' \in [1 .. MaxTokens -> Nat]
      BY <1>1, <1>6 DEF RowsInv, RowTypes
    <3> QED BY <1>2, <1>3, <3>1, <3>2, <3>3 DEF RowsInv, RowTypes
  <2>9. TokensFresh'
    <3>1. \A u \in tokens' : u \in tokens /\ u.id # i /\ u.id \in 1 .. MaxTokens
      BY <1>6 DEF RowsInv, RowTypes, Token
    <3>2. \A k \in 1 .. MaxTokens : k # i => spent'[k] = spent[k]
      BY <1>6 DEF RowsInv, RowTypes
    <3>3. \A k \in 1 .. MaxTokens : k > minted => k # i
      BY <2>1, Numbers DEF RowsInv, RowTypes, TokensFresh
    <3> QED BY <1>2, <3>1, <3>2, <3>3 DEF RowsInv, TokensFresh
  <2>10. SessionsMatch'
    <3> SUFFICES ASSUME NEW x \in sessions'
                 PROVE  Exists(x.name)' /\ (x.pw = accounts'[x.name].pw \/ x.late)
      BY DEF SessionsMatch
    <3>1. CASE x = new
      BY <2>1, <2>2, <2>3, <2>4, <2>5, <3>1 DEF Exists
    <3>2. CASE x # new
      <4>1. x \in sessions /\ x.name # n /\ x.name \in Names
        BY <1>6, <3>2 DEF Reset, RowsInv, RowTypes, Session, new
      <4>2. Exists(x.name) /\ (x.pw = accounts[x.name].pw \/ x.late)
        BY <4>1, Zenon DEF RowsInv, SessionsMatch
      <4>3. accounts'[x.name] = accounts[x.name] /\ Exists(x.name)'
        BY <2>5, <2>6, <4>1, <4>2
      <4> QED BY <4>2, <4>3
    <3> QED BY <3>1, <3>2
  <2>11. AccountsThere'
    <3>1. \A m \in Names : Exists(m)' => accounts'[m].active \in accounts'[m].journals
      BY <2>2, <2>5 DEF RowsInv, AccountsThere, Exists
    <3>2. \A d \in Calls : calls'[d].op \in {"login", "patch"} => accounts'[calls'[d].name] # Nobody
      BY <1>3, <1>4, <2>6, <2>7 DEF RowsInv, AccountsThere, Exists
    <3>3. \A d \in Calls : calls'[d].op = "patch" =>
            calls'[d].row.active \in accounts'[calls'[d].name].journals
      BY <1>3, <1>4, <2>2, <2>5, <2>7 DEF RowsInv, AccountsThere
    <3> QED BY <3>1, <3>2, <3>3 DEF AccountsThere, Exists
  <2>12. RowsAsRead'
    BY <1>3, <1>4, <2>2, <2>5, <2>7 DEF RowsInv, RowsAsRead, AccountsThere
  <2> QED BY <2>8, <2>9, <2>10, <2>11, <2>12 DEF RowsInv
<1> QED BY <1>5, <1>6 DEF FinishSetUp

(* A PATCH is written, and others of the same user are crossed by it.      *)
LEMMA PatchedRows ==
  ASSUME RowsInv, NEW c \in Calls, NEW patch \in Patch, calls[c].op = "patch", Patched(c, patch),
         UNCHANGED <<tokens, minted, shells, sessions, issued, newest, spent>>
  PROVE  RowsInv'
<1> DEFINE n == calls[c].name
           prefs == Preferences(calls[c].row, patch)
           a == [accounts[n] EXCEPT !.active = prefs.active, !.level = prefs.level]
<1>1. n \in Names /\ Exists(n) /\ accounts[n] \in Account /\ calls[c].row \in Account
  <2>1. n \in Names /\ calls[c].row \in Account
    BY DEF RowsInv, RowTypes, CallState, Idle
  <2>2. Exists(n)
    BY DEF RowsInv, AccountsThere
  <2> QED BY <2>1, <2>2 DEF RowsInv, RowTypes, Exists
<1>2. prefs.active \in accounts[n].journals /\ prefs.level \in AnyLevel
  <2>1. calls[c].row.active \in accounts[n].journals /\ calls[c].row.level \in AnyLevel
    BY <1>1 DEF RowsInv, AccountsThere, Account
  <2>2. patch.active \in accounts[n].journals \cup {"none"} /\ patch.level \in AnyLevel \cup {"none"}
    BY DEF Patched, Patch
  <2> QED BY <2>1, <2>2 DEF Preferences
<1> HIDE DEF prefs
<1>3. /\ a \in Account /\ a.pw = accounts[n].pw /\ a.journals = accounts[n].journals
      /\ a.active \in a.journals
  BY <1>1, <1>2 DEF Account
<1>4. a # Nobody
  BY <1>3, Existing
<1>5. accounts' = [accounts EXCEPT ![n] = a]
  BY DEF Patched, prefs
<1> HIDE DEF a
<1>6. \A m \in Names : accounts'[m] = IF m = n THEN a ELSE accounts[m]
  BY <1>5 DEF RowsInv, RowTypes
<1>7. \A m \in Names : Exists(m) => Exists(m)'
  BY <1>4, <1>6 DEF Exists
<1>8. \A d \in Calls :
        calls'[d] = IF d = c THEN Idle
                    ELSE IF calls[d].op = "patch" /\ calls[d].name = n
                      THEN [calls[d] EXCEPT !.crossed = TRUE]
                      ELSE calls[d]
  BY DEF Patched
<1>9. \A d \in Calls : calls[d] \in CallState
  BY DEF RowsInv, RowTypes
<1>10. ASSUME NEW d \in Calls, calls[d].op = "patch"
       PROVE  /\ [calls[d] EXCEPT !.crossed = TRUE] \in CallState
              /\ [calls[d] EXCEPT !.crossed = TRUE].op = "patch"
              /\ [calls[d] EXCEPT !.crossed = TRUE].name = calls[d].name
              /\ [calls[d] EXCEPT !.crossed = TRUE].row = calls[d].row
              /\ [calls[d] EXCEPT !.crossed = TRUE].crossed = TRUE
  <2>1. calls[d] \in [op : {"patch"}, name : Names, row : Account, crossed : BOOLEAN]
    BY <1>9, <1>10 DEF CallState, Idle
  <2> QED BY <2>1 DEF CallState
<1>11. Idle.op = "idle" /\ Idle \in CallState
  BY DEF Idle, CallState
<1>12. ASSUME NEW d \in Calls, calls'[d].op \in {"login", "patch"}
       PROVE  /\ d # c /\ calls'[d].op = calls[d].op /\ calls'[d].name = calls[d].name
              /\ calls[d].name \in Names
              /\ calls'[d].op = "patch" => calls'[d].row = calls[d].row
              /\ calls'[d].op = "patch" /\ calls[d].name = n => calls'[d].crossed = TRUE
              /\ calls[d].name # n => calls'[d] = calls[d]
  <2>1. d # c
    BY <1>8, <1>11, <1>12
  <2>2. CASE calls[d].op = "patch" /\ calls[d].name = n
    BY <1>1, <1>8, <1>10, <2>1, <2>2
  <2>3. CASE ~(calls[d].op = "patch" /\ calls[d].name = n)
    <3>1. calls'[d] = calls[d]
      BY <1>8, <2>1, <2>3
    <3>2. calls[d].name \in Names
      BY <1>9, <1>12, <3>1 DEF CallState, Idle
    <3> QED BY <2>1, <2>3, <3>1, <3>2
  <2> QED BY <2>2, <2>3
<1>13. RowTypes'
  <2>1. \A d \in Calls : calls'[d] \in CallState
    BY <1>8, <1>9, <1>10, <1>11
  <2>2. calls' = [d \in Calls |-> calls'[d]]
    BY DEF Patched
  <2>3. calls' \in [Calls -> CallState]
    BY <2>1, <2>2
  <2>4. accounts' \in [Names -> {Nobody} \cup Account]
    BY <1>3, <1>5 DEF RowsInv, RowTypes
  <2> QED BY <2>3, <2>4 DEF RowsInv, RowTypes
<1>14. TokensFresh'
  BY DEF RowsInv, TokensFresh
<1>15. SessionsMatch'
  <2> SUFFICES ASSUME NEW x \in sessions
               PROVE  Exists(x.name)' /\ (x.pw = accounts'[x.name].pw \/ x.late)
    BY DEF SessionsMatch
  <2>1. x.name \in Names
    BY DEF RowsInv, RowTypes, Session
  <2>2. Exists(x.name) /\ (x.pw = accounts[x.name].pw \/ x.late)
    BY Zenon DEF RowsInv, SessionsMatch
  <2>3. accounts'[x.name].pw = accounts[x.name].pw /\ Exists(x.name)'
    BY <1>3, <1>6, <1>7, <2>1, <2>2
  <2> QED BY <2>2, <2>3
<1>16. AccountsThere'
  <2>1. \A m \in Names : Exists(m)' => accounts'[m].active \in accounts'[m].journals
    BY <1>3, <1>6 DEF RowsInv, AccountsThere, Exists
  <2>2. \A m \in Names : accounts'[m].journals = accounts[m].journals
    BY <1>3, <1>6
  <2>3. \A d \in Calls : calls'[d].op \in {"login", "patch"} => accounts'[calls'[d].name] # Nobody
    <3> SUFFICES ASSUME NEW d \in Calls, calls'[d].op \in {"login", "patch"}
                 PROVE  accounts'[calls'[d].name] # Nobody
      OBVIOUS
    <3>1. calls'[d].name = calls[d].name /\ calls[d].op \in {"login", "patch"} /\ calls[d].name \in Names
      BY <1>12
    <3> QED BY <1>7, <3>1 DEF RowsInv, AccountsThere, Exists
  <2>4. \A d \in Calls : calls'[d].op = "patch" =>
          calls'[d].row.active \in accounts'[calls'[d].name].journals
    <3> SUFFICES ASSUME NEW d \in Calls, calls'[d].op = "patch"
                 PROVE  calls'[d].row.active \in accounts'[calls'[d].name].journals
      OBVIOUS
    <3>1. /\ calls'[d].name = calls[d].name /\ calls[d].op = "patch" /\ calls[d].name \in Names
          /\ calls'[d].row = calls[d].row
      BY <1>12
    <3> QED BY <2>2, <3>1 DEF RowsInv, AccountsThere
  <2> QED BY <2>1, <2>3, <2>4 DEF AccountsThere, Exists
<1>17. RowsAsRead'
  <2> SUFFICES ASSUME NEW d \in Calls, calls'[d].op = "patch", ~calls'[d].crossed
               PROVE  /\ calls'[d].row.active = accounts'[calls'[d].name].active
                      /\ calls'[d].row.level = accounts'[calls'[d].name].level
    BY DEF RowsAsRead
  <2>1. calls[d].name # n
    <3>1. calls[d].name = n => calls'[d].crossed = TRUE
      BY <1>12
    <3> QED BY <3>1
  <2>2. calls'[d] = calls[d] /\ calls[d].name \in Names
    BY <1>12, <2>1
  <2>3. ~calls[d].crossed /\ calls[d].op = "patch"
    BY <2>2
  <2>4. accounts'[calls[d].name] = accounts[calls[d].name]
    BY <1>6, <2>1, <2>2
  <2> QED BY <2>2, <2>3, <2>4 DEF RowsInv, RowsAsRead
<1> QED BY <1>13, <1>14, <1>15, <1>16, <1>17 DEF RowsInv
-----------------------------------------------------------------------------
(* What a step does to the clock and the limiter is a step of theirs.      *)
LEMMA LimitStep == [Next]_vars => [LimitNext]_limits
<1> SUFFICES ASSUME [Next]_vars PROVE [LimitNext]_limits
  OBVIOUS
<1>1. ASSUME NEW s \in Shells, Mint(s) \/ \E n \in Names : Retire(s, n)
      PROVE  UNCHANGED limits
  BY <1>1 DEF Mint, Retire
<1>2. CASE TooMany
  BY <1>2 DEF TooMany, LimitNext, clocks
<1>3. ASSUME NEW c \in Calls,
             \/ LookUp(c)
             \/ \E i \in 1 .. minted : StartSetUp(c, i)
             \/ \E n \in Names, pw \in 1 .. minted : StartLogin(c, n, pw)
      PROVE  LimitNext
  BY <1>3 DEF LookUp, StartSetUp, StartLogin, Begin, LimitNext, clocks
<1>4. ASSUME NEW c \in Calls,
             FinishSetUp(c) \/ FinishLogin(c) \/ FinishPatch(c) \/ Drop(c) \/ \E s \in sessions : StartPatch(c, s)
      PROVE  UNCHANGED limits
  BY <1>4 DEF FinishSetUp, FinishLogin, FinishPatch, Drop, StartPatch
<1>5. ASSUME NEW s \in sessions, Logout(s) \/ \E j \in Journals : CreateJournal(s, j)
      PROVE  UNCHANGED limits
  BY <1>5 DEF Logout, CreateJournal
<1>6. CASE Clock
  BY <1>6 DEF LimitNext
<1>7. CASE UNCHANGED vars
  BY <1>7 DEF vars
<1> QED BY <1>1, <1>2, <1>3, <1>4, <1>5, <1>6, <1>7 DEF Next

LEMMA LimitInv == Inv /\ [LimitNext]_limits => Inv'
<1> SUFFICES ASSUME Inv, [LimitNext]_limits PROVE Inv'
  OBVIOUS
<1>1. CASE UNCHANGED limits
  BY <1>1 DEF limits, clocks, limiter, Inv, LimitTypeOK, Accounted
<1> QED BY <1>1, ClockInv, TakeInv DEF LimitNext

LEMMA StepInv == AccountInv /\ [Next]_vars => AccountInv'
<1> SUFFICES ASSUME AccountInv, [Next]_vars PROVE AccountInv'
  OBVIOUS
<1> USE DEF AccountInv
<1>1. Inv'
  BY LimitStep, LimitInv
<1>2. ASSUME NEW s \in Shells, Mint(s) \/ \E n \in Names : Retire(s, n) PROVE RowsInv'
  BY <1>2, MintRows, RetireRows
<1>3. ASSUME TooMany \/ (\E c \in Calls : LookUp(c)) \/ (Clock /\ UNCHANGED rows) \/ UNCHANGED vars
      PROVE  RowsInv'
  <2>1. UNCHANGED <<tokens, minted, shells, accounts, sessions, issued, calls, newest, spent>>
    BY <1>3 DEF TooMany, LookUp, vars, rows
  <2>2. UNCHANGED rows
    BY <2>1 DEF rows
  <2> QED BY <2>2, SameRows
<1>4. ASSUME NEW c \in Calls,
             \/ \E i \in 1 .. minted : StartSetUp(c, i)
             \/ \E n \in Names, pw \in 1 .. minted : StartLogin(c, n, pw)
             \/ \E s \in sessions : StartPatch(c, s)
             \/ Drop(c)
      PROVE  RowsInv'
  BY <1>4, StartRows
<1>5. ASSUME NEW c \in Calls, FinishSetUp(c) \/ FinishLogin(c) PROVE RowsInv'
  BY <1>5, FinishSetUpRows, FinishLoginRows
<1>6. ASSUME NEW c \in Calls, FinishPatch(c) PROVE RowsInv'
  <2>1. PICK patch \in Patch : Patched(c, patch)
    BY <1>6 DEF FinishPatch
  <2>2. calls[c].op = "patch" /\ UNCHANGED <<tokens, minted, shells, sessions, issued, newest, spent>>
    BY <1>6 DEF FinishPatch
  <2> QED BY <2>1, <2>2, PatchedRows
<1>7. ASSUME NEW s \in sessions, Logout(s) \/ \E j \in Journals : CreateJournal(s, j) PROVE RowsInv'
  BY <1>7, LogoutRows, CreateJournalRows
<1>8. RowsInv'
  BY <1>2, <1>3, <1>4, <1>5, <1>6, <1>7 DEF Next
<1> QED BY <1>1, <1>8

LEMMA AlwaysInv == Spec => []AccountInv
<1>1. Init => AccountInv
  BY InitRows, InitInv DEF Init, AccountInv
<1> QED BY <1>1, StepInv, PTL DEF Spec

(* The state is of its type: an account's active journal is its own, and   *)
(* no name has two tokens.                                                 *)
THEOREM TypeCorrect == Spec => []TypeOK
<1>1. AccountInv => TypeOK
  <2> SUFFICES ASSUME AccountInv PROVE TypeOK
    OBVIOUS
  <2>1. \A t, u \in tokens : t.name = u.name => t = u
    BY DEF AccountInv, RowsInv, TokensFresh
  <2>2. \A n \in Names : Exists(n) =>
          accounts[n] \in Account /\ accounts[n].active \in accounts[n].journals
    BY DEF AccountInv, RowsInv, RowTypes, AccountsThere, Exists
  <2> QED BY <2>1, <2>2 DEF AccountInv, Inv, RowsInv, RowTypes, TypeOK
<1> QED BY <1>1, AlwaysInv, PTL

(* Every session was signed in with the account's password as it is, but   *)
(* for a login that a reset overtook (auth.js:138-139).                    *)
THEOREM SessionsGoWithPasswords == Spec => []SessionsMatch
<1>1. AccountInv => SessionsMatch
  BY DEF AccountInv, RowsInv
<1> QED BY <1>1, AlwaysInv, PTL

(* The credential calls of all together are within the limit.              *)
THEOREM CallsAreLimited == Spec => []BucketBound
<1>1. AccountInv => BucketBound
  BY InvBounds DEF AccountInv
<1> QED BY <1>1, AlwaysInv, PTL

(* A token is redeemed once, in time, and as the newest of its name.       *)
THEOREM TokensRedeemedOnce == Spec => RedeemedOnce
<1>1. AccountInv /\ [Next]_vars =>
        [\A i \in 1 .. MaxTokens : spent'[i] # spent[i] =>
           /\ spent[i] = 0
           /\ \E t \in tokens : t.id = i /\ newest[t.name] = i /\ wall < t.exp]_vars
  <2> SUFFICES ASSUME AccountInv, Next, NEW i \in 1 .. MaxTokens, spent'[i] # spent[i]
               PROVE  spent[i] = 0 /\ \E t \in tokens : t.id = i /\ newest[t.name] = i /\ wall < t.exp
    BY DEF vars, rows
  <2>1. PICK c \in Calls : FinishSetUp(c)
    BY DEF Next, Mint, Retire, TooMany, LookUp, StartSetUp, StartLogin, FinishLogin, FinishPatch,
           Drop, StartPatch, Logout, CreateJournal, rows
  <2>2. PICK t \in Redeemable(calls[c].token) :
          spent' = [spent EXCEPT ![calls[c].token] = @ + 1]
    BY <2>1 DEF FinishSetUp
  <2>3. calls[c].token = i
    BY <2>2 DEF AccountInv, RowsInv, RowTypes
  <2>4. t \in tokens /\ t.id = i /\ t.exp > wall /\ t.exp \in Int /\ wall \in Int
    BY <2>2, <2>3 DEF Redeemable, Found, AccountInv, RowsInv, RowTypes, Token, Inv, LimitTypeOK
  <2>5. newest[t.name] = i /\ spent[i] = 0
    BY <2>4 DEF AccountInv, RowsInv, TokensFresh
  <2> QED BY <2>4, <2>5
<1> QED BY <1>1, AlwaysInv, PTL DEF Spec, RedeemedOnce

(* A PATCH that was not crossed by another changes only what it names.     *)
THEOREM PreferencesKept == Spec => PreferencesStick
<1>1. AccountInv /\ [Next]_vars =>
        [\A c \in Calls, patch \in Patch :
           (calls[c].op = "patch" /\ ~calls[c].crossed /\ Patched(c, patch)) =>
             LET n == calls[c].name
             IN /\ patch.active = "none" => accounts'[n].active = accounts[n].active
                /\ patch.level = "none" => accounts'[n].level = accounts[n].level]_vars
  <2> SUFFICES ASSUME AccountInv, NEW c \in Calls, NEW patch \in Patch,
                      calls[c].op = "patch", ~calls[c].crossed, Patched(c, patch)
               PROVE  /\ patch.active = "none" =>
                           accounts'[calls[c].name].active = accounts[calls[c].name].active
                      /\ patch.level = "none" =>
                           accounts'[calls[c].name].level = accounts[calls[c].name].level
    OBVIOUS
  <2> DEFINE n == calls[c].name
             prefs == Preferences(calls[c].row, patch)
  <2>1. n \in Names /\ accounts[n] \in Account
    BY DEF AccountInv, RowsInv, RowTypes, AccountsThere, CallState, Idle, Exists
  <2>2. accounts'[n].active = prefs.active /\ accounts'[n].level = prefs.level
    BY <2>1 DEF Patched, AccountInv, RowsInv, RowTypes, Account
  <2>3. calls[c].row.active = accounts[n].active /\ calls[c].row.level = accounts[n].level
    BY DEF AccountInv, RowsInv, RowsAsRead
  <2> QED BY <2>2, <2>3 DEF Preferences
<1> QED BY <1>1, AlwaysInv, PTL DEF Spec, PreferencesStick
=============================================================================
