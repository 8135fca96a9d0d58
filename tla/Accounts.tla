------------------------------- MODULE Accounts -------------------------------
(***************************************************************************)
(* Accounts (server/auth.js): tokens minted by the operator's script, set  *)
(* up and reset, sessions, and the preferences kept with the account. The  *)
(* server is one thread, so what lies between two awaits is one step; the  *)
(* script is another process, so each of its statements is one.            *)
(*                                                                         *)
(* A call that has taken its token of authLimiter reads its body at once:  *)
(* nothing is held over that wait. A PATCH authenticates first and holds   *)
(* the user's row over it. Each account token goes with one password, its  *)
(* number, so the account's password says which token set it.              *)
(***************************************************************************)
EXTENDS RateLimit, FiniteSets

CONSTANTS
  Names, Calls, Shells,   \* users' names, requests under way, runs of the script
  Journals, Levels,       \* journals, other than personal; granularities
  Personal, City,         \* the defaults: every account's first journal, 'city'
  TokenTTL, SessionTTL,
  MaxTokens, MaxSessions  \* bounds: tokens ever minted, sessions ever issued

ASSUME AccountConstants ==
  /\ TokenTTL \in Nat \ {0} /\ SessionTTL \in Nat \ {0}
  /\ MaxTokens \in Nat /\ MaxSessions \in Nat

VARIABLES
  tokens,    \* account_tokens
  minted,    \* how many there have been; the next one's number
  shells,    \* what each run of the script is about to insert
  accounts,  \* users, by name, with the names of their journals
  sessions,  \* sessions
  issued,    \* how many there have been
  calls,     \* what each request holds over its await
  newest,    \* history: the last token minted for each name
  spent      \* history: how often each token has been redeemed

rows == <<tokens, minted, shells, accounts, sessions, issued, calls, newest, spent>>
vars == <<limits, rows>>

Nobody == [pw |-> 0]   \* no account under this name
Idle == [op |-> "idle"]
AnyLevel == Levels \cup {City}
AnyJournal == Journals \cup {Personal}
Token == [id : 1 .. MaxTokens, name : Names, exp : Int]
\* pw: the password it was signed in with; late: see Resume
Session == [id : 1 .. MaxSessions, name : Names, pw : 1 .. MaxTokens, exp : Int, late : BOOLEAN]
Account == [pw : 1 .. MaxTokens, active : AnyJournal, level : AnyLevel, journals : SUBSET AnyJournal]
\* level: 'off' ... 'exact', or a PATCH that names none
Patch == [active : AnyJournal \cup {"none"}, level : AnyLevel \cup {"none"}]
-----------------------------------------------------------------------------
Init ==
  /\ LimitInit
  /\ tokens = {} /\ minted = 0 /\ shells = [s \in Shells |-> Idle]
  /\ accounts = [n \in Names |-> Nobody]
  /\ sessions = {} /\ issued = 0
  /\ calls = [c \in Calls |-> Idle]
  /\ newest = [n \in Names |-> 0]
  /\ spent = [i \in 1 .. MaxTokens |-> 0]

Exists(n) == accounts[n] # Nobody

(* createAccountToken: the expired ones are swept and the name's own goes, *)
(* then the new one is inserted, or the name is taken again by then and    *)
(* the insert fails.                                                       *)
Retire(s, n) ==
  /\ shells[s] = Idle /\ minted < MaxTokens
  /\ tokens' = {t \in tokens : t.exp > wall /\ t.name # n}
  /\ shells' = [shells EXCEPT ![s] = [op |-> "mint", name |-> n, exp |-> wall + TokenTTL]]
  /\ UNCHANGED <<limits, minted, accounts, sessions, issued, calls, newest, spent>>

UniqueName(n) == \A t \in tokens : t.name # n
Mint(s) ==
  /\ shells[s].op = "mint" /\ minted < MaxTokens
  /\ shells' = [shells EXCEPT ![s] = Idle]
  /\ LET n == shells[s].name IN
       IF UniqueName(n)
         THEN /\ minted' = minted + 1
              /\ tokens' = tokens \cup {[id |-> minted', name |-> n, exp |-> shells[s].exp]}
              /\ newest' = [newest EXCEPT ![n] = minted']
         ELSE UNCHANGED <<tokens, minted, newest>>
  /\ UNCHANGED <<limits, accounts, sessions, issued, calls, spent>>
-----------------------------------------------------------------------------
(* The credential calls: refused by authLimiter, or begun.                 *)
Begin(c) == calls[c] = Idle /\ TakeOk /\ UNCHANGED clocks

TooMany == TakeRefused /\ UNCHANGED <<clocks, rows>>

Found(i) == {t \in tokens : t.id = i /\ t.exp > wall}   \* findAccountToken, and its expiry

(* lookupAccountToken, and any of the calls that fails before it awaits.   *)
LookUp(c) == Begin(c) /\ UNCHANGED rows

StartSetUp(c, i) ==
  /\ Begin(c) /\ Found(i) # {}
  /\ calls' = [calls EXCEPT ![c] = [op |-> "setup", token |-> i]]
  /\ UNCHANGED <<tokens, minted, shells, accounts, sessions, issued, newest, spent>>

(* login reads the row, then compares passwords; pw is the one it is given.*)
StartLogin(c, n, pw) ==
  /\ Begin(c)
  /\ Exists(n)
  /\ calls' = [calls EXCEPT ![c] =
       [op |-> "login", name |-> n, pw |-> pw, row |-> accounts[n].pw]]
  /\ UNCHANGED <<tokens, minted, shells, accounts, sessions, issued, newest, spent>>

Issue(n, pw, late) ==   \* issueToken
  [id |-> issued + 1, name |-> n, pw |-> pw, exp |-> wall + SessionTTL, late |-> late]

(* The password is hashed: the token is read again, and spent.             *)
Redeemable_AsRead(i) ==   \* mutant: hashing does not outlast a token
  {[id |-> i, name |-> n, exp |-> wall + 1] : n \in {m \in Names : newest[m] >= i}}
Redeemable(i) == Found(i)

Reset_Keeping(n) == sessions   \* mutant: the sessions stay
Reset(n) == {s \in sessions : s.name # n}

SetUp_NoJournal(n, i) ==   \* mutant: no personal journal
  IF Exists(n) THEN [accounts[n] EXCEPT !.pw = i]
  ELSE [pw |-> i, active |-> Personal, level |-> City, journals |-> {}]
SetUp(n, i) ==
  IF Exists(n) THEN [accounts[n] EXCEPT !.pw = i]
  ELSE [pw |-> i, active |-> Personal, level |-> City, journals |-> {Personal}]

FinishSetUp(c) ==
  /\ calls[c].op = "setup" /\ issued < MaxSessions
  /\ calls' = [calls EXCEPT ![c] = Idle]
  /\ LET i == calls[c].token
     IN \/ /\ Redeemable(i) = {}   \* ROLLBACK
           /\ UNCHANGED <<tokens, accounts, sessions, issued, spent>>
        \/ \E t \in Redeemable(i) :
             /\ tokens' = {u \in tokens : u.id # i}
             /\ accounts' = [accounts EXCEPT ![t.name] = SetUp(t.name, i)]
             /\ sessions' = Reset(t.name) \cup {Issue(t.name, i, FALSE)}
             /\ issued' = issued + 1
             /\ spent' = [spent EXCEPT ![i] = @ + 1]
  /\ UNCHANGED <<limits, minted, shells, newest>>

FinishLogin(c) ==
  /\ calls[c].op = "login" /\ issued < MaxSessions
  /\ calls' = [calls EXCEPT ![c] = Idle]
  /\ LET call == calls[c]
     IN IF call.pw = call.row
          THEN /\ sessions' = sessions \cup
                    {Issue(call.name, call.pw, call.row # accounts[call.name].pw)}
               /\ issued' = issued + 1
          ELSE UNCHANGED <<sessions, issued>>
  /\ UNCHANGED <<limits, tokens, minted, shells, accounts, newest, spent>>

Logout(s) ==
  /\ sessions' = sessions \ {s}
  /\ UNCHANGED <<limits, tokens, minted, shells, accounts, issued, calls, newest, spent>>
-----------------------------------------------------------------------------
Authentic(s) == s.exp > wall   \* authenticate; s is a session there is

CreateJournal(s, j) ==
  /\ Authentic(s)
  /\ accounts' = [accounts EXCEPT ![s.name].journals = @ \cup {j}]
  /\ UNCHANGED <<limits, tokens, minted, shells, sessions, issued, calls, newest, spent>>

(* PATCH /preferences: authenticate reads the row, the body comes in.      *)
StartPatch(c, s) ==
  /\ calls[c] = Idle /\ Authentic(s)
  /\ calls' = [calls EXCEPT ![c] =
       [op |-> "patch", name |-> s.name, row |-> accounts[s.name], crossed |-> FALSE]]
  /\ UNCHANGED <<limits, tokens, minted, shells, accounts, sessions, issued, newest, spent>>

(* setPreferences: what the body does not name is written from the row.    *)
Preferences_Defaulted(row, patch) ==   \* mutant: or the default
  [active |-> IF patch.active # "none" THEN patch.active ELSE row.active,
   level  |-> IF patch.level # "none" THEN patch.level ELSE City]
Preferences(row, patch) ==
  [active |-> IF patch.active # "none" THEN patch.active ELSE row.active,
   level  |-> IF patch.level # "none" THEN patch.level ELSE row.level]

Patched(c, patch) ==
  LET n == calls[c].name
      prefs == Preferences(calls[c].row, patch)
  IN /\ patch.active \in accounts[n].journals \cup {"none"}   \* requireJournal, or 404
     /\ accounts' = [accounts EXCEPT ![n].active = prefs.active, ![n].level = prefs.level]
     /\ calls' = [d \in Calls |->
          IF d = c THEN Idle
          ELSE IF calls[d].op = "patch" /\ calls[d].name = n
            THEN [calls[d] EXCEPT !.crossed = TRUE]   \* history: written to meanwhile
            ELSE calls[d]]

FinishPatch(c) ==
  /\ calls[c].op = "patch"
  /\ \E patch \in Patch : Patched(c, patch)
  /\ UNCHANGED <<limits, tokens, minted, shells, sessions, issued, newest, spent>>

Drop(c) ==   \* the body does not arrive, or names no journal of the user's
  /\ calls[c].op = "patch"
  /\ calls' = [calls EXCEPT ![c] = Idle]
  /\ UNCHANGED <<limits, tokens, minted, shells, accounts, sessions, issued, newest, spent>>

Next ==
  \/ \E s \in Shells : Mint(s) \/ \E n \in Names : Retire(s, n)
  \/ TooMany
  \/ \E c \in Calls :
       \/ LookUp(c)
       \/ \E i \in 1 .. minted : StartSetUp(c, i)
       \/ \E n \in Names, pw \in 1 .. minted : StartLogin(c, n, pw)
       \/ FinishSetUp(c) \/ FinishLogin(c) \/ FinishPatch(c) \/ Drop(c)
       \/ \E s \in sessions : StartPatch(c, s)
  \/ \E s \in sessions : Logout(s) \/ \E j \in Journals : CreateJournal(s, j)
  \/ Clock /\ UNCHANGED rows

Spec == Init /\ [][Next]_vars
-----------------------------------------------------------------------------
(* The state is of its type: an account's active journal is one of its     *)
(* own, and no two tokens have the same name (server/db.js:57-62).         *)
TypeOK ==
  /\ LimitTypeOK
  /\ tokens \subseteq Token /\ minted \in 0 .. MaxTokens
  /\ \A t, u \in tokens : t.name = u.name => t = u
  /\ \A n \in Names : Exists(n) =>
       accounts[n] \in Account /\ accounts[n].active \in accounts[n].journals
  /\ sessions \subseteq Session /\ issued \in 0 .. MaxSessions

(* A session was signed in with the account's password as it is, a reset   *)
(* having dropped the others (auth.js:138-139), but for a login that was   *)
(* comparing passwords at that very time.                                  *)
SessionsMatch ==
  \A s \in sessions : Exists(s.name) /\ (s.pw = accounts[s.name].pw \/ s.late)

(* A token is redeemed at most once, before it expires, and only when no   *)
(* other has been minted for its name since: hashing outlasts any of that  *)
(* (auth.js:90-103, 138-141).                                              *)
RedeemedOnce ==
  [][\A i \in 1 .. MaxTokens : spent'[i] # spent[i] =>
       /\ spent[i] = 0
       /\ \E t \in tokens : t.id = i /\ newest[t.name] = i /\ wall < t.exp]_vars

(* A preference changes only by a PATCH that names it, but for one that    *)
(* waited for its body while another one was written: this one then puts   *)
(* back what it had read (entries.js:171-179). Stated of what a PATCH that *)
(* names only the one does to the other.                                   *)
PreferencesStick ==
  [][\A c \in Calls, patch \in Patch :
       (calls[c].op = "patch" /\ ~calls[c].crossed /\ Patched(c, patch)) =>
         LET n == calls[c].name
         IN /\ patch.active = "none" => accounts'[n].active = accounts[n].active
            /\ patch.level = "none" => accounts'[n].level = accounts[n].level]_vars
=============================================================================
