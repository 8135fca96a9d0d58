--------------------------- MODULE Converse_proofs ---------------------------
(***************************************************************************)
(* Of the connections of one user, for any number of them, any kinds of    *)
(* line and any lengths: the interpreter of the one that speaks English    *)
(* keeps a history the API accepts; every client is owed just what is on   *)
(* its way; and together they keep the pace that Throttle asks of those    *)
(* who share a byte budget, so what is proved of such a budget holds of    *)
(* them.                                                                   *)
(***************************************************************************)
EXTENDS Converse, SequenceTheorems, WellFoundedInduction, TLAPS

Prefix(b, h) == Len(b) <= Len(h) /\ \A i \in 1 .. Len(b) : h[i] = b[i]

(* ctx is what the last system message of h tells, None if there is none.  *)
LastTold(h, ctx) ==
  \/ ctx = None /\ \A i \in 1 .. Len(h) : h[i].role # "system"
  \/ \E i \in 1 .. Len(h) :
       /\ h[i].role = "system" /\ h[i].context = ctx
       /\ \A j \in 1 .. Len(h) : j > i => h[j].role # "system"

Turns ==
  {Resting}
    \cup [at : {"context"}, before : Seq(Message), sentBefore : Contexts \cup {None}]
    \cup [at : {"model", "tools"}, step : 1 .. MaxSteps, uses : Seq(Nat), done : SUBSET Nat,
          before : Seq(Message), sentBefore : Contexts \cup {None}]

HistoryOK ==
  /\ history \in Seq(Message) /\ sentContext \in Contexts \cup {None} /\ turn \in Turns
  /\ LastTold(history, sentContext)
  /\ turn # Resting => Prefix(turn.before, history) /\ LastTold(turn.before, turn.sentBefore)
  /\ loose \subseteq 1 .. Len(history)
  /\ turn.at = "tools" => history # <<>>

(* A tool under way has a name of its own, that no result has yet.         *)
ResultsOK ==
  /\ rpcId \in Nat /\ results \in Seq(Nat) /\ Len(results) <= MaxStored
  /\ \A i \in 1 .. Len(results) : results[i] \in 1 .. rpcId
  /\ \A i, j \in 1 .. Len(results) : results[i] = results[j] => i = j
  /\ turn.at = "tools" =>
       /\ ToSet(turn.uses) \subseteq 1 .. rpcId
       /\ \A i \in 1 .. Len(results) : results[i] \in ToSet(turn.uses) => results[i] \in turn.done

TurnInv == HistoryOK /\ ResultsOK
-----------------------------------------------------------------------------
LEMMA Messages ==
  /\ UserSays \in Message /\ UserSays.role = "user"
  /\ FixThat \in Message /\ FixThat.role = "user"
  /\ \A ctx \in Contexts : SystemSays(ctx) \in Message /\ SystemSays(ctx).role = "system"
                           /\ SystemSays(ctx).context = ctx
  /\ \A uses \in Seq(Nat) : Assistant(uses) \in Message /\ Assistant(uses).role = "assistant"
                            /\ Assistant(uses).uses = uses
                            /\ Outcomes(uses) \in Message /\ Outcomes(uses).role = "user"
BY DEF Message, UserSays, FixThat, SystemSays, Assistant, Outcomes

LEMMA TurnIs ==
  ASSUME turn \in Turns
  PROVE  /\ turn # Resting <=> turn.at \in {"context", "model", "tools"}
         /\ turn # Resting => turn.before \in Seq(Message) /\ turn.sentBefore \in Contexts \cup {None}
         /\ turn.at \in {"model", "tools"} =>
              turn.step \in 1 .. MaxSteps /\ turn.uses \in Seq(Nat) /\ turn.done \in SUBSET Nat
BY DEF Turns, Resting

LEMMA TurningIs ==
  ASSUME turn \in Turns, turn # Resting,
         NEW at \in {"model", "tools"}, NEW step \in 1 .. MaxSteps, NEW uses \in Seq(Nat)
  PROVE  LET t == Turning(at, step, uses)
         IN /\ t \in Turns /\ t # Resting /\ t.before = turn.before /\ t.sentBefore = turn.sentBefore
            /\ t.at = at /\ t.uses = uses /\ t.step = step /\ t.done = {}
<1>1. turn.before \in Seq(Message) /\ turn.sentBefore \in Contexts \cup {None}
  BY TurnIs
<1>2. QED
  BY <1>1 DEF Turning, Turns, Resting

LEMMA PrefixIs ==
  ASSUME NEW b \in Seq(Message), NEW h \in Seq(Message), Prefix(b, h)
  PROVE  SubSeq(h, 1, Len(b)) = b /\ IsPrefix(b, h)
<1>1. Len(b) \in Nat /\ Len(h) \in Nat /\ Len(b) <= Len(h)
  BY DEF Prefix
<1>2. SubSeq(h, 1, Len(b)) \in Seq(Message) /\ Len(SubSeq(h, 1, Len(b))) = Len(b)
      /\ \A i \in 1 .. Len(b) : SubSeq(h, 1, Len(b))[i] = h[i]
  <2>1. \A i \in 1 .. Len(b) : i \in 1 .. Len(h)
    BY <1>1
  <2>2. QED
    BY <1>1, <2>1, SubSeqProperties
<1>3. SubSeq(h, 1, Len(b)) = b
  BY <1>2, SeqEqual DEF Prefix
<1>4. SubSeq(b, 1, Len(b)) = b
  BY SubSeqFull
<1>5. QED
  BY <1>1, <1>3, <1>4 DEF IsPrefix

(* Messages that are no system messages change nothing of what is told.    *)
LEMMA Grown ==
  ASSUME NEW h \in Seq(Message), NEW m \in Seq(Message)
  PROVE  /\ h \o m \in Seq(Message) /\ Len(h \o m) = Len(h) + Len(m)
         /\ \A i \in 1 .. Len(h) : (h \o m)[i] = h[i]
         /\ \A i \in 1 .. Len(m) : (h \o m)[Len(h) + i] = m[i]
         /\ Prefix(h, h \o m)
         /\ \A b \in Seq(Message) : Prefix(b, h) => Prefix(b, h \o m)
         /\ \A ctx : LastTold(h, ctx) /\ (\A i \in 1 .. Len(m) : m[i].role # "system") =>
                       LastTold(h \o m, ctx)
<1>0. Len(h) \in Nat /\ Len(m) \in Nat
  OBVIOUS
<1>1. /\ h \o m \in Seq(Message) /\ Len(h \o m) = Len(h) + Len(m)
      /\ \A i \in 1 .. Len(h) : (h \o m)[i] = h[i]
      /\ \A i \in 1 .. Len(m) : (h \o m)[Len(h) + i] = m[i]
  BY ConcatProperties
<1>2. Prefix(h, h \o m)
  BY <1>0, <1>1 DEF Prefix
<1>3. ASSUME NEW b \in Seq(Message), Prefix(b, h)
      PROVE  Prefix(b, h \o m)
  BY <1>0, <1>1, <1>3 DEF Prefix
<1>4. ASSUME NEW ctx, LastTold(h, ctx), \A i \in 1 .. Len(m) : m[i].role # "system"
      PROVE  LastTold(h \o m, ctx)
  <2>1. ASSUME NEW j \in 1 .. Len(h \o m), j > Len(h)
        PROVE  (h \o m)[j].role # "system"
    <3>1. j - Len(h) \in 1 .. Len(m) /\ (h \o m)[Len(h) + (j - Len(h))] = m[j - Len(h)]
      BY <1>0, <1>1, <2>1
    <3>2. Len(h) + (j - Len(h)) = j
      BY <1>0, <2>1
    <3>3. QED
      BY <1>4, <3>1, <3>2
  <2>2. CASE ctx = None /\ \A i \in 1 .. Len(h) : h[i].role # "system"
    <3>1. \A j \in 1 .. Len(h \o m) : (h \o m)[j].role # "system"
      BY <1>0, <1>1, <2>1, <2>2
    <3>2. QED
      BY <2>2, <3>1 DEF LastTold
  <2>3. CASE \E i \in 1 .. Len(h) :
               /\ h[i].role = "system" /\ h[i].context = ctx
               /\ \A j \in 1 .. Len(h) : j > i => h[j].role # "system"
    <3>1. PICK i \in 1 .. Len(h) :
               /\ h[i].role = "system" /\ h[i].context = ctx
               /\ \A j \in 1 .. Len(h) : j > i => h[j].role # "system"
      BY <2>3
    <3>2. i \in 1 .. Len(h \o m) /\ (h \o m)[i] = h[i]
      BY <1>0, <1>1
    <3>3. \A j \in 1 .. Len(h \o m) : j > i => (h \o m)[j].role # "system"
      BY <1>0, <1>1, <2>1, <3>1
    <3>4. QED
      BY <3>1, <3>2, <3>3 DEF LastTold
  <2>4. QED
    BY <1>4, <2>2, <2>3 DEF LastTold
<1>5. QED
  BY <1>1, <1>2, <1>3, <1>4

(* The same of one message more.                                           *)
LEMMA OneMore ==
  ASSUME NEW h \in Seq(Message), NEW m \in Message
  PROVE  /\ Append(h, m) \in Seq(Message) /\ Len(Append(h, m)) = Len(h) + 1
         /\ \A i \in 1 .. Len(h) : Append(h, m)[i] = h[i]
         /\ Append(h, m)[Len(h) + 1] = m
         /\ Prefix(h, Append(h, m))
         /\ \A b \in Seq(Message) : Prefix(b, h) => Prefix(b, Append(h, m))
         /\ \A ctx : LastTold(h, ctx) /\ m.role # "system" => LastTold(Append(h, m), ctx)
         /\ m.role = "system" => LastTold(Append(h, m), m.context)
<1>0. Len(h) \in Nat
  OBVIOUS
<1>1. Append(h, m) = h \o <<m>> /\ <<m>> \in Seq(Message) /\ Len(<<m>>) = 1 /\ <<m>>[1] = m
  BY AppendIsConcat
<1>2. /\ Append(h, m) \in Seq(Message) /\ Len(Append(h, m)) = Len(h) + 1
      /\ \A i \in 1 .. Len(h) : Append(h, m)[i] = h[i]
      /\ Append(h, m)[Len(h) + 1] = m
  BY AppendProperties
<1>3. /\ Prefix(h, Append(h, m))
      /\ \A b \in Seq(Message) : Prefix(b, h) => Prefix(b, Append(h, m))
      /\ \A ctx : LastTold(h, ctx) /\ m.role # "system" => LastTold(Append(h, m), ctx)
  <2>1. m.role # "system" => \A i \in 1 .. Len(<<m>>) : <<m>>[i].role # "system"
    BY <1>1
  <2>2. /\ Prefix(h, h \o <<m>>)
        /\ \A b \in Seq(Message) : Prefix(b, h) => Prefix(b, h \o <<m>>)
        /\ \A ctx : LastTold(h, ctx) /\ (\A i \in 1 .. Len(<<m>>) : <<m>>[i].role # "system") =>
                       LastTold(h \o <<m>>, ctx)
    <3>1. <<m>> \in Seq(Message)
      BY <1>1
    <3>2. QED
      BY <3>1, Grown
  <2>3. QED
    BY <1>1, <2>1, <2>2
<1>4. m.role = "system" => LastTold(Append(h, m), m.context)
  <2>1. Len(h) + 1 \in 1 .. Len(Append(h, m))
    BY <1>0, <1>2
  <2>2. \A j \in 1 .. Len(Append(h, m)) : ~(j > Len(h) + 1)
    BY <1>0, <1>2
  <2>3. QED
    BY <1>2, <2>1, <2>2 DEF LastTold
<1>5. QED
  BY <1>2, <1>3, <1>4

LEMMA LastToldIs ==
  ASSUME NEW h \in Seq(Message), NEW ctx, LastTold(h, ctx)
  PROVE  ctx = ToldLast(h)
<1> DEFINE told == {i \in 1 .. Len(h) : h[i].role = "system"}
<1>1. CASE ctx = None /\ \A i \in 1 .. Len(h) : h[i].role # "system"
  <2>1. told = {}
    BY <1>1
  <2>2. QED
    BY <1>1, <2>1 DEF ToldLast
<1>2. CASE \E i \in 1 .. Len(h) :
             /\ h[i].role = "system" /\ h[i].context = ctx
             /\ \A j \in 1 .. Len(h) : j > i => h[j].role # "system"
  <2>1. PICK i \in told : h[i].context = ctx /\ \A j \in told : ~(j > i)
    BY <1>2
  <2>2. Max(told) = i
    <3>1. told \subseteq Int
      OBVIOUS
    <3>2. i \in told /\ \A j \in told : i >= j
      BY <2>1, <3>1
    <3>3. Max(told) \in told /\ \A j \in told : Max(told) >= j
      BY <3>2 DEF Max
    <3>4. QED
      BY <3>1, <3>2, <3>3
  <2>3. told # {}
    BY <2>1
  <2>4. QED
    BY <2>1, <2>2, <2>3 DEF ToldLast
<1>3. QED
  BY <1>1, <1>2 DEF LastTold
-----------------------------------------------------------------------------
(* What every step does to the history: that of HistoryIsKept.             *)
Kept ==
  /\ turn # Resting => Prefix(turn.before, history')
  /\ turn = Resting => Prefix(history, history')

LEMMA NoneBefore == \A h \in Seq(Message) : Prefix(h, h)
BY DEF Prefix

LEMMA RolledBack ==
  ASSUME HistoryOK, turn # Resting, Rollback, turn' = Resting
  PROVE  /\ HistoryOK' /\ Kept /\ history' = turn.before
         /\ loose' = {i \in loose : i <= Len(turn.before)}
<1>1. turn.before \in Seq(Message) /\ turn.sentBefore \in Contexts \cup {None} /\ Resting \in Turns
      /\ Prefix(turn.before, history) /\ LastTold(turn.before, turn.sentBefore)
      /\ history \in Seq(Message) /\ loose \subseteq 1 .. Len(history)
  BY TurnIs DEF HistoryOK, Turns
<1>2. /\ history' = turn.before /\ sentContext' = turn.sentBefore
      /\ loose' = {i \in loose : i <= Len(turn.before)}
  BY <1>1, PrefixIs DEF Rollback, Undone
<1>3. HistoryOK'
  <2>1. loose' \subseteq 1 .. Len(turn.before)
    <3>1. Len(turn.before) \in Nat /\ Len(history) \in Nat
      BY <1>1
    <3>2. \A i \in loose : i \in 1 .. Len(history)
      BY <1>1
    <3>3. \A i \in loose' : i \in loose /\ i <= Len(turn.before)
      BY <1>2
    <3>4. QED
      BY <3>1, <3>2, <3>3
  <2>2. turn'.at # "tools"
    BY DEF Resting
  <2>3. QED
    BY <1>1, <1>2, <2>1, <2>2 DEF HistoryOK, LastTold
<1>4. Kept
  BY <1>1, <1>2, NoneBefore DEF Kept
<1>5. QED
  BY <1>2, <1>3, <1>4

(* Messages are added and the turn goes on as t.                           *)
LEMMA GoesOnAs ==
  ASSUME HistoryOK, turn # Resting, NEW m \in Seq(Message), \A i \in 1 .. Len(m) : m[i].role # "system",
         history' = history \o m, UNCHANGED sentContext,
         loose' \subseteq 1 .. Len(history) + Len(m), turn'.at = "tools" => m # <<>>,
         turn' \in Turns, turn' # Resting => turn'.before = turn.before /\ turn'.sentBefore = turn.sentBefore
  PROVE  HistoryOK' /\ Kept
<1>1. turn.before \in Seq(Message) /\ history \in Seq(Message)
      /\ Prefix(turn.before, history) /\ LastTold(turn.before, turn.sentBefore)
      /\ LastTold(history, sentContext)
  BY TurnIs DEF HistoryOK
<1>2. /\ history' \in Seq(Message) /\ Prefix(turn.before, history') /\ LastTold(history', sentContext)
      /\ loose' \subseteq 1 .. Len(history') /\ (turn'.at = "tools" => history' # <<>>)
  BY <1>1, Grown
<1>3. HistoryOK'
  <2>1. LastTold(history, sentContext)'
    BY <1>2 DEF LastTold
  <2>2. ASSUME turn' # Resting
        PROVE  Prefix(turn.before, history)' /\ LastTold(turn.before, turn.sentBefore)'
    <3>1. turn'.before = turn.before /\ turn'.sentBefore = turn.sentBefore
      BY <2>2
    <3>2. Prefix(turn.before, history)'
      BY <1>2, <3>1 DEF Prefix
    <3>3. LastTold(turn.before, turn.sentBefore)'
      BY <1>1, <3>1 DEF LastTold
    <3>4. QED
      BY <3>2, <3>3
  <2>3. QED
    BY <1>2, <2>1, <2>2 DEF HistoryOK
<1>4. QED
  BY <1>2, <1>3 DEF Kept

LEMMA ContinueSteps ==
  ASSUME HistoryOK, turn.at \in {"model", "tools"}, NEW m \in Seq(Message),
         \A i \in 1 .. Len(m) : m[i].role # "system",
         NEW untied \in SUBSET (1 .. Len(history) + Len(m)), Continue(m, untied)
  PROVE  /\ HistoryOK' /\ Kept
         /\ \/ /\ turn' = Resting /\ history' = turn.before
               /\ loose' = {i \in loose : i <= Len(turn.before)}
            \/ /\ turn' # Resting /\ turn'.at = "model" /\ turn'.before = turn.before
               /\ history' = history \o m /\ loose' = untied
<1>1. turn # Resting /\ turn \in Turns /\ turn.step \in 1 .. MaxSteps /\ MaxSteps \in Nat
  BY TurnIs, InterpreterConstants DEF HistoryOK, InterpreterConstants
<1>2. CASE turn.step < MaxSteps
  <2> DEFINE uses == <<>>
             t == Turning("model", turn.step + 1, uses)
  <2>1. history' = history \o m /\ turn' = t /\ UNCHANGED sentContext /\ loose' = untied
    BY <1>2 DEF Continue
  <2>2. turn.step + 1 \in 1 .. MaxSteps /\ uses \in Seq(Nat)
    BY <1>1, <1>2
  <2> HIDE DEF uses
  <2>3. /\ t \in Turns /\ t # Resting /\ t.before = turn.before /\ t.sentBefore = turn.sentBefore
        /\ t.at = "model"
    BY <1>1, <2>2, TurningIs
  <2> HIDE DEF t
  <2>4. QED
    BY <1>1, <2>1, <2>3, GoesOnAs
<1>3. CASE ~(turn.step < MaxSteps)
  BY <1>1, <1>3, RolledBack DEF Continue, GiveUp
<1>4. QED
  BY <1>2, <1>3

LEMMA HearStep ==
  ASSUME TurnInv, Hear
  PROVE  TurnInv' /\ Kept
<1>1. /\ history \in Seq(Message) /\ sentContext \in Contexts \cup {None}
      /\ LastTold(history, sentContext) /\ turn = Resting
      /\ history' = Append(history, UserSays) /\ UNCHANGED <<sentContext, rpcId, results, loose>>
      /\ loose \subseteq 1 .. Len(history)
      /\ turn' = [at |-> "context", before |-> history, sentBefore |-> sentContext]
  BY DEF TurnInv, HistoryOK, Hear
<1>2. /\ history' \in Seq(Message) /\ Prefix(history, history') /\ LastTold(history', sentContext)
      /\ loose' \subseteq 1 .. Len(history')
  BY <1>1, Messages, OneMore
<1>3. turn' \in Turns /\ turn'.at = "context" /\ turn'.before = history /\ turn'.sentBefore = sentContext
  BY <1>1 DEF Turns
<1>4. HistoryOK'
  <2>1. LastTold(history, sentContext)' /\ LastTold(turn.before, turn.sentBefore)'
        /\ Prefix(turn.before, history)'
    BY <1>1, <1>2, <1>3 DEF LastTold, Prefix
  <2>2. QED
    BY <1>1, <1>2, <1>3, <2>1 DEF HistoryOK
<1>5. ResultsOK'
  BY <1>1, <1>3 DEF TurnInv, ResultsOK
<1>6. QED
  BY <1>1, <1>2, <1>4, <1>5 DEF TurnInv, Kept

LEMMA ContextStep ==
  ASSUME TurnInv, NEW ctx \in Contexts, ContextCame(ctx)
  PROVE  TurnInv' /\ Kept
<1> DEFINE uses == <<>>
           t == Turning("model", 1, uses)
<1>1. /\ turn \in Turns /\ turn # Resting /\ turn.before \in Seq(Message)
      /\ history \in Seq(Message) /\ LastTold(history, sentContext)
      /\ Prefix(turn.before, history) /\ LastTold(turn.before, turn.sentBefore)
      /\ Told(ctx) /\ turn' = t /\ UNCHANGED <<rpcId, results, loose>>
      /\ loose \subseteq 1 .. Len(history)
  BY TurnIs DEF TurnInv, HistoryOK, ContextCame
<1>2. 1 \in 1 .. MaxSteps /\ uses \in Seq(Nat)
  BY InterpreterConstants DEF InterpreterConstants
<1> HIDE DEF uses
<1>3. /\ t \in Turns /\ t # Resting /\ t.before = turn.before /\ t.sentBefore = turn.sentBefore
      /\ t.at = "model"
  BY <1>1, <1>2, TurningIs
<1> HIDE DEF t
<1>4. sentContext' = ctx /\ history' \in Seq(Message) /\ LastTold(history', ctx)
      /\ Prefix(turn.before, history') /\ loose' \subseteq 1 .. Len(history')
  <2>1. CASE ctx = sentContext
    BY <1>1, <2>1 DEF Told
  <2>2. CASE ctx # sentContext
    <3>1. history' = Append(history, SystemSays(ctx)) /\ sentContext' = ctx
      BY <1>1, <2>2 DEF Told
    <3>2. SystemSays(ctx) \in Message /\ SystemSays(ctx).role = "system" /\ SystemSays(ctx).context = ctx
      BY Messages
    <3>3. /\ Append(history, SystemSays(ctx)) \in Seq(Message)
          /\ LastTold(Append(history, SystemSays(ctx)), SystemSays(ctx).context)
          /\ Prefix(turn.before, Append(history, SystemSays(ctx)))
          /\ Len(Append(history, SystemSays(ctx))) = Len(history) + 1 /\ Len(history) \in Nat
      BY <1>1, <3>2, OneMore
    <3>4. QED
      BY <1>1, <3>1, <3>2, <3>3
  <2>3. QED
    BY <2>1, <2>2
<1>5. HistoryOK'
  <2>1. LastTold(history, sentContext)'
    BY <1>4 DEF LastTold
  <2>2. turn'.before = turn.before /\ turn'.sentBefore = turn.sentBefore
    BY <1>1, <1>3
  <2>3. LastTold(turn.before, turn.sentBefore)'
    BY <1>1, <2>2 DEF LastTold
  <2>4. Prefix(turn.before, history)'
    BY <1>4, <2>2 DEF Prefix
  <2>5. QED
    BY <1>1, <1>3, <1>4, <2>1, <2>3, <2>4 DEF HistoryOK
<1>6. ResultsOK'
  BY <1>1, <1>3 DEF TurnInv, ResultsOK
<1>7. QED
  BY <1>1, <1>4, <1>5, <1>6 DEF TurnInv, Kept

LEMMA Unnamed ==
  ASSUME NEW uses \in Unmade, HistoryOK
  PROVE  /\ uses \in Seq(Nat) /\ Assistant(uses) \in Message /\ Assistant(uses).role = "assistant"
         /\ Loosened(uses) \subseteq 1 .. Len(history) + 1
<1>1. uses \in Seq(Nat)
  BY InterpreterConstants DEF Unmade, InterpreterConstants
<1>2. Len(history) \in Nat /\ loose \subseteq 1 .. Len(history)
  BY DEF HistoryOK
<1>3. QED
  BY <1>1, <1>2, Messages DEF Loosened

LEMMA EndSteps ==
  ASSUME TurnInv, NEW uses \in Unmade, NoReply \/ Answer(uses) \/ BadTemplate(uses) \/ ToolBreaks
  PROVE  TurnInv' /\ Kept
<1>1. /\ turn \in Turns /\ turn # Resting /\ turn.at \in {"context", "model", "tools"}
      /\ Resting \in Turns /\ history \in Seq(Message) /\ Len(history) \in Nat
      /\ UNCHANGED <<rpcId, results>> /\ Resting.at = "rest" /\ loose \subseteq 1 .. Len(history)
  BY TurnIs DEF TurnInv, HistoryOK, NoReply, Answer, BadTemplate, ToolBreaks, Turns, Resting
<1>2. Assistant(uses) \in Message /\ Assistant(uses).role = "assistant"
      /\ Loosened(uses) \subseteq 1 .. Len(history) + 1
  BY Unnamed DEF TurnInv
<1>3. HistoryOK' /\ Kept /\ turn'.at # "tools"
  <2>1. CASE NoReply
    BY <1>1, <2>1, RolledBack DEF NoReply, TurnInv
  <2>2. CASE Answer(uses)
    <3>1. /\ history' = history \o <<Assistant(uses)>> /\ turn' = Resting /\ UNCHANGED sentContext
          /\ loose' = Loosened(uses)
      BY <1>1, <1>2, <2>2, AppendIsConcat DEF Answer
    <3>2. /\ <<Assistant(uses)>> \in Seq(Message) /\ Len(<<Assistant(uses)>>) = 1
          /\ \A i \in 1 .. Len(<<Assistant(uses)>>) : <<Assistant(uses)>>[i].role # "system"
      BY <1>2
    <3>3. loose' \subseteq 1 .. Len(history) + Len(<<Assistant(uses)>>)
      BY <1>2, <3>1, <3>2
    <3>4. QED
      BY <1>1, <3>1, <3>2, <3>3, GoesOnAs DEF TurnInv
  <2>3. CASE BadTemplate(uses)
    <3> DEFINE m == <<Assistant(uses), FixThat>>
    <3>1. FixThat \in Message /\ FixThat.role = "user"
      BY Messages
    <3>2. m \in Seq(Message) /\ Len(m) = 2 /\ \A i \in 1 .. Len(m) : m[i].role # "system"
      BY <1>2, <3>1
    <3>3. Continue(m, Loosened(uses)) /\ turn.at = "model"
      BY <2>3 DEF BadTemplate
    <3> HIDE DEF m
    <3>4. Loosened(uses) \in SUBSET (1 .. Len(history) + Len(m))
      BY <1>1, <1>2, <3>2
    <3>5. QED
      BY <1>1, <3>2, <3>3, <3>4, ContinueSteps DEF TurnInv
  <2>4. CASE ToolBreaks
    <3>1. turn' = Resting /\ UNCHANGED <<history, sentContext>> /\ loose' = loose \cup {Len(history)}
      BY <2>4 DEF ToolBreaks
    <3>2. Len(history) >= 1
      BY <2>4 DEF ToolBreaks, TurnInv, HistoryOK
    <3>3. loose' \subseteq 1 .. Len(history')
      <4>1. history' = history /\ Len(history) \in 1 .. Len(history)
        BY <1>1, <3>1, <3>2
      <4>2. QED
        BY <1>1, <3>1, <4>1
    <3>4. QED
      BY <1>1, <3>1, <3>3 DEF TurnInv, HistoryOK, LastTold, Prefix, Kept
  <2>5. QED
    BY <2>1, <2>2, <2>3, <2>4
<1>4. ResultsOK'
  BY <1>1, <1>3 DEF TurnInv, ResultsOK
<1>5. QED
  BY <1>3, <1>4 DEF TurnInv

LEMMA CallStep ==
  ASSUME TurnInv, NEW k \in 1 .. MaxUses, CallTools(k)
  PROVE  TurnInv' /\ Kept
<1> DEFINE uses == [i \in 1 .. k |-> rpcId + i]
           t == Turning("tools", turn.step, uses)
<1>1. /\ turn \in Turns /\ turn # Resting /\ turn.step \in 1 .. MaxSteps
      /\ history \in Seq(Message) /\ rpcId \in Nat /\ k \in Nat
      /\ history' = Append(history, Assistant(uses)) /\ turn' = t
      /\ rpcId' = rpcId + k /\ UNCHANGED <<sentContext, results, loose>>
      /\ loose \subseteq 1 .. Len(history) /\ Len(history) \in Nat
  BY TurnIs, InterpreterConstants DEF TurnInv, HistoryOK, ResultsOK, CallTools, InterpreterConstants
<1>2. /\ uses \in Seq(Nat) /\ Len(uses) = k
      /\ ToSet(uses) \subseteq 1 .. rpcId + k /\ \A r \in ToSet(uses) : r > rpcId
  BY <1>1 DEF ToSet
<1> HIDE DEF uses
<1>3. /\ t \in Turns /\ t # Resting /\ t.before = turn.before /\ t.sentBefore = turn.sentBefore
      /\ t.at = "tools" /\ t.uses = uses
  BY <1>1, <1>2, TurningIs
<1> HIDE DEF t
<1>4. Assistant(uses) \in Message /\ Assistant(uses).role = "assistant"
  BY <1>2, Messages
<1>5. HistoryOK' /\ Kept
  <2>1. history' = history \o <<Assistant(uses)>>
    BY <1>1, <1>4, AppendIsConcat
  <2>2. /\ <<Assistant(uses)>> \in Seq(Message)
        /\ \A i \in 1 .. Len(<<Assistant(uses)>>) : <<Assistant(uses)>>[i].role # "system"
        /\ Len(<<Assistant(uses)>>) = 1 /\ <<Assistant(uses)>> # <<>>
    BY <1>4
  <2>3. loose' \subseteq 1 .. Len(history) + Len(<<Assistant(uses)>>)
    BY <1>1, <2>2
  <2>4. QED
    BY <1>1, <1>3, <2>1, <2>2, <2>3, GoesOnAs DEF TurnInv
<1>6. ResultsOK'
  <2>1. \A i \in 1 .. Len(results) : results[i] \in 1 .. rpcId
    BY DEF TurnInv, ResultsOK
  <2>2. \A i \in 1 .. Len(results) : results[i] \notin ToSet(uses) /\ results[i] \in 1 .. rpcId + k
    BY <1>1, <1>2, <2>1
  <2>3. QED
    BY <1>1, <1>2, <1>3, <2>2 DEF TurnInv, ResultsOK
<1>7. QED
  BY <1>5, <1>6 DEF TurnInv

(* _store: at most MaxStored, the youngest.                                *)
LEMMA Stores ==
  ASSUME ResultsOK, NEW r \in 1 .. rpcId, \A i \in 1 .. Len(results) : results[i] # r
  PROVE  /\ Stored(r) \in Seq(Nat) /\ Len(Stored(r)) <= MaxStored
         /\ \A i \in 1 .. Len(Stored(r)) :
              Stored(r)[i] = r \/ \E j \in 1 .. Len(results) : Stored(r)[i] = results[j]
         /\ \A i, j \in 1 .. Len(Stored(r)) : Stored(r)[i] = Stored(r)[j] => i = j
<1> DEFINE all == Append(results, r)
           k == IF Len(all) > MaxStored THEN MaxStored ELSE Len(all)
           n == Len(all) - k
<1>1. /\ results \in Seq(Nat) /\ rpcId \in Nat /\ r \in Nat /\ Len(results) \in Nat
      /\ \A i, j \in 1 .. Len(results) : results[i] = results[j] => i = j
      /\ MaxStored \in Nat \ {0}
  BY InterpreterConstants DEF ResultsOK, InterpreterConstants
<1>2. /\ all \in Seq(Nat) /\ Len(all) = Len(results) + 1
      /\ \A i \in 1 .. Len(results) : all[i] = results[i]
      /\ all[Len(results) + 1] = r
  BY <1>1, AppendProperties
<1>3. \A i, j \in 1 .. Len(all) : all[i] = all[j] => i = j
  <2> SUFFICES ASSUME NEW i \in 1 .. Len(all), NEW j \in 1 .. Len(all), all[i] = all[j]
               PROVE  i = j
    OBVIOUS
  <2>1. (i \in 1 .. Len(results) \/ i = Len(results) + 1) /\ (j \in 1 .. Len(results) \/ j = Len(results) + 1)
    BY <1>1, <1>2
  <2>2. QED
    BY <1>1, <1>2, <2>1
<1>4. k \in 1 .. MaxStored /\ n \in Nat /\ n + k = Len(all) /\ Stored(r) = SubSeq(all, n + 1, Len(all))
  <2>1. k \in 1 .. MaxStored /\ k <= Len(all)
    BY <1>1, <1>2
  <2>2. Stored(r) = SubSeq(all, n + 1, Len(all))
    BY DEF Stored
  <2>3. QED
    BY <1>1, <1>2, <2>1, <2>2
<1> HIDE DEF all, k, n
<1>5. /\ SubSeq(all, n + 1, Len(all)) \in Seq(Nat) /\ Len(SubSeq(all, n + 1, Len(all))) = k
      /\ \A i \in 1 .. k : SubSeq(all, n + 1, Len(all))[i] = all[n + i] /\ n + i \in 1 .. Len(all)
  <2>1. /\ n + 1 \in Int /\ Len(all) \in Int /\ n + 1 <= Len(all) + 1
        /\ \A i \in (n + 1) .. Len(all) : i \in 1 .. Len(all)
    BY <1>1, <1>2, <1>4
  <2>2. /\ SubSeq(all, n + 1, Len(all)) \in Seq(Nat)
        /\ Len(SubSeq(all, n + 1, Len(all))) = IF n + 1 <= Len(all) THEN Len(all) - (n + 1) + 1 ELSE 0
        /\ \A i \in 1 .. Len(all) - (n + 1) + 1 : SubSeq(all, n + 1, Len(all))[i] = all[n + 1 + i - 1]
    BY <1>2, <2>1, SubSeqProperties, SMTT(30)
  <2>3. Len(all) - (n + 1) + 1 = k /\ n + 1 <= Len(all)
    BY <1>1, <1>2, <1>4
  <2>4. \A i \in 1 .. k : n + 1 + i - 1 = n + i /\ n + i \in 1 .. Len(all)
    BY <1>1, <1>2, <1>4
  <2>5. QED
    BY <2>2, <2>3, <2>4
<1>6. \A i \in 1 .. k : all[n + i] = r \/ \E j \in 1 .. Len(results) : all[n + i] = results[j]
  <2>1. \A i \in 1 .. Len(all) : i \in 1 .. Len(results) \/ i = Len(results) + 1
    BY <1>1, <1>2
  <2>2. QED
    BY <1>2, <1>5, <2>1
<1>7. \A i, j \in 1 .. k : all[n + i] = all[n + j] => i = j
  <2>1. \A i, j \in 1 .. k : n + i = n + j => i = j
    BY <1>4
  <2>2. QED
    BY <1>3, <1>5, <2>1
<1>8. Len(Stored(r)) = k /\ Stored(r) \in Seq(Nat) /\ \A i \in 1 .. k : Stored(r)[i] = all[n + i]
  BY <1>4, <1>5
<1>9. k <= MaxStored
  BY <1>1, <1>4
<1>10. \A i \in 1 .. Len(Stored(r)) :
        Stored(r)[i] = r \/ \E j \in 1 .. Len(results) : Stored(r)[i] = results[j]
  BY <1>6, <1>8
<1>11. \A i, j \in 1 .. Len(Stored(r)) : Stored(r)[i] = Stored(r)[j] => i = j
  BY <1>7, <1>8
<1>12. QED
  BY <1>8, <1>9, <1>10, <1>11

LEMMA ToolStep ==
  ASSUME TurnInv, turn.at = "tools", NEW r \in ToSet(turn.uses), ToolEnds(r)
  PROVE  TurnInv' /\ Kept
<1>1. /\ turn \in Turns /\ turn # Resting /\ turn.uses \in Seq(Nat) /\ turn.done \in SUBSET Nat
      /\ history \in Seq(Message) /\ rpcId \in Nat /\ rpcId' = rpcId
      /\ ToSet(turn.uses) \subseteq 1 .. rpcId /\ r \notin turn.done
      /\ results' \in {results, Stored(r)}
  BY TurnIs DEF TurnInv, HistoryOK, ResultsOK, ToolEnds
<1>2. \A i \in 1 .. Len(results) : results[i] # r
  BY <1>1 DEF TurnInv, ResultsOK
<1>3. /\ results' \in Seq(Nat) /\ Len(results') <= MaxStored
      /\ \A i \in 1 .. Len(results') :
           results'[i] = r \/ \E j \in 1 .. Len(results) : results'[i] = results[j]
      /\ \A i, j \in 1 .. Len(results') : results'[i] = results'[j] => i = j
  <2>1. CASE results' = results
    BY <2>1 DEF TurnInv, ResultsOK
  <2>2. CASE results' = Stored(r)
    BY <1>1, <1>2, <2>2, Stores DEF TurnInv
  <2>3. QED
    BY <1>1, <2>1, <2>2
<1>4. \A i \in 1 .. Len(results') : results'[i] \in 1 .. rpcId
  BY <1>1, <1>3 DEF TurnInv, ResultsOK
<1>5. CASE turn.done \cup {r} = ToSet(turn.uses)
  <2> DEFINE m == <<Outcomes(turn.uses)>>
  <2>1. Outcomes(turn.uses) \in Message /\ Outcomes(turn.uses).role = "user"
    BY <1>1, Messages
  <2>2. m \in Seq(Message) /\ \A i \in 1 .. Len(m) : m[i].role # "system"
    BY <2>1
  <2>3. Continue(m, loose)
    BY <1>5 DEF ToolEnds
  <2> HIDE DEF m
  <2>4. HistoryOK' /\ Kept /\ turn'.at # "tools"
    <3>1. loose \in SUBSET (1 .. Len(history) + Len(m))
      BY <1>1, <2>2 DEF TurnInv, HistoryOK
    <3>2. QED
      BY <2>2, <2>3, <3>1, ContinueSteps DEF TurnInv, Resting
  <2>5. ResultsOK'
    BY <1>1, <1>3, <1>4, <2>4 DEF ResultsOK
  <2>6. QED
    BY <2>4, <2>5 DEF TurnInv
<1>6. CASE turn.done \cup {r} # ToSet(turn.uses)
  <2>1. turn' = [turn EXCEPT !.done = @ \cup {r}] /\ UNCHANGED <<history, sentContext, loose>>
    BY <1>6 DEF ToolEnds
  <2>2. /\ turn' \in Turns /\ turn'.at = "tools" /\ turn'.uses = turn.uses
        /\ turn'.done = turn.done \cup {r}
        /\ turn'.before = turn.before /\ turn'.sentBefore = turn.sentBefore
    <3>1. turn \in [at : {"model", "tools"}, step : 1 .. MaxSteps, uses : Seq(Nat), done : SUBSET Nat,
                    before : Seq(Message), sentBefore : Contexts \cup {None}]
      BY <1>1 DEF Turns, Resting
    <3>2. turn.done \cup {r} \in SUBSET Nat
      BY <1>1
    <3>3. QED
      BY <2>1, <3>1, <3>2 DEF Turns
  <2>3. HistoryOK' /\ Kept
    BY <1>1, <2>1, <2>2 DEF TurnInv, HistoryOK, LastTold, Prefix, Kept
  <2>4. ResultsOK'
    <3>1. \A i \in 1 .. Len(results') : results'[i] \in ToSet(turn.uses) => results'[i] \in turn.done \cup {r}
      BY <1>3 DEF TurnInv, ResultsOK
    <3>2. QED
      BY <1>1, <1>3, <1>4, <2>2, <3>1 DEF ResultsOK
  <2>5. QED
    BY <2>3, <2>4 DEF TurnInv
<1>7. QED
  BY <1>5, <1>6


LEMMA TurnStarts == InterpreterInit => TurnInv
<1> SUFFICES ASSUME InterpreterInit
             PROVE  TurnInv
  OBVIOUS
<1>1. history = <<>> /\ <<>> \in Seq(Message) /\ Len(<<>>) = 0 /\ <<>> \in Seq(Nat) /\ results = <<>>
      /\ turn = Resting /\ Resting \in Turns /\ Resting.at = "rest" /\ sentContext = None /\ rpcId = 0
      /\ loose = {}
  BY DEF InterpreterInit, Turns, Resting
<1>2. HistoryOK
  BY <1>1 DEF HistoryOK, LastTold
<1>3. ResultsOK
  BY <1>1, InterpreterConstants DEF ResultsOK, InterpreterConstants
<1>4. QED
  BY <1>2, <1>3 DEF TurnInv

LEMMA TurnSteps == TurnInv /\ [Hear \/ TurnGoesOn \/ ToolBreaks]_interpreter => TurnInv' /\ Kept
<1> SUFFICES ASSUME TurnInv, [Hear \/ TurnGoesOn \/ ToolBreaks]_interpreter
             PROVE  TurnInv' /\ Kept
  OBVIOUS
<1>1. CASE Hear
  BY <1>1, HearStep
<1>2. CASE \E ctx \in Contexts : ContextCame(ctx)
  BY <1>2, ContextStep
<1>3. ASSUME NEW uses \in Unmade, Answer(uses) \/ BadTemplate(uses)
      PROVE  TurnInv' /\ Kept
  BY <1>3, EndSteps
<1>8. CASE NoReply \/ ToolBreaks
  <2>1. [i \in 1 .. 0 |-> 0] \in Unmade
    BY InterpreterConstants DEF Unmade, InterpreterConstants
  <2>2. QED
    BY <1>8, <2>1, EndSteps
<1>4. CASE \E k \in 1 .. MaxUses : CallTools(k)
  BY <1>4, CallStep
<1>5. CASE turn.at = "tools" /\ \E r \in ToSet(turn.uses) : ToolEnds(r)
  BY <1>5, ToolStep
<1>6. CASE UNCHANGED interpreter
  <2>1. UNCHANGED <<history, sentContext, rpcId, results, turn, loose>>
    BY <1>6 DEF interpreter
  <2>2. history \in Seq(Message) /\ turn \in Turns
    BY DEF TurnInv, HistoryOK
  <2>3. TurnInv'
    BY <2>1 DEF TurnInv, HistoryOK, ResultsOK, LastTold, Prefix
  <2>4. Kept
    BY <2>1, <2>2, NoneBefore DEF TurnInv, HistoryOK, Kept
  <2>5. QED
    BY <2>3, <2>4
<1>7. QED
  BY <1>1, <1>2, <1>3, <1>4, <1>5, <1>6, <1>8 DEF TurnGoesOn
-----------------------------------------------------------------------------
(* Every call among the first n messages, but those at untied, is answered. *)
Answers(h, n, untied) ==
  \A i \in (1 .. n) \ untied :
    h[i].role = "assistant" /\ h[i].uses # <<>> => i < Len(h) /\ h[i + 1] = Outcomes(h[i].uses)

(* Only the calls under way are not answered.                              *)
TurnSound ==
  /\ turn = Resting => WellFormed(history, loose)
  /\ turn # Resting => WellFormed(turn.before, loose) /\ history # <<>> /\ history[1] = UserSays
  /\ turn.at \in {"context", "model"} => Answers(history, Len(history), loose)
  /\ turn.at = "tools" =>
       Answers(history, Len(history) - 1, loose) /\ history[Len(history)] = Assistant(turn.uses)

LEMMA Looser ==
  ASSUME NEW h, NEW untied, NEW more, untied \subseteq more
  PROVE  /\ WellFormed(h, untied) => WellFormed(h, more)
         /\ \A n \in Int : Answers(h, n, untied) => Answers(h, n, more)
BY DEF WellFormed, Answers

LEMMA AnswersGrow ==
  ASSUME NEW h \in Seq(Message), NEW m \in Message, NEW untied
  PROVE  /\ Answers(h, Len(h), untied) => Answers(Append(h, m), Len(h), untied)
         /\ Answers(h, Len(h), untied) /\ ~(m.role = "assistant" /\ m.uses # <<>>) =>
              Answers(Append(h, m), Len(h) + 1, untied)
         /\ \A uses \in Seq(Nat) :
              h # <<>> /\ Answers(h, Len(h) - 1, untied) /\ h[Len(h)] = Assistant(uses) /\ m = Outcomes(uses) =>
                Answers(Append(h, m), Len(h) + 1, untied)
         /\ h # <<>> => Append(h, m)[1] = h[1] /\ Append(h, m) # <<>>
<1> DEFINE g == Append(h, m)
<1>1. /\ Len(h) \in Nat /\ Len(g) = Len(h) + 1 /\ g[Len(h) + 1] = m
      /\ \A i \in 1 .. Len(h) : g[i] = h[i]
  BY OneMore
<1> HIDE DEF g
<1>2. ASSUME Answers(h, Len(h), untied)
      PROVE  Answers(g, Len(h), untied)
  <2> SUFFICES ASSUME NEW i \in (1 .. Len(h)) \ untied, g[i].role = "assistant" /\ g[i].uses # <<>>
               PROVE  i < Len(g) /\ g[i + 1] = Outcomes(g[i].uses)
    BY DEF Answers
  <2>1. g[i] = h[i]
    BY <1>1
  <2>2. i < Len(h) /\ h[i + 1] = Outcomes(h[i].uses)
    BY <1>2, <2>1 DEF Answers
  <2>3. i + 1 \in 1 .. Len(h)
    BY <1>1, <2>2
  <2>4. QED
    BY <1>1, <2>1, <2>2, <2>3
<1>3. ASSUME Answers(g, Len(h), untied), ~(m.role = "assistant" /\ m.uses # <<>>)
      PROVE  Answers(g, Len(h) + 1, untied)
  <2>1. \A i \in 1 .. Len(h) + 1 : i \in 1 .. Len(h) \/ i = Len(h) + 1
    BY <1>1
  <2>2. QED
    BY <1>1, <1>3, <2>1 DEF Answers
<1>4. ASSUME NEW uses \in Seq(Nat), h # <<>>, Answers(h, Len(h) - 1, untied),
             h[Len(h)] = Assistant(uses), m = Outcomes(uses)
      PROVE  Answers(g, Len(h) + 1, untied)
  <2> SUFFICES ASSUME NEW i \in (1 .. Len(h) + 1) \ untied, g[i].role = "assistant" /\ g[i].uses # <<>>
               PROVE  i < Len(g) /\ g[i + 1] = Outcomes(g[i].uses)
    BY DEF Answers
  <2>1. i # Len(h) + 1
    BY <1>1, <1>4, Messages
  <2>2. CASE i = Len(h)
    <3>1. g[i] = Assistant(uses) /\ Assistant(uses).uses = uses
      BY <1>1, <1>4, <2>2, Messages
    <3>2. QED
      BY <1>1, <1>4, <2>2, <3>1
  <2>3. CASE i \in 1 .. Len(h) - 1
    <3>1. g[i] = h[i] /\ i + 1 \in 1 .. Len(h)
      BY <1>1, <2>3
    <3>2. i < Len(h) /\ h[i + 1] = Outcomes(h[i].uses)
      BY <1>4, <2>3, <3>1 DEF Answers
    <3>3. QED
      BY <1>1, <3>1, <3>2
  <2>4. QED
    BY <1>1, <2>1, <2>2, <2>3
<1>5. ASSUME h # <<>>
      PROVE  g[1] = h[1] /\ g # <<>>
  BY <1>1, <1>5
<1>6. Answers(h, Len(h), untied) /\ ~(m.role = "assistant" /\ m.uses # <<>>) => Answers(g, Len(h) + 1, untied)
  BY <1>2, <1>3
<1>7. \A uses \in Seq(Nat) :
        h # <<>> /\ Answers(h, Len(h) - 1, untied) /\ h[Len(h)] = Assistant(uses) /\ m = Outcomes(uses) =>
          Answers(g, Len(h) + 1, untied)
  BY <1>4
<1>8. (Answers(h, Len(h), untied) => Answers(g, Len(h), untied)) /\ (h # <<>> => g[1] = h[1] /\ g # <<>>)
  BY <1>2, <1>5
<1>9. QED
  BY <1>6, <1>7, <1>8, Zenon DEF g

LEMMA GrowsBy ==
  ASSUME NEW h \in Seq(Message), NEW m \in Seq(Message)
  PROVE  1 .. Len(h) \subseteq 1 .. Len(h) + Len(m)
OBVIOUS

(* A reply leaves its calls loose, if it has any.                          *)
LEMMA Replied ==
  ASSUME TurnInv, NEW uses \in Unmade, Answers(history, Len(history), loose)
  PROVE  Answers(Append(history, Assistant(uses)), Len(history) + 1, Loosened(uses))
<1> DEFINE g == Append(history, Assistant(uses))
<1>1. /\ history \in Seq(Message) /\ Assistant(uses) \in Message /\ Assistant(uses).uses = uses
      /\ Len(history) \in Nat
  BY Unnamed, Messages DEF TurnInv, HistoryOK
<1>2. CASE uses = <<>>
  BY <1>1, <1>2, AnswersGrow DEF Loosened
<1>3. CASE uses # <<>>
  <2>1. Answers(g, Len(history), loose)
    BY <1>1, AnswersGrow
  <2> HIDE DEF g
  <2>2. (1 .. Len(history) + 1) \ Loosened(uses) \subseteq (1 .. Len(history)) \ loose
    BY <1>1, <1>3 DEF Loosened
  <2>3. Answers(g, Len(history) + 1, Loosened(uses))
    BY <2>1, <2>2 DEF Answers
  <2>4. QED
    BY <2>3 DEF g
<1>4. QED
  BY <1>2, <1>3

LEMMA SoundSteps == TurnInv /\ TurnSound /\ [Hear \/ TurnGoesOn \/ ToolBreaks]_interpreter => TurnSound'
<1> SUFFICES ASSUME TurnInv, TurnSound, [Hear \/ TurnGoesOn \/ ToolBreaks]_interpreter
             PROVE  TurnSound'
  OBVIOUS
<1>0. /\ history \in Seq(Message) /\ turn \in Turns /\ Resting.at = "rest"
      /\ turn # Resting <=> turn.at \in {"context", "model", "tools"}
      /\ \A uses \in Seq(Nat) : Assistant(uses) \in Message /\ Outcomes(uses) \in Message
           /\ Assistant(uses).uses = uses /\ Outcomes(uses).role = "user"
      /\ <<>> \in Seq(Nat)
  BY TurnIs, Messages DEF TurnInv, HistoryOK, Resting
<1>1. CASE Hear
  <2>1. /\ WellFormed(history, loose) /\ history' = Append(history, UserSays) /\ loose' = loose
        /\ turn' = [at |-> "context", before |-> history, sentBefore |-> sentContext]
    BY <1>1 DEF Hear, TurnSound
  <2>2. /\ turn' # Resting /\ turn'.at = "context" /\ turn'.before = history
    BY <2>1 DEF Resting
  <2>3. Answers(history, Len(history), loose) /\ (history # <<>> => history[1] = UserSays)
    BY <1>0, <2>1 DEF WellFormed, Answers
  <2>4. /\ Append(history, UserSays)[1] = UserSays /\ Append(history, UserSays) # <<>>
        /\ Len(Append(history, UserSays)) = Len(history) + 1
    <3>1. CASE history = <<>>
      BY <3>1
    <3>2. CASE history # <<>>
      BY <1>0, <2>3, <3>2, AnswersGrow, Messages, OneMore
    <3>3. QED
      BY <3>1, <3>2
  <2>5. Answers(Append(history, UserSays), Len(history) + 1, loose)
    BY <1>0, <2>3, AnswersGrow, Messages
  <2>6. Answers(history, Len(history), loose)'
    BY <2>1, <2>4, <2>5 DEF Answers
  <2>7. WellFormed(turn.before, loose)'
    BY <2>1, <2>2 DEF WellFormed
  <2>8. QED
    BY <2>1, <2>2, <2>4, <2>6, <2>7 DEF TurnSound
<1>2. ASSUME NEW ctx \in Contexts, ContextCame(ctx)
      PROVE  TurnSound'
  <2>1. /\ turn.at = "context" /\ turn # Resting /\ Told(ctx) /\ turn' = Turning("model", 1, <<>>)
        /\ loose' = loose
    BY <1>0, <1>2 DEF ContextCame
  <2>2. turn'.before = turn.before /\ turn'.at = "model" /\ turn' # Resting
    BY <2>1 DEF Turning, Resting
  <2>3. /\ WellFormed(turn.before, loose) /\ history # <<>> /\ history[1] = UserSays
        /\ Answers(history, Len(history), loose)
    BY <2>1 DEF TurnSound
  <2>4. history' # <<>> /\ history'[1] = UserSays /\ Answers(history', Len(history'), loose)
    <3>1. CASE history' = history
      BY <2>3, <3>1
    <3>2. CASE history' = Append(history, SystemSays(ctx))
      <4>1. SystemSays(ctx) \in Message /\ SystemSays(ctx).role # "assistant"
        BY Messages
      <4>2. Len(history') = Len(history) + 1
        BY <1>0, <3>2, <4>1, OneMore
      <4>3. QED
        BY <1>0, <2>3, <3>2, <4>1, <4>2, AnswersGrow
    <3>3. QED
      BY <2>1, <3>1, <3>2 DEF Told
  <2>5. Answers(history, Len(history), loose)' /\ WellFormed(turn.before, loose)'
    BY <2>1, <2>2, <2>3, <2>4 DEF Answers, WellFormed
  <2>6. QED
    BY <2>2, <2>4, <2>5 DEF TurnSound
<1>3. ASSUME turn' = Resting, history' = turn.before, turn # Resting,
             loose' = {i \in loose : i <= Len(turn.before)}
      PROVE  TurnSound'
  <2>1. WellFormed(turn.before, loose')
    <3>1. WellFormed(turn.before, loose) /\ Len(turn.before) \in Nat
      BY <1>3, TurnIs DEF TurnSound, TurnInv, HistoryOK
    <3>2. (1 .. Len(turn.before)) \ loose' \subseteq (1 .. Len(turn.before)) \ loose
      BY <1>3, <3>1
    <3>3. QED
      BY <3>1, <3>2 DEF WellFormed
  <2>2. WellFormed(history, loose)'
    BY <1>3, <2>1 DEF WellFormed
  <2>3. QED
    BY <1>0, <1>3, <2>2 DEF TurnSound
<1>4. CASE NoReply
  <2>1. turn # Resting /\ turn' = Resting /\ Rollback
    BY <1>0, <1>4 DEF NoReply
  <2>2. history' = turn.before /\ loose' = {i \in loose : i <= Len(turn.before)}
    BY <2>1, RolledBack DEF TurnInv
  <2>3. QED
    BY <1>3, <2>1, <2>2
<1>5. ASSUME NEW uses \in Unmade, Answer(uses)
      PROVE  TurnSound'
  <2> DEFINE a == Assistant(uses)
  <2>1. /\ turn.at = "model" /\ turn # Resting /\ turn' = Resting /\ history' = Append(history, a)
        /\ loose' = Loosened(uses)
        /\ history # <<>> /\ history[1] = UserSays /\ Answers(history, Len(history), loose)
    BY <1>0, <1>5 DEF Answer, TurnSound
  <2>2. a \in Message /\ a.role = "assistant"
    BY Unnamed DEF TurnInv
  <2>3. Answers(Append(history, a), Len(history) + 1, loose')
    BY <2>1, Replied
  <2> HIDE DEF a
  <2>4. /\ Len(history') = Len(history) + 1 /\ history'[Len(history) + 1] = a
        /\ history'[1] = UserSays
    BY <1>0, <2>1, <2>2, OneMore, AnswersGrow
  <2>5. WellFormed(history, loose)'
    BY <2>1, <2>2, <2>3, <2>4 DEF WellFormed, Answers, Last
  <2>6. QED
    BY <1>0, <2>1, <2>5 DEF TurnSound
<1>6. ASSUME NEW uses \in Unmade, BadTemplate(uses)
      PROVE  TurnSound'
  <2> DEFINE a == Assistant(uses)
             m == <<a, FixThat>>
  <2>1. /\ turn.at = "model" /\ turn # Resting /\ Continue(m, Loosened(uses))
        /\ history # <<>> /\ history[1] = UserSays /\ Answers(history, Len(history), loose)
        /\ WellFormed(turn.before, loose)
    BY <1>0, <1>6 DEF BadTemplate, TurnSound
  <2>2. a \in Message /\ a.role = "assistant" /\ FixThat \in Message /\ FixThat.role = "user"
    BY Unnamed, Messages DEF TurnInv
  <2>3. /\ Answers(Append(history, a), Len(history) + 1, Loosened(uses))
        /\ loose \subseteq Loosened(uses) /\ Loosened(uses) \subseteq 1 .. Len(history) + 1
        /\ Len(history) \in Nat
    <3>1. Answers(Append(history, a), Len(history) + 1, Loosened(uses))
      BY <2>1, Replied
    <3>2. Loosened(uses) \subseteq 1 .. Len(history) + 1
      BY Unnamed DEF TurnInv
    <3>3. loose \subseteq Loosened(uses)
      BY DEF Loosened
    <3>4. QED
      BY <1>0, <3>1, <3>2, <3>3
  <2> HIDE DEF a
  <2>4. m \in Seq(Message) /\ Len(m) = 2 /\ \A i \in 1 .. Len(m) : m[i].role # "system"
    BY <2>2
  <2>5. history \o m = Append(Append(history, a), FixThat)
    BY <1>0, <2>2
  <2> HIDE DEF m
  <2>6. \/ turn' = Resting /\ history' = turn.before /\ loose' = {i \in loose : i <= Len(turn.before)}
        \/ /\ turn' # Resting /\ turn'.at = "model" /\ turn'.before = turn.before
           /\ history' = history \o m /\ loose' = Loosened(uses)
    <3>1. Loosened(uses) \in SUBSET (1 .. Len(history) + Len(m))
      BY <2>3, <2>4
    <3>2. QED
      BY <2>1, <2>4, <3>1, ContinueSteps DEF TurnInv
  <2>7. CASE /\ turn' # Resting /\ turn'.at = "model" /\ turn'.before = turn.before
             /\ history' = history \o m /\ loose' = Loosened(uses)
    <3> DEFINE g == Append(history, a)
    <3>1. /\ g \in Seq(Message) /\ Len(g) = Len(history) + 1 /\ g # <<>> /\ g[1] = UserSays
          /\ Answers(g, Len(g), loose')
      BY <1>0, <2>1, <2>2, <2>3, <2>7, OneMore, AnswersGrow
    <3>2. history' = Append(g, FixThat)
      BY <2>5, <2>7
    <3> HIDE DEF g
    <3>3. Len(history') = Len(g) + 1 /\ history' # <<>> /\ history'[1] = UserSays
          /\ Answers(history', Len(g) + 1, loose')
      BY <2>2, <3>1, <3>2, OneMore, AnswersGrow
    <3>4. Answers(history, Len(history), loose)'
      BY <3>3 DEF Answers
    <3>5. WellFormed(turn.before, loose)'
      BY <2>1, <2>3, <2>7, Looser
    <3>6. QED
      BY <2>7, <3>3, <3>4, <3>5 DEF TurnSound
  <2>8. QED
    BY <1>3, <2>1, <2>6, <2>7
<1>7. ASSUME NEW k \in 1 .. MaxUses, CallTools(k)
      PROVE  TurnSound'
  <2> DEFINE uses == [i \in 1 .. k |-> rpcId + i]
  <2>1. /\ turn.at = "model" /\ turn # Resting
        /\ history' = Append(history, Assistant(uses)) /\ turn' = Turning("tools", turn.step, uses)
        /\ loose' = loose
        /\ history # <<>> /\ history[1] = UserSays /\ Answers(history, Len(history), loose)
        /\ WellFormed(turn.before, loose)
    BY <1>0, <1>7 DEF CallTools, TurnSound
  <2>2. uses \in Seq(Nat)
    <3>1. rpcId \in Nat /\ k \in Nat
      BY InterpreterConstants DEF TurnInv, ResultsOK, InterpreterConstants
    <3>2. QED
      BY <3>1
  <2> HIDE DEF uses
  <2>3. turn'.before = turn.before /\ turn'.at = "tools" /\ turn' # Resting /\ turn'.uses = uses
    BY <2>1 DEF Turning, Resting
  <2>4. Assistant(uses) \in Message
    BY <1>0, <2>2
  <2>5. /\ Len(history') = Len(history) + 1 /\ history'[Len(history) + 1] = Assistant(uses)
        /\ history'[1] = UserSays /\ history' # <<>> /\ Answers(history', Len(history), loose)
        /\ Len(history) \in Nat
    BY <1>0, <2>1, <2>4, OneMore, AnswersGrow
  <2>6. Len(history') - 1 = Len(history)
    BY <2>5
  <2>7. Answers(history, Len(history) - 1, loose)' /\ WellFormed(turn.before, loose)'
    BY <2>1, <2>3, <2>5, <2>6 DEF Answers, WellFormed
  <2>8. QED
    BY <2>3, <2>5, <2>7 DEF TurnSound
<1>8. ASSUME turn.at = "tools", NEW r \in ToSet(turn.uses), ToolEnds(r)
      PROVE  TurnSound'
  <2>1. /\ turn # Resting /\ turn.uses \in Seq(Nat) /\ WellFormed(turn.before, loose)
        /\ history # <<>> /\ history[1] = UserSays
        /\ Answers(history, Len(history) - 1, loose) /\ history[Len(history)] = Assistant(turn.uses)
    BY <1>0, <1>8, TurnIs DEF TurnSound
  <2>2. CASE turn.done \cup {r} = ToSet(turn.uses)
    <3> DEFINE o == Outcomes(turn.uses)
               m == <<o>>
    <3>1. o \in Message /\ o.role = "user"
      BY <1>0, <2>1
    <3>2. Continue(m, loose)
      BY <1>8, <2>2 DEF ToolEnds
    <3>3. /\ Append(history, o) # <<>> /\ Append(history, o)[1] = UserSays
          /\ Len(Append(history, o)) = Len(history) + 1
          /\ Answers(Append(history, o), Len(history) + 1, loose)
      BY <1>0, <2>1, <3>1, OneMore, AnswersGrow
    <3> HIDE DEF o
    <3>4. m \in Seq(Message) /\ \A i \in 1 .. Len(m) : m[i].role # "system"
      BY <3>1
    <3>5. history \o m = Append(history, o)
      BY <1>0, <3>1, AppendIsConcat
    <3> HIDE DEF m
    <3>6. \/ turn' = Resting /\ history' = turn.before /\ loose' = {i \in loose : i <= Len(turn.before)}
          \/ /\ turn' # Resting /\ turn'.at = "model" /\ turn'.before = turn.before
             /\ history' = history \o m /\ loose' = loose
      <4>1. loose \in SUBSET (1 .. Len(history) + Len(m))
        BY <3>4, GrowsBy DEF TurnInv, HistoryOK
      <4>2. QED
        BY <1>8, <3>2, <3>4, <4>1, ContinueSteps DEF TurnInv
    <3>7. CASE /\ turn' # Resting /\ turn'.at = "model" /\ turn'.before = turn.before
               /\ history' = history \o m /\ loose' = loose
      <4>1. history' # <<>> /\ history'[1] = UserSays
        BY <3>3, <3>5, <3>7
      <4>2. Answers(history, Len(history), loose)' /\ WellFormed(turn.before, loose)'
        BY <2>1, <3>3, <3>5, <3>7 DEF Answers, WellFormed
      <4>3. QED
        BY <3>7, <4>1, <4>2 DEF TurnSound
    <3>8. QED
      BY <1>3, <2>1, <3>6, <3>7
  <2>3. CASE turn.done \cup {r} # ToSet(turn.uses)
    <3>1. turn' = [turn EXCEPT !.done = @ \cup {r}] /\ UNCHANGED <<history, loose>>
      BY <1>8, <2>3 DEF ToolEnds
    <3>2. /\ turn'.at = "tools" /\ turn'.uses = turn.uses /\ turn'.before = turn.before /\ turn' # Resting
      <4>1. turn \in [at : {"model", "tools"}, step : 1 .. MaxSteps, uses : Seq(Nat), done : SUBSET Nat,
                      before : Seq(Message), sentBefore : Contexts \cup {None}]
        BY <1>0, <1>8 DEF Turns, Resting
      <4>2. QED
        BY <1>8, <3>1, <4>1 DEF Resting
    <3>3. Answers(history, Len(history) - 1, loose)' /\ WellFormed(turn.before, loose)'
      BY <2>1, <3>1, <3>2 DEF Answers, WellFormed
    <3>4. QED
      BY <2>1, <3>1, <3>2, <3>3 DEF TurnSound
  <2>4. QED
    BY <2>2, <2>3
<1>11. CASE ToolBreaks
  <2>1. /\ turn.at = "tools" /\ turn # Resting /\ turn' = Resting /\ history' = history
        /\ loose' = loose \cup {Len(history)} /\ turn.uses \in Seq(Nat)
        /\ history # <<>> /\ history[1] = UserSays /\ Len(history) \in Nat
        /\ Answers(history, Len(history) - 1, loose) /\ history[Len(history)] = Assistant(turn.uses)
    BY <1>0, <1>11, TurnIs DEF ToolBreaks, TurnSound
  <2>2. Assistant(turn.uses).role = "assistant"
    BY <2>1, Messages
  <2>3. (1 .. Len(history)) \ loose' \subseteq (1 .. Len(history) - 1) \ loose
    BY <2>1
  <2>4. WellFormed(history, loose)'
    BY <2>1, <2>2, <2>3 DEF WellFormed, Answers, Last
  <2>5. QED
    BY <1>0, <2>1, <2>4 DEF TurnSound
<1>9. CASE UNCHANGED interpreter
  <2>1. history' = history /\ turn' = turn /\ loose' = loose
    BY <1>9 DEF interpreter
  <2>2. QED
    BY <2>1 DEF TurnSound, Answers, WellFormed
<1>10. QED
  BY <1>1, <1>2, <1>4, <1>5, <1>6, <1>7, <1>8, <1>9, <1>11 DEF TurnGoesOn
-----------------------------------------------------------------------------
LEMMA Turned == InterpreterSpec => []TurnInv
BY TurnStarts, TurnSteps, PTL DEF InterpreterSpec

LEMMA TurnTypes == TurnInv => InterpreterTypeOK
<1> SUFFICES ASSUME TurnInv
             PROVE  InterpreterTypeOK
  OBVIOUS
<1>1. \A m \in ToSet(history) : m \in Message
  BY DEF TurnInv, HistoryOK, ToSet
<1>2. ToSet(results) \subseteq 1 .. rpcId /\ Len(results) <= MaxStored /\ IsInjective(results)
  BY DEF TurnInv, ResultsOK, ToSet, IsInjective
<1>3. QED
  BY <1>1, <1>2 DEF InterpreterTypeOK, TurnInv, HistoryOK

(* The messages are of their kinds and the results are named apart, at     *)
(* most MaxStored of them, however many tools end in whatever order.       *)
THEOREM InterpreterTyped == InterpreterSpec => []InterpreterTypeOK
BY Turned, TurnTypes, PTL

LEMMA TurnTells == TurnInv => ContextIsTold
BY LastToldIs DEF TurnInv, HistoryOK, ContextIsTold

(* The context that is not told again is the one told last in the history, *)
(* whatever turns were taken back, and even after one that broke.          *)
THEOREM ContextTold == InterpreterSpec => []ContextIsTold
BY Turned, TurnTells, PTL

LEMMA KeptIs == TurnInv /\ TurnInv' /\ Kept =>
  /\ turn # Resting => IsPrefix(turn.before, history')
  /\ turn = Resting => IsPrefix(history, history')
BY TurnIs, PrefixIs DEF TurnInv, HistoryOK, Kept

(* A turn adds to the history or leaves what was there before it.          *)
THEOREM HistoryStays == InterpreterSpec => HistoryIsKept
BY Turned, TurnSteps, KeptIs, PTL DEF InterpreterSpec, HistoryIsKept

(* The history between two turns is one the API accepts, but for the calls *)
(* that were left loose, however turns fail and whatever tools they call.  *)
THEOREM WellFormedHistory == InterpreterSpec => []HistoryIsWellFormed
<1>1. InterpreterInit => TurnInv /\ TurnSound
  <2>1. InterpreterInit => TurnSound
    BY DEF InterpreterInit, TurnSound, WellFormed, Resting
  <2>2. QED
    BY <2>1, TurnStarts
<1>2. TurnInv /\ TurnSound /\ [Hear \/ TurnGoesOn \/ ToolBreaks]_interpreter => (TurnInv /\ TurnSound)'
  BY TurnSteps, SoundSteps
<1>3. TurnSound => HistoryIsWellFormed
  BY DEF TurnSound, HistoryIsWellFormed
<1>4. QED
  BY <1>1, <1>2, <1>3, PTL DEF InterpreterSpec
-----------------------------------------------------------------------------

(* The part of the type the refinement needs.                              *)
Inv == level \in Int /\ up \in [Conns -> Seq(Kinds)] /\ loop \in [Conns -> Loop]

LEMMA Constants == Burst \in Nat /\ MaxLine \in Nat \ {0}
  BY SharingConstants DEF SharingConstants

LEMMA PlacesThereAre ==
  /\ At("top") \in Loop /\ At("reading") \in Loop /\ At("closed") \in Loop
  /\ \A n \in Nat : Asleep(n) \in Loop
  /\ \A kind \in Kinds : Serving(kind) \in Loop
  BY DEF Loop, At, Asleep, Serving

LEMMA InitInv == Init => Inv
  BY Constants, PlacesThereAre DEF Init, Inv

(* A line leaves the wire.                                                 *)
LEMMA LineRead ==
  ASSUME Inv, NEW c \in Conns, up[c] # <<>>
  PROVE  Head(up[c]) \in Kinds /\ [up EXCEPT ![c] = Tail(@)] \in [Conns -> Seq(Kinds)]
<1>1. up[c] \in Seq(Kinds)
  BY DEF Inv
<1>2. Head(up[c]) \in Kinds /\ Tail(up[c]) \in Seq(Kinds)
  BY <1>1
<1> QED BY <1>2 DEF Inv

LEMMA ReadInv ==
  ASSUME Inv, NEW c \in Conns, Read(c) PROVE Inv'
<1>1. Head(up[c]) \in Kinds /\ up' \in [Conns -> Seq(Kinds)]
  BY LineRead DEF Read
<1>2. level' \in Int
  BY DEF Read, Inv
<1>3. loop' \in [Conns -> Loop]
  BY <1>1, PlacesThereAre DEF Read, Inv, AfterBlank
<1> QED BY <1>1, <1>2, <1>3 DEF Inv

LEMMA NextInv == Inv /\ [Next]_vars => Inv'
<1> SUFFICES ASSUME Inv, [Next]_vars PROVE Inv'
  OBVIOUS
<1>1. ASSUME NEW c \in Conns, NEW kind \in Kinds, Send(c, kind) PROVE Inv'
  <2>1. Append(up[c], kind) \in Seq(Kinds)
    BY DEF Inv
  <2> QED BY <1>1, <2>1 DEF Send, Inv
<1>2. ASSUME NEW c \in Conns, Receive(c) PROVE Inv'
  BY <1>2 DEF Receive, Inv
<1>3. ASSUME NEW c \in Conns, Wait(c) \/ Wake(c) PROVE Inv'
  <2>1. UNCHANGED <<level, up>>
    BY <1>3 DEF Wait, Wake
  <2>2. Waited \in Loop /\ Woken \in Loop
    BY PlacesThereAre DEF Waited, Woken, Inv
  <2>3. loop' \in [Conns -> Loop]
    BY <1>3, <2>2 DEF Wait, Wake, Inv
  <2> QED BY <2>1, <2>3 DEF Inv
<1>4. ASSUME NEW c \in Conns, Read(c) PROVE Inv'
  BY <1>4, ReadInv
<1>5. ASSUME NEW c \in Conns, Serve(c) PROVE Inv'
  <2>1. level' \in Int
    <3>1. PICK cost \in 0 .. MaxLine - 1 : level' = level - cost
      BY <1>5, Constants DEF Serve
    <3> QED BY <3>1 DEF Inv
  <2>2. UNCHANGED up /\ loop' \in [Conns -> Loop]
    BY <1>5, PlacesThereAre DEF Serve, Inv
  <2> QED BY <2>1, <2>2 DEF Inv
<1>6. ASSUME NEW c \in Conns, ServeBreaks(c) \/ HangUp(c) PROVE Inv'
  BY <1>6, PlacesThereAre DEF ServeBreaks, HangUp, Inv
<1>7. CASE Tick
  <2>1. level' \in Int /\ UNCHANGED up
    BY <1>7 DEF Tick, Refilled, Inv
  <2>2. ASSUME NEW c \in Conns PROVE loop'[c] \in Loop
    <3>1. CASE loop[c].at = "asleep" /\ loop[c].left > 0
      <4>1. loop[c].left \in Nat
        BY <3>1 DEF Inv, Loop, At
      <4>2. loop'[c] = Asleep(loop[c].left - 1)
        BY <1>7, <3>1 DEF Tick
      <4> QED BY <3>1, <4>1, <4>2, PlacesThereAre
    <3>2. CASE ~(loop[c].at = "asleep" /\ loop[c].left > 0)
      BY <1>7, <3>2 DEF Tick, Inv
    <3> QED BY <3>1, <3>2
  <2>3. loop' = [c \in Conns |-> loop'[c]]
    BY <1>7 DEF Tick
  <2> QED BY <2>1, <2>2, <2>3 DEF Inv
<1>8. CASE Think \/ TurnBreaks
  BY <1>8 DEF Think, TurnBreaks, wire, Inv
<1>9. CASE UNCHANGED vars
  BY <1>9 DEF vars, wire, Inv
<1> QED BY <1>1, <1>2, <1>3, <1>4, <1>5, <1>6, <1>7, <1>8, <1>9 DEF Next
-----------------------------------------------------------------------------
Paces == [c \in Conns |-> PaceOf(c)]

(* The pace of each place.                                                 *)
LEMMA PaceAt ==
  ASSUME NEW c \in Conns, loop[c] \in Loop
  PROVE  /\ loop[c] = At("top") => PaceOf(c) = Budget!Due
         /\ loop[c] = At("reading") => PaceOf(c) = Budget!Cleared(MaxLine)
         /\ loop[c] = At("closed") => PaceOf(c) = Budget!Gone
         /\ loop[c].at = "serving" => PaceOf(c) = Budget!Cleared(MaxLine - 1)
         /\ loop[c].at = "asleep" => PaceOf(c) = loop[c]
  BY DEF PaceOf, At, Budget!Due, Budget!Cleared, Budget!Gone

LEMMA PaceAtNext ==
  ASSUME NEW c \in Conns, loop'[c] \in Loop
  PROVE  /\ loop'[c] = At("top") => PaceOf(c)' = Budget!Due
         /\ loop'[c] = At("reading") => PaceOf(c)' = Budget!Cleared(MaxLine)
         /\ loop'[c] = At("closed") => PaceOf(c)' = Budget!Gone
         /\ loop'[c].at = "serving" => PaceOf(c)' = Budget!Cleared(MaxLine - 1)
         /\ loop'[c].at = "asleep" => PaceOf(c)' = loop'[c]
  BY DEF PaceOf, At, Budget!Due, Budget!Cleared, Budget!Gone

(* A step of one loop is a step of one pace.                               *)
LEMMA OnePace ==
  ASSUME Inv, NEW c \in Conns, NEW place, loop' = [loop EXCEPT ![c] = place]
  PROVE  Paces' = [Paces EXCEPT ![c] = PaceOf(c)']
<1>1. \A d \in Conns \ {c} : PaceOf(d)' = PaceOf(d)
  BY DEF Inv, PaceOf
<1> QED BY <1>1 DEF Paces

LEMMA InitBudget == Init => Budget!Init
<1> SUFFICES ASSUME Init PROVE Budget!Init
  OBVIOUS
<1>1. \A c \in Conns : PaceOf(c) \in {Budget!Due, Budget!Gone}
  BY InitInv, PaceAt DEF Init, Inv
<1> QED BY <1>1 DEF Init, Budget!Init

LEMMA WaitBudget ==
  ASSUME Inv, Inv', NEW c \in Conns, Wait(c) PROVE Budget!Wait(c)
<1>1. PaceOf(c) = Budget!Due
  BY PaceAt DEF Inv, Wait
<1>2. Paces' = [Paces EXCEPT ![c] = PaceOf(c)'] /\ loop'[c] = Waited /\ UNCHANGED level
  BY OnePace DEF Inv, Wait
<1>3. PaceOf(c)' = IF level < 0 THEN Budget!Asleep(-level) ELSE Budget!Cleared(MaxLine)
  BY <1>2, PaceAtNext DEF Inv, Waited, Asleep, Budget!Asleep
<1> QED BY <1>1, <1>2, <1>3 DEF Budget!Wait, Paces

LEMMA WakeBudget ==
  ASSUME Inv, Inv', NEW c \in Conns, Wake(c) PROVE Budget!Wake(c)
<1>1. PaceOf(c) = Budget!Asleep(0)
  BY PaceAt DEF Inv, Wake, Asleep, Budget!Asleep
<1>2. Paces' = [Paces EXCEPT ![c] = PaceOf(c)'] /\ loop'[c] = At("reading") /\ UNCHANGED level
  BY OnePace DEF Inv, Wake, Woken
<1>3. PaceOf(c)' = Budget!Cleared(MaxLine)
  BY <1>2, PaceAtNext DEF Inv
<1> QED BY <1>1, <1>2, <1>3 DEF Budget!Wake, Paces

(* What is spent out of what one was cleared for, and what is left of it.  *)
LEMMA SpendBudget ==
  ASSUME Inv, NEW c \in Conns, NEW had \in 0 .. MaxLine, PaceOf(c) = Budget!Cleared(had),
         NEW bytes \in 0 .. had, level' = level - bytes,
         NEW place, loop' = [loop EXCEPT ![c] = place],
         PaceOf(c)' \in {Budget!Due, Budget!Gone}
                          \cup {Budget!Cleared(b) : b \in 0 .. had - bytes}
  PROVE  Budget!Spend(c, bytes) /\ bytes \in 0 .. MaxLine
<1>1. Paces' = [Paces EXCEPT ![c] = PaceOf(c)']
  BY OnePace
<1>2. Paces[c].at = "cleared" /\ Paces[c].bytes = had
  BY DEF Paces, Budget!Cleared
<1>3. bytes \in 0 .. MaxLine /\ bytes <= had
  BY Constants
<1> QED BY <1>1, <1>2, <1>3 DEF Budget!Spend, Paces

LEMMA ReadBudget ==
  ASSUME Inv, Inv', NEW c \in Conns, Read(c)
  PROVE  \E bytes \in 0 .. MaxLine : Budget!Spend(c, bytes)
<1>1. PaceOf(c) = Budget!Cleared(MaxLine) /\ MaxLine \in 0 .. MaxLine
  BY PaceAt, Constants DEF Inv, Read
<1>2. PICK place \in {At("closed"), AfterBlank, Serving(Head(up[c]))} :
        loop' = [loop EXCEPT ![c] = place]
  BY DEF Read
<1>3. loop'[c] = place /\ loop'[c] \in Loop
  BY <1>2 DEF Inv
<1>4. CASE Head(up[c]) = "long"
  <2>1. loop' = [loop EXCEPT ![c] = At("closed")] /\ level' = level
    BY <1>4 DEF Read
  <2>2. loop'[c] = At("closed") /\ level' = level - 0
    BY <2>1 DEF Inv
  <2>3. PaceOf(c)' = Budget!Gone
    BY <1>3, <2>2, PaceAtNext
  <2>4. 0 \in 0 .. MaxLine
    BY Constants
  <2> QED BY <1>1, <2>1, <2>2, <2>3, <2>4, SpendBudget
<1>5. CASE Head(up[c]) # "long"
  <2>1. level' = level - 1 /\ loop'[c] \in {At("top"), Serving(Head(up[c]))}
    BY <1>5 DEF Read, Inv, AfterBlank
  <2>2. PaceOf(c)' \in {Budget!Due, Budget!Cleared(MaxLine - 1)}
    BY <1>3, <2>1, PaceAtNext DEF Serving
  <2>3. MaxLine - 1 \in 0 .. MaxLine - 1 /\ 1 \in 0 .. MaxLine
    BY Constants
  <2> QED BY <1>1, <1>2, <2>1, <2>2, <2>3, SpendBudget
<1> QED BY <1>4, <1>5

LEMMA ServeBudget ==
  ASSUME Inv, Inv', NEW c \in Conns, Serve(c)
  PROVE  \E bytes \in 0 .. MaxLine : Budget!Spend(c, bytes)
<1>1. PaceOf(c) = Budget!Cleared(MaxLine - 1) /\ MaxLine - 1 \in 0 .. MaxLine
  BY PaceAt, Constants DEF Inv, Serve
<1>2. PICK cost \in 0 .. MaxLine - 1 : level' = level - cost
  BY Constants DEF Serve
<1>3. loop' = [loop EXCEPT ![c] = At("top")] /\ loop'[c] = At("top") /\ loop'[c] \in Loop
  BY DEF Inv, Serve
<1>4. PaceOf(c)' = Budget!Due
  BY <1>3, PaceAtNext
<1> QED BY <1>1, <1>2, <1>3, <1>4, SpendBudget

LEMMA LeaveBudget ==
  ASSUME Inv, Inv', NEW c \in Conns, ServeBreaks(c) \/ HangUp(c)
  PROVE  \E bytes \in 0 .. MaxLine : Budget!Spend(c, bytes)
<1>1. PICK had \in {MaxLine - 1, MaxLine} : PaceOf(c) = Budget!Cleared(had)
  BY PaceAt DEF Inv, ServeBreaks, HangUp
<1>2. had \in 0 .. MaxLine /\ 0 \in 0 .. had
  BY <1>1, Constants
<1>3. loop' = [loop EXCEPT ![c] = At("closed")] /\ UNCHANGED level
  BY DEF ServeBreaks, HangUp
<1>4. loop'[c] = At("closed") /\ loop'[c] \in Loop /\ level' = level - 0
  BY <1>3 DEF Inv
<1>5. PaceOf(c)' = Budget!Gone
  BY <1>4, PaceAtNext
<1> QED BY <1>1, <1>2, <1>3, <1>4, <1>5, SpendBudget

LEMMA TickBudget ==
  ASSUME Inv, Inv', Tick PROVE Budget!Tick
<1>1. ASSUME NEW c \in Conns
      PROVE  PaceOf(c)' = IF PaceOf(c).at = "asleep" /\ PaceOf(c).left > 0
                            THEN Budget!Asleep(PaceOf(c).left - 1) ELSE PaceOf(c)
  <2>1. loop[c] \in Loop /\ loop'[c] \in Loop
    BY DEF Inv
  <2>2. CASE loop[c].at = "asleep" /\ loop[c].left > 0
    <3>1. loop'[c] = Asleep(loop[c].left - 1)
      BY <2>2 DEF Tick
    <3> QED BY <2>1, <2>2, <3>1, PaceAt, PaceAtNext DEF Asleep, Budget!Asleep
  <2>3. CASE loop[c].at = "asleep" /\ ~(loop[c].left > 0)
    <3>1. loop'[c] = loop[c]
      BY <2>3 DEF Tick
    <3> QED BY <2>1, <2>3, <3>1, PaceAt, PaceAtNext
  <2>4. CASE loop[c].at # "asleep"
    <3>1. loop'[c] = loop[c]
      BY <2>4 DEF Tick
    <3>2. PaceOf(c)' = PaceOf(c)
      BY <3>1 DEF PaceOf
    <3>3. PaceOf(c).at # "asleep"
      BY <2>1, <2>4 DEF PaceOf, Loop, At
    <3> QED BY <3>2, <3>3
  <2> QED BY <2>2, <2>3, <2>4
<1>2. level' = IF level < Burst THEN level + 1 ELSE level
  BY DEF Tick, Refilled
<1> QED BY <1>1, <1>2 DEF Budget!Tick

LEMMA SamePace == Inv /\ UNCHANGED <<level, loop>> => UNCHANGED Budget!vars
<1> SUFFICES ASSUME Inv, UNCHANGED <<level, loop>> PROVE UNCHANGED Budget!vars
  OBVIOUS
<1>1. \A c \in Conns : PaceOf(c)' = PaceOf(c)
  BY DEF PaceOf
<1> QED BY <1>1 DEF Budget!vars

LEMMA NextBudget == Inv /\ Inv' /\ [Next]_vars => [Budget!Next]_(Budget!vars)
<1> SUFFICES ASSUME Inv, Inv', [Next]_vars PROVE [Budget!Next]_(Budget!vars)
  OBVIOUS
<1>1. ASSUME NEW c \in Conns, Wait(c) \/ Wake(c) PROVE Budget!Next
  BY <1>1, WaitBudget, WakeBudget DEF Budget!Next
<1>2. ASSUME NEW c \in Conns, Read(c) \/ Serve(c) \/ ServeBreaks(c) \/ HangUp(c) PROVE Budget!Next
  BY <1>2, ReadBudget, ServeBudget, LeaveBudget DEF Budget!Next
<1>3. CASE Tick
  BY <1>3, TickBudget DEF Budget!Next
<1>4. ASSUME NEW c \in Conns, Receive(c) \/ \E kind \in Kinds : Send(c, kind)
      PROVE  UNCHANGED Budget!vars
  BY <1>4, SamePace DEF Receive, Send
<1>5. CASE Think \/ TurnBreaks
  BY <1>5, SamePace DEF Think, TurnBreaks, wire
<1>6. CASE UNCHANGED vars
  BY <1>6, SamePace DEF vars, wire
<1> QED BY <1>1, <1>2, <1>3, <1>4, <1>5, <1>6 DEF Next

(* What connections do with their user's budget is what Throttle allows:   *)
(* one wait before a line, and no more spent than a line of MaxLine costs  *)
(* (drpc/server.py:46-76, drpc/throttle.py:21-33).                         *)
THEOREM PaceKept == Spec => KeepsPace
<1>1. Init => Inv /\ Budget!Init
  BY InitInv, InitBudget
<1>2. Inv /\ [Next]_vars => Inv'
  BY NextInv
<1>3. Inv /\ Inv' /\ [Next]_vars => [Budget!Next]_(Budget!vars)
  BY NextBudget
<1> QED BY <1>1, <1>2, <1>3, PTL DEF Spec, KeepsPace, Budget!Spec

Shared == INSTANCE Throttle_proofs WITH pace <- [c \in Conns |-> PaceOf(c)]

(* So, however many connections a user has and whatever they ask, that     *)
(* user's budget is never further in debt than one line of each costs.     *)
THEOREM DebtBounded == Spec => []DebtIsBounded
<1>1. Shared!IsFiniteSet(Conns) /\ Burst \in Nat /\ MaxLine \in Nat \ {0}
  BY SharingConstants DEF SharingConstants, IsFiniteSet, Shared!IsFiniteSet
<1>2. Shared!Spec => []Shared!DebtIsBounded
  BY <1>1, Shared!BudgetHolds
<1>3. KeepsPace => Shared!Spec
  <2>1. Budget!Init => Shared!Init
    BY DEF Budget!Init, Budget!Due, Budget!Gone, Shared!Init, Shared!Due, Shared!Gone
  <2>2. ASSUME NEW c \in Conns
        PROVE  /\ Budget!Wait(c) => Shared!Wait(c)
               /\ Budget!Wake(c) => Shared!Wake(c)
               /\ \A bytes \in 0 .. MaxLine : Budget!Spend(c, bytes) => Shared!Spend(c, bytes)
    BY DEF Budget!Wait, Budget!Wake, Budget!Spend, Shared!Wait, Shared!Wake, Shared!Spend,
           Budget!Due, Budget!Gone, Budget!Asleep, Budget!Cleared,
           Shared!Due, Shared!Gone, Shared!Asleep, Shared!Cleared
  <2>3. Budget!Tick => Shared!Tick
    BY DEF Budget!Tick, Budget!Asleep, Shared!Tick, Shared!Asleep
  <2>4. UNCHANGED Budget!vars => UNCHANGED Shared!vars
    BY DEF Budget!vars, Shared!vars
  <2>5. [Budget!Next]_(Budget!vars) => [Shared!Next]_(Shared!vars)
    BY <2>2, <2>3, <2>4 DEF Budget!Next, Shared!Next
  <2> QED BY <2>1, <2>5, PTL DEF KeepsPace, Budget!Spec, Shared!Spec
<1>4. Shared!DebtIsBounded => DebtIsBounded
  BY DEF DebtIsBounded, Budget!DebtIsBounded, Shared!DebtIsBounded,
         Budget!Cardinality, Shared!Cardinality
<1> QED BY <1>2, <1>3, <1>4, PaceKept, PTL
-----------------------------------------------------------------------------
LEMMA LeastOf ==
  ASSUME NEW S \in SUBSET Nat, S # {}
  PROVE  \E m \in S : \A k \in S : m <= k
<1>1. PICK m \in S : \A k \in S : ~(<<k, m>> \in OpToRel(<, Nat))
  BY NatLessThanWellFounded, WFMin
<1>2. \A k \in S : ~(k < m)
  BY <1>1 DEF OpToRel
<1> QED BY <1>2

(* f[i] is the first i of the sequences s, joined.                         *)
Joins(f, s, n) == \A i \in 1 .. n : f[i] = IF i = 1 THEN s[i] ELSE f[i - 1] \o s[i]

LEMMA JoinsThereAre ==
  ASSUME NEW R, NEW s \in Seq(Seq(R)), NEW n \in 1 .. Len(s)
  PROVE  \E f \in [1 .. n -> Seq(R)] : Joins(f, s, n)
<1> DEFINE bad == {k \in 1 .. n : ~ \E f \in [1 .. k -> Seq(R)] : Joins(f, s, k)}
<1>0. Len(s) \in Nat /\ n \in Nat /\ \A i \in 1 .. n : s[i] \in Seq(R)
  OBVIOUS
<1>1. ASSUME bad # {}
      PROVE  FALSE
  <2>1. PICK m \in bad : \A k \in bad : m <= k
    <3>1. bad \in SUBSET Nat
      OBVIOUS
    <3> HIDE DEF bad
    <3>2. QED
      BY <1>1, <3>1, LeastOf
  <2>2. m \in 1 .. n
    OBVIOUS
  <2>3. CASE m = 1
    <3> DEFINE f == [i \in 1 .. m |-> s[1]]
    <3>1. f \in [1 .. m -> Seq(R)]
      BY <1>0, <2>2, <2>3
    <3>2. \A i \in 1 .. m : i = 1 /\ f[i] = s[1]
      BY <2>3
    <3>3. Joins(f, s, m)
      BY <3>2 DEF Joins
    <3> HIDE DEF f
    <3>4. m \notin bad
      BY <3>1, <3>3
    <3>5. QED
      BY <2>1, <3>4
  <2>4. CASE m # 1
    <3>1. m - 1 \in 1 .. n /\ m - 1 \notin bad
      <4> HIDE DEF bad
      <4>1. QED
        BY <1>0, <2>1, <2>2, <2>4
    <3>2. PICK f \in [1 .. m - 1 -> Seq(R)] : Joins(f, s, m - 1)
      BY <3>1
    <3> DEFINE g == [i \in 1 .. m |-> IF i = m THEN f[m - 1] \o s[m] ELSE f[i]]
    <3>3. f[m - 1] \in Seq(R) /\ s[m] \in Seq(R) /\ m - 1 \in 1 .. m - 1
      BY <1>0, <2>2, <2>4
    <3>4. f[m - 1] \o s[m] \in Seq(R)
      BY <3>3
    <3>5. g \in [1 .. m -> Seq(R)]
      BY <2>2, <3>4
    <3>6. Joins(g, s, m)
      <4> SUFFICES ASSUME NEW i \in 1 .. m
                   PROVE  g[i] = IF i = 1 THEN s[i] ELSE g[i - 1] \o s[i]
        BY DEF Joins
      <4>1. CASE i = m
        <5>0. m - 1 \in 1 .. m /\ m - 1 # m
          BY <2>2, <3>3
        <5>1. g[i] = f[m - 1] \o s[m] /\ g[i - 1] = f[m - 1]
          BY <4>1, <5>0
        <5>2. QED
          BY <2>4, <4>1, <5>1
      <4>2. CASE i # m
        <5>1. i \in 1 .. m - 1 /\ g[i] = f[i]
          BY <2>2, <4>2
        <5>2. f[i] = IF i = 1 THEN s[i] ELSE f[i - 1] \o s[i]
          BY <3>2, <5>1 DEF Joins
        <5>3. i # 1 => i - 1 \in 1 .. m /\ i - 1 # m /\ g[i - 1] = f[i - 1]
          BY <2>2, <5>1
        <5>4. QED
          BY <5>1, <5>2, <5>3
      <4>3. QED
        BY <4>1, <4>2
    <3> HIDE DEF g
    <3>7. QED
      BY <2>1, <3>5, <3>6
  <2>5. QED
    BY <2>3, <2>4
<1>2. n \in 1 .. n /\ n \notin bad
  <2> HIDE DEF bad
  <2>1. QED
    BY <1>0, <1>1
<1>3. QED
  BY <1>2

(* There is but one way to join them.                                      *)
LEMMA JoinsAlike ==
  ASSUME NEW s, NEW n \in Nat, NEW f, NEW g, Joins(f, s, n), Joins(g, s, n)
  PROVE  \A i \in 1 .. n : f[i] = g[i]
<1> DEFINE bad == {i \in 1 .. n : f[i] # g[i]}
<1>1. ASSUME bad # {}
      PROVE  FALSE
  <2>1. PICK m \in bad : \A k \in bad : m <= k
    <3>1. bad \in SUBSET Nat
      OBVIOUS
    <3> HIDE DEF bad
    <3>2. QED
      BY <1>1, <3>1, LeastOf
  <2>2. m \in 1 .. n /\ f[m] # g[m]
    OBVIOUS
  <2>3. m # 1
    BY <2>2 DEF Joins
  <2>4. m - 1 \in 1 .. n /\ m - 1 \notin bad
    BY <2>1, <2>2, <2>3
  <2>5. QED
    BY <2>2, <2>3, <2>4 DEF Joins
<1>2. QED
  BY <1>1

LEMMA FlattenIs ==
  ASSUME NEW s, Len(s) # 0
  PROVE  FlattenSeq(s) =
           (CHOOSE f : f = [i \in 1 .. Len(s) |-> IF i = 1 THEN s[i] ELSE f[i - 1] \o s[i]])[Len(s)]
BY DEF FlattenSeq

LEMMA FlattenJoins ==
  ASSUME NEW R, NEW s \in Seq(Seq(R)), s # <<>>
  PROVE  \E f \in [1 .. Len(s) -> Seq(R)] : Joins(f, s, Len(s)) /\ FlattenSeq(s) = f[Len(s)]
<1> DEFINE h == CHOOSE f : f = [i \in 1 .. Len(s) |-> IF i = 1 THEN s[i] ELSE f[i - 1] \o s[i]]
<1>0. Len(s) \in Nat /\ Len(s) # 0 /\ Len(s) \in 1 .. Len(s)
  OBVIOUS
<1>1. PICK f \in [1 .. Len(s) -> Seq(R)] : Joins(f, s, Len(s))
  BY <1>0, JoinsThereAre
<1>2. f = [i \in 1 .. Len(s) |-> IF i = 1 THEN s[i] ELSE f[i - 1] \o s[i]]
  BY <1>1 DEF Joins
<1>3. h = [i \in 1 .. Len(s) |-> IF i = 1 THEN s[i] ELSE h[i - 1] \o s[i]]
  BY <1>2
<1>4. FlattenSeq(s) = h[Len(s)]
  BY <1>0, FlattenIs
<1> HIDE DEF h
<1>5. Joins(h, s, Len(s))
  BY <1>3 DEF Joins
<1>6. \A i \in 1 .. Len(s) : h[i] = f[i]
  BY <1>0, <1>1, <1>5, JoinsAlike
<1>7. h = f
  <2>1. DOMAIN h = 1 .. Len(s) /\ h = [i \in DOMAIN h |-> h[i]]
    BY <1>3
  <2>2. h = [i \in 1 .. Len(s) |-> h[i]] /\ f = [i \in 1 .. Len(s) |-> f[i]]
    BY <2>1
  <2>3. QED
    BY <1>6, <2>2
<1>8. QED
  BY <1>1, <1>4, <1>7

LEMMA FlattenEmpty == FlattenSeq(<<>>) = <<>>
BY DEF FlattenSeq

LEMMA JoinedThrice ==
  ASSUME NEW R, NEW a \in Seq(R), NEW b \in Seq(R), NEW c \in Seq(R)
  PROVE  (a \o b) \o c = a \o (b \o c) /\ a \o b \in Seq(R)
BY ConcatAssociative, ConcatProperties

LEMMA JoinsStep ==
  ASSUME NEW f, NEW s, NEW n \in Nat, Joins(f, s, n)
  PROVE  \A i \in 1 .. n : i + 1 \in 1 .. n => f[i + 1] = f[i] \o s[i + 1]
<1> SUFFICES ASSUME NEW i \in 1 .. n, i + 1 \in 1 .. n
             PROVE  f[i + 1] = f[i] \o s[i + 1]
  OBVIOUS
<1>1. i + 1 # 1 /\ i + 1 - 1 = i
  OBVIOUS
<1>2. \A k \in 1 .. n : f[k] = IF k = 1 THEN s[k] ELSE f[k - 1] \o s[k]
  BY DEF Joins
<1>3. f[i + 1] = IF i + 1 = 1 THEN s[i + 1] ELSE f[i + 1 - 1] \o s[i + 1]
  BY <1>2
<1>4. QED
  BY <1>1, <1>3

(* The last, and the first, of the sequences that are joined.              *)
LEMMA FlattenAppend ==
  ASSUME NEW R, NEW s \in Seq(Seq(R)), NEW x \in Seq(R)
  PROVE  FlattenSeq(Append(s, x)) = FlattenSeq(s) \o x /\ FlattenSeq(s) \in Seq(R)
<1> DEFINE t == Append(s, x)
<1>1. /\ t \in Seq(Seq(R)) /\ t # <<>> /\ Len(t) = Len(s) + 1 /\ t[Len(s) + 1] = x
      /\ Len(s) \in Nat /\ \A i \in 1 .. Len(s) : t[i] = s[i]
  BY AppendProperties
<1> HIDE DEF t
<1>2. PICK g \in [1 .. Len(t) -> Seq(R)] : Joins(g, t, Len(t)) /\ FlattenSeq(t) = g[Len(t)]
  BY <1>1, FlattenJoins
<1>3. CASE s = <<>>
  <2>1. Len(s) = 0
    BY <1>3
  <2>2. g[1] = x /\ Len(t) = 1
    BY <1>1, <1>2, <2>1 DEF Joins
  <2>3. FlattenSeq(t) = x /\ FlattenSeq(s) = <<>>
    BY <1>2, <1>3, <2>2, FlattenEmpty
  <2>4. <<>> \in Seq(R) /\ <<>> \o x = x
    BY ConcatEmptySeq
  <2>5. QED
    BY <2>3, <2>4 DEF t
<1>4. CASE s # <<>>
  <2>1. PICK f \in [1 .. Len(s) -> Seq(R)] : Joins(f, s, Len(s)) /\ FlattenSeq(s) = f[Len(s)]
    BY <1>4, FlattenJoins
  <2>2. Len(s) \in 1 .. Len(s)
    BY <1>4
  <2>3. Joins(g, s, Len(s))
    <3>1. \A i \in 1 .. Len(s) : i \in 1 .. Len(t) /\ t[i] = s[i]
      BY <1>1
    <3>2. QED
      BY <1>2, <3>1 DEF Joins
  <2>4. f[Len(s)] = g[Len(s)]
    <3>0. Len(s) \in Nat /\ Joins(f, s, Len(s))
      BY <1>1, <2>1
    <3>1. \A i \in 1 .. Len(s) : f[i] = g[i]
      BY <2>3, <3>0, JoinsAlike
    <3>2. QED
      BY <2>2, <3>1
  <2>5. g[Len(s) + 1] = g[Len(s)] \o x
    <3>1. Len(t) \in Nat /\ Len(s) \in 1 .. Len(t) /\ Len(s) + 1 \in 1 .. Len(t)
      BY <1>1, <2>2
    <3>2. \A i \in 1 .. Len(t) : i + 1 \in 1 .. Len(t) => g[i + 1] = g[i] \o t[i + 1]
      BY <1>2, <3>1, JoinsStep
    <3>3. QED
      BY <1>1, <3>1, <3>2
  <2>6. QED
    BY <1>1, <1>2, <2>1, <2>2, <2>4, <2>5 DEF t
<1>5. QED
  BY <1>3, <1>4

LEMMA FlattenTail ==
  ASSUME NEW R, NEW s \in Seq(Seq(R)), s # <<>>
  PROVE  FlattenSeq(s) = Head(s) \o FlattenSeq(Tail(s)) /\ FlattenSeq(Tail(s)) \in Seq(R)
<1>0. \A a, b, c \in Seq(R) : (a \o b) \o c = a \o (b \o c)
  BY JoinedThrice, SMTT(30)
<1> DEFINE t == Tail(s)
<1>1. /\ t \in Seq(Seq(R)) /\ Len(s) = Len(t) + 1 /\ Len(t) \in Nat
      /\ Head(s) = s[1] /\ s[1] \in Seq(R)
      /\ \A i \in 1 .. Len(t) : t[i] = s[i + 1]
  BY HeadTailProperties
<1> HIDE DEF t
<1>2. PICK f \in [1 .. Len(s) -> Seq(R)] : Joins(f, s, Len(s)) /\ FlattenSeq(s) = f[Len(s)]
  BY FlattenJoins
<1>3. f[1] = s[1]
  <2>1. 1 \in 1 .. Len(s)
    BY <1>1
  <2>2. QED
    BY <1>2, <2>1 DEF Joins
<1>4. CASE t = <<>>
  <2>1. Len(s) = 1 /\ FlattenSeq(t) = <<>>
    BY <1>1, <1>4, FlattenEmpty
  <2>2. FlattenSeq(s) = s[1]
    BY <1>2, <1>3, <2>1
  <2>3. s[1] \o <<>> = s[1] /\ <<>> \in Seq(R)
    BY <1>1, ConcatEmptySeq
  <2>4. QED
    BY <1>1, <2>1, <2>2, <2>3 DEF t
<1>5. CASE t # <<>>
  <2>1. PICK g \in [1 .. Len(t) -> Seq(R)] : Joins(g, t, Len(t)) /\ FlattenSeq(t) = g[Len(t)]
    BY <1>1, <1>5, FlattenJoins
  <2> DEFINE bad == {i \in 1 .. Len(t) : f[i + 1] # s[1] \o g[i]}
  <2>2. ASSUME bad # {}
        PROVE  FALSE
    <3>1. PICK m \in bad : \A k \in bad : m <= k
      <4>1. bad \in SUBSET Nat
        BY <1>1
      <4> HIDE DEF bad
      <4>2. QED
        BY <2>2, <4>1, LeastOf
    <3>2. m \in 1 .. Len(t) /\ f[m + 1] # s[1] \o g[m]
      OBVIOUS
    <3>3. f[m + 1] = f[m] \o s[m + 1] /\ s[m + 1] = t[m]
      <4>1. Len(s) \in Nat /\ m \in 1 .. Len(s) /\ m + 1 \in 1 .. Len(s)
        BY <1>1, <3>2
      <4>2. \A i \in 1 .. Len(s) : i + 1 \in 1 .. Len(s) => f[i + 1] = f[i] \o s[i + 1]
        BY <1>2, <4>1, JoinsStep
      <4>3. QED
        BY <1>1, <3>2, <4>1, <4>2
    <3>4. CASE m = 1
      <4>1. g[1] = t[1]
        BY <2>1, <3>2, <3>4 DEF Joins
      <4>2. QED
        BY <1>3, <3>2, <3>3, <3>4, <4>1
    <3>5. CASE m # 1
      <4>1. m - 1 \in 1 .. Len(t) /\ m - 1 \notin bad /\ m - 1 + 1 = m
        <5> HIDE DEF bad
        <5>1. QED
          BY <1>1, <3>1, <3>2, <3>5, SMTT(30)
      <4>2. f[m - 1 + 1] = s[1] \o g[m - 1]
        BY <4>1
      <4>3. g[m] = g[m - 1] \o t[m]
        BY <2>1, <3>2, <3>5 DEF Joins
      <4>4. g[m - 1] \in Seq(R)
        BY <2>1, <4>1
      <4>5. t[m] \in Seq(R)
        BY <1>1, <3>2
      <4>6. (s[1] \o g[m - 1]) \o t[m] = s[1] \o (g[m - 1] \o t[m])
        <5>1. PICK a \in Seq(R), b \in Seq(R), c \in Seq(R) : a = s[1] /\ b = g[m - 1] /\ c = t[m]
          BY <1>1, <4>4, <4>5
        <5> HIDE DEF bad
        <5>2. (a \o b) \o c = a \o (b \o c)
          BY <1>0, Zenon
        <5>3. QED
          BY <5>1, <5>2, Zenon
      <4>7. f[m] = s[1] \o g[m - 1]
        BY <4>1, <4>2
      <4>8. QED
        BY <3>2, <3>3, <4>3, <4>6, <4>7
    <3>6. QED
      BY <3>4, <3>5
  <2>3. Len(t) \in 1 .. Len(t)
    BY <1>1, <1>5
  <2>4. f[Len(t) + 1] = s[1] \o g[Len(t)]
    BY <2>2, <2>3
  <2>5. FlattenSeq(t) \in Seq(R)
    BY <2>1, <2>3
  <2>6. QED
    BY <1>1, <1>2, <2>1, <2>4, <2>5 DEF t
<1>6. QED
  BY <1>4, <1>5
-----------------------------------------------------------------------------
(* What the lines that wait to be read will be answered with.              *)
Codes == {"json", "text"}
Replies(lines) == [i \in 1 .. Len(lines) |-> Reply(lines[i])]
Asked(lines) == FlattenSeq(Replies(lines))

LEMMA ReplyIs == \A kind : Reply(kind) \in Seq(Codes)
<1>1. <<>> \in Seq(Codes) /\ <<"json">> \in Seq(Codes) /\ <<"text">> \in Seq(Codes)
  BY DEF Codes
<1>2. QED
  BY <1>1 DEF Reply

LEMMA RepliesAre ==
  ASSUME NEW lines \in Seq(Kinds)
  PROVE  Replies(lines) \in Seq(Seq(Codes)) /\ Len(Replies(lines)) = Len(lines)
BY ReplyIs DEF Replies

LEMMA AskedAppend ==
  ASSUME NEW lines \in Seq(Kinds), NEW kind \in Kinds
  PROVE  Asked(Append(lines, kind)) = Asked(lines) \o Reply(kind) /\ Asked(lines) \in Seq(Codes)
<1>1. Replies(Append(lines, kind)) = Append(Replies(lines), Reply(kind))
  <2>1. Append(lines, kind) \in Seq(Kinds) /\ Len(Append(lines, kind)) = Len(lines) + 1
    OBVIOUS
  <2>2. /\ Append(Replies(lines), Reply(kind)) \in Seq(Seq(Codes))
        /\ Len(Append(Replies(lines), Reply(kind))) = Len(lines) + 1
    BY ReplyIs, RepliesAre
  <2>3. ASSUME NEW i \in 1 .. Len(lines) + 1
        PROVE  Replies(Append(lines, kind))[i] = Append(Replies(lines), Reply(kind))[i]
    <3>1. Replies(Append(lines, kind))[i] = Reply(Append(lines, kind)[i])
      BY <2>1 DEF Replies
    <3>2. CASE i = Len(lines) + 1
      BY <3>1, <3>2, ReplyIs, RepliesAre
    <3>3. CASE i # Len(lines) + 1
      <4>1. i \in 1 .. Len(lines) /\ Append(lines, kind)[i] = lines[i]
        BY <3>3
      <4>2. Append(Replies(lines), Reply(kind))[i] = Replies(lines)[i]
        BY <4>1, ReplyIs, RepliesAre
      <4>3. Replies(lines)[i] = Reply(lines[i])
        BY <4>1 DEF Replies
      <4>4. QED
        BY <3>1, <4>1, <4>2, <4>3
    <3>4. QED
      BY <3>2, <3>3
  <2>4. Replies(Append(lines, kind)) \in Seq(Seq(Codes))
    BY <2>1, RepliesAre
  <2>5. Len(Replies(Append(lines, kind))) = Len(lines) + 1
    BY <2>1, RepliesAre
  <2>6. QED
    BY <2>2, <2>3, <2>4, <2>5, SeqEqual
<1>2. QED
  BY <1>1, ReplyIs, RepliesAre, FlattenAppend DEF Asked

LEMMA AskedTail ==
  ASSUME NEW lines \in Seq(Kinds), lines # <<>>
  PROVE  Asked(lines) = Reply(Head(lines)) \o Asked(Tail(lines)) /\ Asked(Tail(lines)) \in Seq(Codes)
<1>1. /\ Replies(lines) # <<>> /\ Head(Replies(lines)) = Reply(Head(lines))
      /\ Replies(lines) \in Seq(Seq(Codes))
  BY RepliesAre DEF Replies
<1>2. Tail(Replies(lines)) = Replies(Tail(lines))
  <2>1. Tail(lines) \in Seq(Kinds) /\ Len(Tail(lines)) = Len(lines) - 1
    OBVIOUS
  <2>2. /\ Tail(Replies(lines)) \in Seq(Seq(Codes))
        /\ Len(Tail(Replies(lines))) = Len(lines) - 1
    BY <1>1, RepliesAre
  <2>3. ASSUME NEW i \in 1 .. Len(lines) - 1
        PROVE  Tail(Replies(lines))[i] = Replies(Tail(lines))[i]
    <3>1. i + 1 \in 1 .. Len(lines) /\ Tail(lines)[i] = lines[i + 1] /\ i \in 1 .. Len(Tail(lines))
      BY <2>1
    <3>2. Replies(Tail(lines))[i] = Reply(lines[i + 1])
      BY <3>1 DEF Replies
    <3>3. Replies(lines)[i + 1] = Reply(lines[i + 1])
      BY <3>1 DEF Replies
    <3>4. Tail(Replies(lines))[i] = Replies(lines)[i + 1]
      BY <1>1, <3>1, RepliesAre
    <3>5. QED
      BY <3>2, <3>3, <3>4
  <2>4. Replies(Tail(lines)) \in Seq(Seq(Codes))
    BY <2>1, RepliesAre
  <2>5. Len(Replies(Tail(lines))) = Len(lines) - 1
    BY <2>1, RepliesAre
  <2>6. QED
    BY <2>2, <2>3, <2>4, <2>5, SeqEqual
<1>3. QED
  BY <1>1, <1>2, FlattenTail DEF Asked

LEMMA AskedIs ==
  ASSUME NEW lines \in Seq(Kinds)
  PROVE  Asked(lines) \in Seq(Codes)
<1>1. <<>> \in Seq(Codes) /\ Replies(lines) \in Seq(Seq(Codes))
  BY RepliesAre
<1>2. QED
  BY <1>1, FlattenAppend DEF Asked

LEMMA TailJoined ==
  ASSUME NEW a \in Seq(Codes), NEW b \in Seq(Codes), a # <<>>
  PROVE  /\ Tail(a \o b) = Tail(a) \o b /\ Tail(a) \in Seq(Codes)
         /\ a \o b # <<>> /\ a \o b \in Seq(Codes)
<1>1. Len(a) \in Nat \ {0} /\ Len(b) \in Nat /\ Tail(a) \in Seq(Codes) /\ Len(Tail(a)) = Len(a) - 1
  OBVIOUS
<1>2. a \o b \in Seq(Codes) /\ Len(a \o b) = Len(a) + Len(b) /\ a \o b # <<>>
  BY <1>1
<1>3. Tail(a \o b) \in Seq(Codes) /\ Len(Tail(a \o b)) = Len(a) + Len(b) - 1
  BY <1>1, <1>2
<1>4. Tail(a) \o b \in Seq(Codes) /\ Len(Tail(a) \o b) = Len(a) + Len(b) - 1
  BY <1>1
<1>5. ASSUME NEW i \in 1 .. Len(a) + Len(b) - 1
      PROVE  Tail(a \o b)[i] = (Tail(a) \o b)[i]
  <2>1. Tail(a \o b)[i] = (a \o b)[i + 1]
    BY <1>1, <1>2
  <2>2. CASE i <= Len(a) - 1
    <3>1. (a \o b)[i + 1] = a[i + 1] /\ (Tail(a) \o b)[i] = a[i + 1]
      BY <1>1, <2>2
    <3>2. QED
      BY <2>1, <3>1
  <2>3. CASE ~(i <= Len(a) - 1)
    <3>1. (a \o b)[i + 1] = b[i + 1 - Len(a)]
      BY <1>1, <2>3
    <3>2. (Tail(a) \o b)[i] = b[i - (Len(a) - 1)]
      BY <1>1, <2>3
    <3>3. i + 1 - Len(a) = i - (Len(a) - 1)
      BY <1>1
    <3>4. QED
      BY <2>1, <3>1, <3>2, <3>3
  <2>4. QED
    BY <2>2, <2>3
<1>6. QED
  BY <1>1, <1>2, <1>3, <1>4, <1>5, SeqEqual

LEMMA AskedNothing == Asked(<<>>) = <<>>
<1>1. Replies(<<>>) = <<>>
  BY DEF Replies
<1>2. QED
  BY <1>1, FlattenEmpty DEF Asked
-----------------------------------------------------------------------------
(* What a client is owed of what is on its way; and only the talker talks. *)
InStepAt(c) ==
  loop[c] # At("closed") => owed[c] = down[c] \o BeingServed(c) \o Asked(up[c])
WireInv ==
  /\ Inv /\ level <= Burst
  /\ down \in [Conns -> Seq(Codes)] /\ owed \in [Conns -> Seq(Codes)]
StepInv == WireInv /\ \A c \in Conns : InStepAt(c)

LEMMA StepInvIs == StepInv => InStep
BY DEF StepInv, InStepAt, InStep, Asked, Replies

LEMMA ServedIs ==
  ASSUME NEW c
  PROVE  BeingServed(c) \in Seq(Codes) /\ (loop[c].at # "serving" => BeingServed(c) = <<>>)
<1>1. <<>> \in Seq(Codes)
  OBVIOUS
<1>2. QED
  BY <1>1, ReplyIs DEF BeingServed

LEMMA PlaceIs ==
  /\ At("top").at = "top" /\ At("reading").at = "reading" /\ At("closed").at = "closed"
  /\ \A n : Asleep(n).at = "asleep"
  /\ \A kind : Serving(kind).at = "serving" /\ Serving(kind).kind = kind
BY DEF At, Asleep, Serving

(* Where nothing happens, nothing changes.                                 *)
LEMMA Elsewhere ==
  ASSUME NEW c \in Conns, InStepAt(c),
         up'[c] = up[c], down'[c] = down[c], loop'[c] = loop[c], owed'[c] = owed[c]
  PROVE  InStepAt(c)'
BY DEF InStepAt, BeingServed

(* Where the loop of a connection only comes to another place.             *)
LEMMA Moves ==
  ASSUME NEW c \in Conns, InStepAt(c), loop[c] # At("closed"), loop[c].at # "serving",
         loop'[c].at # "serving",
         up'[c] = up[c], down'[c] = down[c], owed'[c] = owed[c]
  PROVE  InStepAt(c)'
<1>1. BeingServed(c) = <<>> /\ BeingServed(c)' = <<>>
  BY DEF BeingServed
<1>2. QED
  BY <1>1 DEF InStepAt

LEMMA SendStep ==
  ASSUME StepInv, NEW c \in Conns, NEW kind \in Kinds, Send(c, kind)
  PROVE  InStepAt(c)'
<1>1. /\ up[c] \in Seq(Kinds) /\ up'[c] = Append(up[c], kind)
      /\ owed'[c] = owed[c] \o Reply(kind) /\ UNCHANGED <<down, loop>>
  BY DEF Send, StepInv, WireInv, Inv
<1>2. BeingServed(c)' = BeingServed(c)
  BY <1>1 DEF BeingServed
<1>3. PICK a \in Seq(Codes), b \in Seq(Codes), d \in Seq(Codes) :
        a = down[c] \o BeingServed(c) /\ b = Asked(up[c]) /\ d = Reply(kind)
  <2>1. down[c] \in Seq(Codes) /\ BeingServed(c) \in Seq(Codes)
    BY ServedIs DEF StepInv, WireInv
  <2>2. down[c] \o BeingServed(c) \in Seq(Codes)
    BY <2>1
  <2>3. QED
    BY <1>1, <2>2, AskedAppend, ReplyIs
<1>4. (a \o b) \o d = a \o (b \o d)
  BY JoinedThrice
<1>5. Asked(up'[c]) = b \o d
  BY <1>1, <1>3, AskedAppend
<1>6. owed[c] = a \o b
  BY <1>3 DEF StepInv, InStepAt, Send
<1>7. QED
  BY <1>1, <1>2, <1>3, <1>4, <1>5, <1>6 DEF InStepAt

LEMMA ReceiveStep ==
  ASSUME StepInv, NEW c \in Conns, Receive(c)
  PROVE  InStepAt(c)'
<1>1. /\ down[c] \in Seq(Codes) /\ down[c] # <<>> /\ down'[c] = Tail(down[c])
      /\ owed'[c] = Tail(owed[c]) /\ UNCHANGED <<up, loop>>
  BY DEF Receive, StepInv, WireInv
<1>2. BeingServed(c)' = BeingServed(c)
  BY <1>1 DEF BeingServed
<1>3. SUFFICES ASSUME loop[c] # At("closed")
               PROVE  owed'[c] = down'[c] \o BeingServed(c) \o Asked(up[c])
  BY <1>1, <1>2 DEF InStepAt
<1>4. PICK a \in Seq(Codes), b \in Seq(Codes), d \in Seq(Codes) :
        a = down[c] /\ b = BeingServed(c) /\ d = Asked(up[c])
  <2>1. up[c] \in Seq(Kinds)
    BY DEF StepInv, WireInv, Inv
  <2>2. Asked(up[c]) \in Seq(Codes)
    BY <2>1, AskedIs
  <2>3. QED
    BY <1>1, <2>2, ServedIs
<1>5. Tail(a \o b \o d) = Tail(a) \o b \o d
  <2>1. a # <<>>
    BY <1>1, <1>4
  <2>2. Tail(a) \in Seq(Codes) /\ Tail(a \o b) = Tail(a) \o b /\ a \o b # <<>> /\ a \o b \in Seq(Codes)
    BY <2>1, TailJoined
  <2>3. Tail((a \o b) \o d) = Tail(a \o b) \o d
    BY <2>2, TailJoined
  <2>4. QED
    BY <2>2, <2>3
<1>6. owed[c] = a \o b \o d
  BY <1>3, <1>4 DEF StepInv, InStepAt
<1>7. QED
  BY <1>1, <1>4, <1>5, <1>6

(* What was asked for by the line that is read is now being served.        *)
LEMMA ReadStep ==
  ASSUME StepInv, NEW c \in Conns, Read(c)
  PROVE  InStepAt(c)'
<1>1. /\ up[c] \in Seq(Kinds) /\ up[c] # <<>> /\ up'[c] = Tail(up[c]) /\ UNCHANGED owed
      /\ loop[c] = At("reading")
  BY DEF Read, StepInv, WireInv, Inv
<1>2. loop[c] # At("closed") /\ BeingServed(c) = <<>>
  BY <1>1, PlaceIs DEF BeingServed
<1>3. /\ Asked(up[c]) = Reply(Head(up[c])) \o Asked(up'[c])
      /\ Asked(up'[c]) \in Seq(Codes) /\ Reply(Head(up[c])) \in Seq(Codes)
      /\ down[c] \in Seq(Codes)
  BY <1>1, AskedTail, ReplyIs DEF StepInv, WireInv
<1>4. owed[c] = down[c] \o (Reply(Head(up[c])) \o Asked(up'[c]))
  <2>1. owed[c] = down[c] \o BeingServed(c) \o Asked(up[c])
    BY <1>2 DEF StepInv, InStepAt
  <2>2. down[c] \o <<>> = down[c]
    BY <1>3
  <2>3. QED
    BY <1>2, <1>3, <2>1, <2>2
<1>5. owed[c] = down[c] \o Reply(Head(up[c])) \o Asked(up'[c])
  <2>1. PICK a \in Seq(Codes), b \in Seq(Codes), d \in Seq(Codes) :
          a = down[c] /\ b = Reply(Head(up[c])) /\ d = Asked(up'[c])
    BY <1>3
  <2>2. (a \o b) \o d = a \o (b \o d)
    BY JoinedThrice
  <2>3. QED
    BY <1>4, <2>1, <2>2
<1>6. CASE Head(up[c]) = "long"
  BY <1>6 DEF Read, StepInv, WireInv, Inv, InStepAt
<1>7. CASE Head(up[c]) # "long"
  <2>1. UNCHANGED down /\ loop'[c] = IF Head(up[c]) = "blank" THEN AfterBlank ELSE Serving(Head(up[c]))
    BY <1>7 DEF Read, StepInv, WireInv, Inv
  <2>2. BeingServed(c)' = Reply(Head(up[c]))
    <3>1. CASE Head(up[c]) = "blank"
      <4>1. loop'[c].at = "top"
        BY <2>1, <3>1, PlaceIs DEF AfterBlank
      <4>2. BeingServed(c)' = <<>> /\ Reply(Head(up[c])) = <<>>
        BY <3>1, <4>1 DEF BeingServed, Reply
      <4>3. QED
        BY <4>2
    <3>2. CASE Head(up[c]) # "blank"
      BY <2>1, <3>2, PlaceIs DEF BeingServed
    <3>3. QED
      BY <3>1, <3>2
  <2>3. QED
    BY <1>1, <1>5, <2>1, <2>2 DEF InStepAt
<1>8. QED
  BY <1>6, <1>7

LEMMA AnsweredIs == \A kind : Answered(kind) = Reply(kind)
BY DEF Answered, Reply

LEMMA ServeStep ==
  ASSUME StepInv, NEW c \in Conns, Serve(c)
  PROVE  InStepAt(c)'
<1>1. /\ loop[c].at = "serving" /\ UNCHANGED <<up, owed>>
      /\ down'[c] = down[c] \o Reply(loop[c].kind) /\ loop'[c] = At("top")
  BY AnsweredIs DEF Serve, StepInv, WireInv, Inv
<1>2. loop[c] # At("closed") /\ BeingServed(c) = Reply(loop[c].kind) /\ BeingServed(c)' = <<>>
  BY <1>1, PlaceIs DEF BeingServed
<1>3. down[c] \o Reply(loop[c].kind) \in Seq(Codes)
  <2>1. down[c] \in Seq(Codes) /\ Reply(loop[c].kind) \in Seq(Codes)
    BY ReplyIs DEF StepInv, WireInv
  <2>2. QED
    BY <2>1
<1>4. down'[c] \o <<>> = down[c] \o Reply(loop[c].kind)
  BY <1>1, <1>3
<1>5. owed[c] = down[c] \o BeingServed(c) \o Asked(up[c])
  BY <1>2 DEF StepInv, InStepAt
<1>6. QED
  BY <1>1, <1>2, <1>4, <1>5 DEF InStepAt

(* The types of what is on the wire, and the budget.                       *)
LEMMA WireStep == WireInv /\ [Next]_vars => WireInv'
<1> SUFFICES ASSUME WireInv, [Next]_vars PROVE WireInv'
  OBVIOUS
<1>0. Inv' /\ Burst \in Nat /\ level \in Int /\ level' \in Int /\ level <= Burst
  BY NextInv, Constants DEF WireInv, Inv
<1>1. level' <= Burst
  <2>1. ASSUME NEW c \in Conns, Read(c) \/ Serve(c) PROVE level' <= level
    <3>1. CASE Read(c)
      BY <1>0, <3>1 DEF Read
    <3>2. CASE Serve(c)
      <4>1. PICK cost \in 0 .. MaxLine - 1 : level' = level - cost
        BY <3>2, Constants DEF Serve
      <4>2. QED
        BY <1>0, <4>1, Constants
    <3>3. QED
      BY <2>1, <3>1, <3>2
  <2>2. ASSUME NEW c \in Conns,
               \/ \E kind \in Kinds : Send(c, kind)
               \/ Receive(c) \/ Wait(c) \/ Wake(c) \/ ServeBreaks(c) \/ HangUp(c)
        PROVE  level' <= level
    <3>1. level' = level
      BY <2>2 DEF Send, Receive, Wait, Wake, ServeBreaks, HangUp
    <3>2. QED
      BY <1>0, <3>1
  <2>3. ASSUME Tick PROVE level' <= Burst
    BY <1>0, <2>3 DEF Tick, Refilled
  <2>4. ASSUME Think \/ TurnBreaks \/ UNCHANGED vars PROVE level' <= level
    BY <1>0, <2>4 DEF Think, TurnBreaks, vars, wire
  <2>5. level' <= Burst \/ level' <= level
    BY <1>0, <2>1, <2>2, <2>3, <2>4 DEF Next
  <2>6. QED
    BY <1>0, <2>5
<1>2. down' \in [Conns -> Seq(Codes)] /\ owed' \in [Conns -> Seq(Codes)]
  <2>1. ASSUME NEW c \in Conns, NEW kind \in Kinds, Send(c, kind)
        PROVE  down' \in [Conns -> Seq(Codes)] /\ owed' \in [Conns -> Seq(Codes)]
    <3>1. owed[c] \o Reply(kind) \in Seq(Codes)
      <4>1. owed[c] \in Seq(Codes) /\ Reply(kind) \in Seq(Codes)
        BY ReplyIs DEF WireInv
      <4>2. QED
        BY <4>1
    <3>2. QED
      BY <2>1, <3>1 DEF Send, WireInv
  <2>2. ASSUME NEW c \in Conns, Receive(c)
        PROVE  down' \in [Conns -> Seq(Codes)] /\ owed' \in [Conns -> Seq(Codes)]
    <3>1. Tail(down[c]) \in Seq(Codes) /\ Tail(owed[c]) \in Seq(Codes)
      BY <2>2 DEF Receive, WireInv
    <3>2. QED
      BY <2>2, <3>1 DEF Receive, WireInv
  <2>3. ASSUME NEW c \in Conns, Read(c)
        PROVE  down' \in [Conns -> Seq(Codes)] /\ owed' \in [Conns -> Seq(Codes)]
    <3>1. Append(down[c], "json") \in Seq(Codes)
      BY DEF WireInv, Codes
    <3>2. QED
      BY <2>3, <3>1 DEF Read, WireInv
  <2>4. ASSUME NEW c \in Conns, Serve(c)
        PROVE  down' \in [Conns -> Seq(Codes)] /\ owed' \in [Conns -> Seq(Codes)]
    <3>1. down[c] \o Reply(loop[c].kind) \in Seq(Codes)
      <4>1. down[c] \in Seq(Codes) /\ Reply(loop[c].kind) \in Seq(Codes)
        BY ReplyIs DEF WireInv
      <4>2. QED
        BY <4>1
    <3>2. UNCHANGED owed /\ down' = [down EXCEPT ![c] = @ \o Reply(loop[c].kind)]
      BY <2>4, AnsweredIs DEF Serve
    <3>3. QED
      BY <3>1, <3>2 DEF WireInv
  <2>5. ASSUME NEW c \in Conns, Wait(c) \/ Wake(c) \/ ServeBreaks(c) \/ HangUp(c)
        PROVE  down' \in [Conns -> Seq(Codes)] /\ owed' \in [Conns -> Seq(Codes)]
    BY <2>5 DEF Wait, Wake, ServeBreaks, HangUp, WireInv
  <2>6. CASE Tick \/ Think \/ TurnBreaks \/ UNCHANGED vars
    BY <2>6 DEF Tick, Think, TurnBreaks, vars, wire, WireInv
  <2>7. QED
    BY <2>1, <2>2, <2>3, <2>4, <2>5, <2>6 DEF Next
<1>3. QED
  BY <1>0, <1>1, <1>2 DEF WireInv

LEMMA StepStep == StepInv /\ [Next]_vars => StepInv'
<1> SUFFICES ASSUME StepInv, [Next]_vars PROVE StepInv'
  OBVIOUS
<1>0. WireInv' /\ \A c \in Conns : InStepAt(c)
  BY WireStep DEF StepInv
<1>1. ASSUME NEW c \in Conns, NEW d \in Conns,
             up'[c] = up[c], down'[c] = down[c], loop'[c] = loop[c], owed'[c] = owed[c]
      PROVE  InStepAt(c)'
  BY <1>0, <1>1, Elsewhere
<1>2. ASSUME NEW d \in Conns,
             \/ \E kind \in Kinds : Send(d, kind)
             \/ Receive(d) \/ Wait(d) \/ Wake(d) \/ Read(d) \/ Serve(d) \/ ServeBreaks(d) \/ HangUp(d)
      PROVE  \A c \in Conns : InStepAt(c)'
  <2>1. ASSUME NEW c \in Conns, c # d
        PROVE  up'[c] = up[c] /\ down'[c] = down[c] /\ loop'[c] = loop[c] /\ owed'[c] = owed[c]
    <3>1. CASE \E kind \in Kinds : Send(d, kind)
      BY <2>1, <3>1 DEF Send, StepInv, WireInv, Inv
    <3>2. CASE Receive(d)
      BY <2>1, <3>2 DEF Receive, StepInv, WireInv, Inv
    <3>3. CASE Wait(d) \/ Wake(d)
      BY <2>1, <3>3 DEF Wait, Wake, StepInv, WireInv, Inv
    <3>4. CASE Read(d)
      BY <2>1, <3>4 DEF Read, StepInv, WireInv, Inv
    <3>5. CASE Serve(d)
      BY <2>1, <3>5 DEF Serve, StepInv, WireInv, Inv
    <3>6. CASE ServeBreaks(d) \/ HangUp(d)
      BY <2>1, <3>6 DEF ServeBreaks, HangUp, StepInv, WireInv, Inv
    <3>7. QED
      BY <1>2, <3>1, <3>2, <3>3, <3>4, <3>5, <3>6
  <2>2. InStepAt(d)'
    <3>1. CASE Wait(d) \/ Wake(d)
      <4>1. UNCHANGED <<up, down, owed>> /\ loop[d] # At("closed") /\ loop[d].at # "serving"
        BY <3>1, PlaceIs DEF Wait, Wake
      <4>2. loop'[d] = Waited \/ loop'[d] = Woken
        BY <3>1 DEF Wait, Wake, StepInv, WireInv, Inv
      <4>3. loop'[d].at # "serving"
        BY <4>2, PlaceIs DEF Waited, Woken
      <4>4. QED
        BY <1>0, <4>1, <4>3, Moves
    <3>2. CASE ServeBreaks(d) \/ HangUp(d)
      <4>1. loop'[d] = At("closed")
        BY <3>2 DEF ServeBreaks, HangUp, StepInv, WireInv, Inv
      <4>2. QED
        BY <4>1 DEF InStepAt
    <3>3. QED
      BY <1>2, <3>1, <3>2, SendStep, ReceiveStep, ReadStep, ServeStep
  <2>3. QED
    BY <1>1, <2>1, <2>2
<1>3. ASSUME Tick, NEW c \in Conns
      PROVE  InStepAt(c)'
  <2>1. UNCHANGED <<up, down, owed>>
    BY <1>3 DEF Tick
  <2>2. CASE loop[c].at = "asleep"
    <3>1. loop'[c].at = "asleep" /\ loop[c] # At("closed")
      BY <1>3, <2>2, PlaceIs DEF Tick
    <3>2. QED
      BY <1>0, <2>1, <2>2, <3>1, Moves
  <2>3. CASE loop[c].at # "asleep"
    <3>1. loop'[c] = loop[c]
      BY <1>3, <2>3 DEF Tick
    <3>2. QED
      BY <1>1, <2>1, <3>1
  <2>4. QED
    BY <2>2, <2>3
<1>4. ASSUME Think \/ TurnBreaks \/ UNCHANGED vars, NEW c \in Conns
      PROVE  InStepAt(c)'
  <2>1. UNCHANGED <<up, down, owed, loop>>
    BY <1>4 DEF Think, TurnBreaks, vars, wire
  <2>2. QED
    BY <1>1, <2>1
<1>5. \A c \in Conns : InStepAt(c)'
  BY <1>2, <1>3, <1>4 DEF Next
<1>6. QED
  BY <1>0, <1>5 DEF StepInv

LEMMA StepStarts == Init => StepInv
<1> SUFFICES ASSUME Init PROVE StepInv
  OBVIOUS
<1>1. <<>> \in Seq(Codes) /\ <<"json">> \in Seq(Codes) /\ <<>> \in Seq(Kinds)
  BY DEF Codes
<1>2. WireInv
  <2>1. Inv /\ level <= Burst
    BY InitInv, Constants DEF Init
  <2>2. owed = [c \in Conns |-> <<>>] /\ \A c \in Conns : down[c] \in {<<>>, <<"json">>}
    BY DEF Init
  <2>3. down = [c \in Conns |-> down[c]]
    BY DEF Init
  <2>4. QED
    BY <1>1, <2>1, <2>2, <2>3 DEF WireInv
<1>3. ASSUME NEW c \in Conns, loop[c] # At("closed")
      PROVE  owed[c] = down[c] \o BeingServed(c) \o Asked(up[c])
  <2>1. down[c] = <<>> /\ owed[c] = <<>> /\ up[c] = <<>> /\ loop[c] = At("top")
    BY <1>3 DEF Init
  <2>2. BeingServed(c) = <<>> /\ Asked(up[c]) = <<>>
    BY <2>1, PlaceIs, AskedNothing DEF BeingServed
  <2>3. QED
    BY <2>1, <2>2
<1>4. QED
  BY <1>2, <1>3 DEF StepInv, InStepAt

(* A client is owed just what is on the wire for it, being served or asked *)
(* for by the lines ahead, in that order, so matching replies to requests  *)
(* by their order alone is enough (drpc/server.py:29-30, client.py:42-55); *)
(* whatever the lines, however many are sent ahead and whatever fails.     *)
THEOREM StaysInStep == Spec => []InStep
<1>1. Init => StepInv
  BY StepStarts
<1>2. StepInv /\ [Next]_vars => StepInv'
  BY StepStep
<1>3. StepInv => InStep
  BY StepInvIs
<1> QED BY <1>1, <1>2, <1>3, PTL DEF Spec
-----------------------------------------------------------------------------
(* A conversation does with the interpreter what the interpreter's own     *)
(* specification allows, so what is proved of that holds of it.            *)
THEOREM Interprets == Spec => InterpreterSpec
<1>1. Init => InterpreterInit
  BY DEF Init
<1>2. [Next]_vars => [Hear \/ TurnGoesOn \/ ToolBreaks]_interpreter
  <2> SUFFICES ASSUME [Next]_vars PROVE [Hear \/ TurnGoesOn \/ ToolBreaks]_interpreter
    OBVIOUS
  <2>1. ASSUME NEW c \in Conns,
               \/ \E kind \in Kinds : Send(c, kind)
               \/ Receive(c) \/ Wait(c) \/ Wake(c) \/ Serve(c) \/ ServeBreaks(c) \/ HangUp(c)
        PROVE  UNCHANGED interpreter
    BY <2>1 DEF Send, Receive, Wait, Wake, Serve, ServeBreaks, HangUp
  <2>2. ASSUME NEW c \in Conns, Read(c)
        PROVE  Hear \/ UNCHANGED interpreter
    BY <2>2 DEF Read
  <2>3. ASSUME Tick \/ UNCHANGED vars
        PROVE  UNCHANGED interpreter
    BY <2>3 DEF Tick, vars
  <2>4. ASSUME Think \/ TurnBreaks
        PROVE  TurnGoesOn \/ ToolBreaks
    BY <2>4 DEF Think, TurnBreaks
  <2>5. QED
    BY <2>1, <2>2, <2>3, <2>4 DEF Next
<1>3. QED
  BY <1>1, <1>2, PTL DEF Spec, InterpreterSpec

(* Only the talker speaks English, and only its lines start turns.         *)
TalkInv ==
  /\ \A c \in Conns : \A i \in 1 .. Len(up[c]) : up[c][i] = "text" => c = Talker
  /\ turn # Resting => loop[Talker] = Serving("text")

LEMMA TalkStep == Inv /\ TalkInv /\ [Next]_vars => TalkInv'
<1> SUFFICES ASSUME Inv, TalkInv, [Next]_vars PROVE TalkInv'
  OBVIOUS
<1>0. Talker \in Conns
  BY ConverseConstants DEF ConverseConstants
<1>1. ASSUME NEW c \in Conns, NEW kind \in Kinds, Send(c, kind) PROVE TalkInv'
  <2>1. UNCHANGED <<loop, turn>>
    BY <1>1 DEF Send, interpreter
  <2>2. ASSUME NEW d \in Conns, NEW i \in 1 .. Len(up'[d]), up'[d][i] = "text"
        PROVE  d = Talker
    <3>1. up[d] \in Seq(Kinds)
      BY DEF Inv
    <3>2. CASE d = c
      <4>1. up'[d] = Append(up[d], kind)
        BY <1>1, <3>2 DEF Send, Inv
      <4>2. CASE i = Len(up[d]) + 1
        BY <1>1, <2>2, <3>1, <3>2, <4>1, <4>2 DEF Send
      <4>3. CASE i # Len(up[d]) + 1
        <5>1. i \in 1 .. Len(up[d]) /\ up[d][i] = "text"
          BY <2>2, <3>1, <4>1, <4>3
        <5>2. QED
          BY <5>1 DEF TalkInv
      <4>4. QED
        BY <4>2, <4>3
    <3>3. CASE d # c
      <4>1. up'[d] = up[d]
        BY <1>1, <3>3 DEF Send, Inv
      <4>2. QED
        BY <2>2, <4>1 DEF TalkInv
    <3>4. QED
      BY <3>2, <3>3
  <2>3. QED
    BY <2>1, <2>2 DEF TalkInv
<1>2. ASSUME NEW c \in Conns, Receive(c) PROVE TalkInv'
  BY <1>2 DEF Receive, TalkInv, interpreter
<1>3. ASSUME NEW c \in Conns, Wait(c) \/ Wake(c) \/ Serve(c) \/ ServeBreaks(c) \/ HangUp(c) PROVE TalkInv'
  <2>1. UNCHANGED <<up, turn>>
    BY <1>3 DEF Wait, Wake, Serve, ServeBreaks, HangUp, interpreter
  <2>2. ASSUME turn # Resting PROVE c # Talker
    <3>1. loop[Talker] = Serving("text")
      BY <2>2 DEF TalkInv
    <3>2. QED
      <4>1. loop[Talker].at = "serving" /\ loop[Talker].kind = "text"
        BY <3>1, PlaceIs
      <4>2. ~ (Serve(Talker) \/ ServeBreaks(Talker))
        BY <2>2, <4>1 DEF Serve, Ready, ServeBreaks
      <4>3. ~ (Wait(Talker) \/ Wake(Talker) \/ HangUp(Talker))
        BY <4>1, PlaceIs DEF Wait, Wake, HangUp
      <4>4. QED
        BY <1>3, <4>2, <4>3
  <2>3. \A d \in Conns : d # c => loop'[d] = loop[d]
    BY <1>3 DEF Wait, Wake, Serve, ServeBreaks, HangUp, Inv
  <2>4. QED
    BY <1>0, <2>1, <2>2, <2>3 DEF TalkInv
<1>4. ASSUME NEW c \in Conns, Read(c) PROVE TalkInv'
  <2>1. /\ up[c] \in Seq(Kinds) /\ up[c] # <<>> /\ up' = [up EXCEPT ![c] = Tail(@)]
        /\ loop[c] = At("reading")
    BY <1>4 DEF Read, Inv
  <2>2. ASSUME NEW d \in Conns, NEW i \in 1 .. Len(up'[d]), up'[d][i] = "text"
        PROVE  d = Talker
    <3>1. CASE d = c
      <4>1. up'[d] = Tail(up[d])
        BY <2>1, <3>1 DEF Inv
      <4>2. i + 1 \in 1 .. Len(up[d]) /\ up[d][i + 1] = "text"
        <5>1. up[d] \in Seq(Kinds) /\ up[d] # <<>> /\ i \in 1 .. Len(Tail(up[d]))
          BY <2>1, <3>1, <4>1
        <5>2. i + 1 \in 1 .. Len(up[d]) /\ Tail(up[d])[i] = up[d][i + 1]
          BY <5>1
        <5>3. QED
          BY <2>2, <4>1, <5>2
      <4>3. QED
        BY <4>2 DEF TalkInv
    <3>2. CASE d # c
      <4>1. up'[d] = up[d]
        BY <2>1, <3>2 DEF Inv
      <4>2. QED
        BY <2>2, <4>1 DEF TalkInv
    <3>3. QED
      BY <3>1, <3>2
  <2>3. ASSUME turn' # Resting PROVE loop'[Talker] = Serving("text")
    <3>1. CASE UNCHANGED interpreter
      <4>1. loop[Talker] = Serving("text")
        BY <2>3, <3>1 DEF interpreter, TalkInv
      <4>2. c # Talker
        BY <2>1, <4>1, PlaceIs
      <4>3. QED
        BY <1>0, <1>4, <4>1, <4>2 DEF Read, Inv
    <3>2. CASE ~ UNCHANGED interpreter
      <4>1. Head(up[c]) = "text"
        BY <1>4, <3>2 DEF Read
      <4>2. c = Talker
        <5>1. 1 \in 1 .. Len(up[c]) /\ up[c][1] = "text"
          BY <2>1, <4>1
        <5>2. QED
          BY <5>1 DEF TalkInv
      <4>3. QED
        BY <1>4, <4>1, <4>2 DEF Read, Inv
    <3>3. QED
      BY <3>1, <3>2
  <2>4. QED
    BY <2>2, <2>3 DEF TalkInv
<1>5. CASE Tick
  <2>1. UNCHANGED <<up, turn>>
    BY <1>5 DEF Tick, interpreter
  <2>2. \A c \in Conns : loop[c].at # "asleep" => loop'[c] = loop[c]
    BY <1>5 DEF Tick
  <2>3. QED
    BY <1>0, <2>1, <2>2, PlaceIs DEF TalkInv
<1>6. CASE Think \/ TurnBreaks
  <2>1. UNCHANGED <<up, loop>>
    BY <1>6 DEF Think, TurnBreaks, wire
  <2>2. turn # Resting
    <3>1. TurnGoesOn \/ ToolBreaks
      BY <1>6 DEF Think, TurnBreaks
    <3>2. turn.at \in {"context", "model", "tools"}
      BY <3>1 DEF TurnGoesOn, ToolBreaks, ContextCame, NoReply, Answer, BadTemplate, CallTools
    <3>3. Resting.at = "rest"
      BY DEF Resting
    <3>4. QED
      BY <3>2, <3>3
  <2>3. QED
    BY <2>1, <2>2 DEF TalkInv
<1>7. CASE UNCHANGED vars
  BY <1>7 DEF vars, wire, interpreter, TalkInv
<1>8. QED
  BY <1>1, <1>2, <1>3, <1>4, <1>5, <1>6, <1>7 DEF Next

(* The daemon's state is of its type, and a turn is at work only while its *)
(* line is being served.                                                   *)
THEOREM ConverseTyped == Spec => []TypeOK
<1>1. Init => StepInv /\ TalkInv
  <2>1. Init => TalkInv
    BY DEF Init, InterpreterInit, TalkInv
  <2>2. QED
    BY <2>1, StepStarts
<1>2. StepInv /\ TalkInv /\ [Next]_vars => StepInv' /\ TalkInv'
  BY StepStep, TalkStep DEF StepInv, WireInv
<1>3. StepInv /\ TalkInv /\ InterpreterTypeOK => TypeOK
  BY DEF StepInv, WireInv, Inv, TalkInv, TypeOK, Codes
<1> QED BY <1>1, <1>2, <1>3, Interprets, InterpreterTyped, PTL DEF Spec
=============================================================================
