----------------------------- MODULE Interpreter -----------------------------
(***************************************************************************)
(* The English side of one drpc connection (drpc/interpreter.py): its      *)
(* conversation with the language model, turn by turn. A turn runs from    *)
(* one await to the next; what a call of the API or of a method comes back *)
(* with is chosen freely. The text of a message is left out.               *)
(*                                                                         *)
(* loose is a history variable: the places of the replies with calls that  *)
(* nobody will answer. A reply that calls tools though the model stopped   *)
(* for another reason is one (its context window was full, say), and one   *)
(* whose tools break the turn.                                             *)
(***************************************************************************)
EXTENDS Integers, Sequences, SequencesExt, FiniteSets

CONSTANTS
  Contexts,      \* what the context providers may come up with
  MaxSteps,      \* MAX_STEPS
  MaxStored,     \* MAX_STORED
  MaxUses,       \* bound: tools called at once
  MaxTurns       \* bound: turns

ASSUME InterpreterConstants ==
  /\ MaxSteps \in Nat \ {0} /\ MaxStored \in Nat \ {0} /\ MaxUses \in Nat \ {0}
  /\ MaxTurns \in Nat

VARIABLES
  history,     \* self.history
  sentContext, \* self._sent_context
  rpcId,       \* self.rpc_id
  results,     \* the names of self.results, oldest first
  turn,        \* the locals of _turn and where it awaits
  turns,       \* how many there have been
  loose        \* history, see above

interpreter == <<history, sentContext, rpcId, results, turn, turns, loose>>

None == "none"
UserSays == [role |-> "user", about |-> "line"]
FixThat == [role |-> "user", about |-> "template"]
SystemSays(ctx) == [role |-> "system", context |-> ctx]
Assistant(uses) == [role |-> "assistant", uses |-> uses]   \* uses: the calls it makes
Outcomes(uses) == [role |-> "user", about |-> "tools", uses |-> uses]

Resting == [at |-> "rest"]
\* before: the history when the turn began, whose length is start
Turning(at, step, uses) ==
  [at |-> at, step |-> step, uses |-> uses, done |-> {},
   before |-> turn.before, sentBefore |-> turn.sentBefore]
-----------------------------------------------------------------------------
InterpreterInit ==
  /\ history = <<>> /\ sentContext = None
  /\ rpcId = 0 /\ results = <<>>
  /\ turn = Resting /\ turns = 0 /\ loose = {}

(* reply, up to the await of the context.                                  *)
Hear ==
  /\ turn = Resting /\ turns < MaxTurns
  /\ turns' = turns + 1
  /\ history' = Append(history, UserSays)
  /\ turn' = [at |-> "context", before |-> history, sentBefore |-> sentContext]
  /\ UNCHANGED <<sentContext, rpcId, results, loose>>

(* The context is told only when it has changed.                           *)
Told(ctx) ==
  /\ history' = IF ctx = sentContext THEN history ELSE Append(history, SystemSays(ctx))
  /\ sentContext' = ctx

ContextCame(ctx) ==
  /\ turn.at = "context"
  /\ Told(ctx)
  /\ turn' = Turning("model", 1, <<>>)
  /\ UNCHANGED <<rpcId, results, turns, loose>>

Undone == loose' = {i \in loose : i <= Len(turn.before)}

Rollback_ContextKept ==   \* mutant: the context sent is not put back
  /\ history' = SubSeq(history, 1, Len(turn.before))
  /\ UNCHANGED sentContext
  /\ Undone
Rollback_TooFar ==   \* mutant: one message too many
  /\ history' = SubSeq(history, 1, Len(turn.before) - 1)
  /\ sentContext' = turn.sentBefore
  /\ Undone
Rollback ==
  /\ history' = SubSeq(history, 1, Len(turn.before))
  /\ sentContext' = turn.sentBefore
  /\ Undone

(* The API fails, the model declines, or its reply is cut off.             *)
NoReply ==
  /\ turn.at = "model"
  /\ Rollback
  /\ turn' = Resting
  /\ UNCHANGED <<rpcId, results, turns>>

(* The calls of a reply that the model did not stop for: none as a rule,   *)
(* and never made, so that they have no names.                             *)
Unmade == {[i \in 1 .. k |-> 0] : k \in 0 .. MaxUses}

Loosened(uses) == IF uses = <<>> THEN loose ELSE loose \cup {Len(history) + 1}

(* A reply, whose template is filled in.                                   *)
Answer(uses) ==
  /\ turn.at = "model"
  /\ history' = Append(history, Assistant(uses))
  /\ loose' = Loosened(uses)
  /\ turn' = Resting
  /\ UNCHANGED <<sentContext, rpcId, results, turns>>

(* What the model is sent next, or the turn is given up.                   *)
GiveUp_Left(messages) ==   \* mutant: no rollback
  /\ history' = history \o messages
  /\ UNCHANGED <<sentContext, loose>>
GiveUp(messages) == Rollback

Continue(messages, untied) ==
  IF turn.step < MaxSteps
    THEN /\ history' = history \o messages
         /\ loose' = untied
         /\ turn' = Turning("model", turn.step + 1, <<>>)
         /\ UNCHANGED sentContext
    ELSE GiveUp(messages) /\ turn' = Resting

BadTemplate(uses) ==
  /\ turn.at = "model"
  /\ Continue(<<Assistant(uses), FixThat>>, Loosened(uses))
  /\ UNCHANGED <<rpcId, results, turns>>

(* Tools are called, all at once; each takes the next name.                *)
CallTools(k) ==
  /\ turn.at = "model"
  /\ LET uses == [i \in 1 .. k |-> rpcId + i]
     IN /\ history' = Append(history, Assistant(uses))
        /\ turn' = Turning("tools", turn.step, uses)
  /\ rpcId' = rpcId + k
  /\ UNCHANGED <<sentContext, results, turns, loose>>

(* _store: the oldest result goes for the newest.                          *)
Stored_Unbounded(r) == Append(results, r)   \* mutant
Stored(r) ==
  LET all == Append(results, r)
  IN SubSeq(all, Len(all) - (IF Len(all) > MaxStored THEN MaxStored ELSE Len(all)) + 1, Len(all))

(* One of them ends, in any order: with a result or data of an error,      *)
(* which is stored, or an error that has none. The last one lets gather    *)
(* return, with the outcomes in the order of the calls.                    *)
ToolEnds(r) ==
  /\ turn.at = "tools" /\ r \in ToSet(turn.uses) \ turn.done
  /\ results' \in {results, Stored(r)}
  /\ IF turn.done \cup {r} = ToSet(turn.uses)
       THEN Continue(<<Outcomes(turn.uses)>>, loose)
       ELSE /\ turn' = [turn EXCEPT !.done = @ \cup {r}]
            /\ UNCHANGED <<history, sentContext, loose>>
  /\ UNCHANGED <<rpcId, turns>>

(* The turn goes on, while what methods return can be written as JSON.     *)
TurnGoesOn ==
  \/ \E ctx \in Contexts : ContextCame(ctx)
  \/ NoReply \/ \E uses \in Unmade : Answer(uses) \/ BadTemplate(uses)
  \/ \E k \in 1 .. MaxUses : CallTools(k)
  \/ turn.at = "tools" /\ \E r \in ToSet(turn.uses) : ToolEnds(r)

(* A result that is no JSON (a dict with tuples for keys): _store raises,  *)
(* out of gather and of _turn, past its rollbacks. The other tools of the  *)
(* step go on by themselves, which is left out.                            *)
ToolBreaks ==
  /\ turn.at = "tools"
  /\ loose' = loose \cup {Len(history)}
  /\ turn' = Resting
  /\ UNCHANGED <<history, sentContext, rpcId, results, turns>>

(* The interpreter on its own: a line of English comes whenever the last   *)
(* one has been replied to.                                                *)
InterpreterSpec == InterpreterInit /\ [][Hear \/ TurnGoesOn \/ ToolBreaks]_interpreter
-----------------------------------------------------------------------------
Message ==
  [role : {"user"}, about : {"line", "template"}]
    \cup [role : {"system"}, context : Contexts]
    \cup [role : {"assistant"}, uses : Seq(Nat)]
    \cup [role : {"user"}, about : {"tools"}, uses : Seq(Nat)]

InterpreterTypeOK ==
  /\ \A m \in ToSet(history) : m \in Message
  /\ sentContext \in Contexts \cup {None}
  /\ Len(results) <= MaxStored /\ ToSet(results) \subseteq 1 .. rpcId
  /\ IsInjective(results)
  /\ loose \subseteq 1 .. Len(history)

(* Calls, but those at untied, are answered by the very next message, and  *)
(* nothing else answers; a turn that is over ended with a reply.           *)
WellFormed(h, untied) ==
  /\ \A i \in (1 .. Len(h)) \ untied :
       (h[i].role = "assistant" /\ h[i].uses # <<>>) =>
         i < Len(h) /\ h[i + 1] = Outcomes(h[i].uses)
  /\ h # <<>> => Head(h) = UserSays /\ Last(h).role = "assistant"

(* Between turns the history is one the API accepts, but for the replies   *)
(* the code leaves loose: a turn that failed in whatever other way has     *)
(* left nothing, and one that did not is complete.                         *)
HistoryIsWellFormed == turn = Resting => WellFormed(history, loose)

(* ... as interpreter.py:149 has it, "keep the history well-formed for the *)
(* next line".                                                             *)
HistoryIsComplete == turn = Resting => WellFormed(history, {})

(* The context the model has been told last, going by the history, is the  *)
(* one that is not told again; a turn taken back takes its context back.   *)
ToldLast(h) ==
  LET told == {i \in 1 .. Len(h) : h[i].role = "system"}
  IN IF told = {} THEN None ELSE h[Max(told)].context
ContextIsTold == sentContext = ToldLast(history)

(* The history is append-only but for turns taken back whole: no step      *)
(* changes what was there when the turn under way began (README.md:167).   *)
HistoryIsKept ==
  [][/\ turn # Resting => IsPrefix(turn.before, history')
     /\ turn = Resting => IsPrefix(history, history')]_interpreter
=============================================================================
