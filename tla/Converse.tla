------------------------------- MODULE Converse -------------------------------
(***************************************************************************)
(* The connections of one user to a drpc daemon (drpc/server.py), which    *)
(* share that user's byte budget (throttle.py), with clients that match    *)
(* replies to requests by their order alone (client.py). One connection,   *)
(* the talker, also speaks English, and has an interpreter for it.         *)
(*                                                                         *)
(* Bytes are counted in units of which one is refilled per tick; a line    *)
(* costs one when read and the rest of MaxLine at most when answered, the  *)
(* tokens of the model included. Within a tick the server may do any       *)
(* number of things.                                                       *)
(***************************************************************************)
EXTENDS Interpreter, Sharing

CONSTANTS
  Talker,
  Kinds,     \* the kinds of line the clients send, out of AllKinds
  MaxPipe    \* bound: lines and replies on the wire, per connection

AllKinds == {"call", "batch", "notification", "bad_notification", "bad_json", "blank", "text", "long"}

ASSUME ConverseConstants ==
  Talker \in Conns /\ Kinds \subseteq AllKinds /\ MaxPipe \in Nat \ {0}

VARIABLES
  level,   \* the throttle's level
  up,      \* the lines sent and not yet read, per connection
  down,    \* the replies written and not yet received
  loop,    \* where converse() is on each connection
  owed     \* the client: the replies it expects, in order

wire == <<level, up, down, loop, owed>>
vars == <<wire, interpreter>>

At(place) == [at |-> place]
Asleep(ticks) == [at |-> "asleep", left |-> ticks]
Serving(kind) == [at |-> "serving", kind |-> kind]
Loop ==
  {At("top"), At("reading"), At("closed")}
    \cup [at : {"asleep"}, left : Nat] \cup [at : {"serving"}, kind : Kinds]
-----------------------------------------------------------------------------
(* What the protocol has a line answered with, if anything: JSON, or text  *)
(* up to a line that is "." alone.                                         *)
Reply(kind) ==
  CASE kind \in {"notification", "blank"} -> <<>>
    [] kind = "text" -> <<"text">>
    [] OTHER -> <<"json">>

(* The connections there are: admitted, or told "connection refused".      *)
Init ==
  /\ InterpreterInit
  /\ level = Burst
  /\ up = [c \in Conns |-> <<>>] /\ owed = up
  /\ loop \in [Conns -> {At("top"), At("closed")}]
  /\ down = [c \in Conns |-> IF loop[c] = At("closed") THEN <<"json">> ELSE <<>>]

(* Client.call, notify and ask, and clients that send ahead.               *)
Send(c, kind) ==
  /\ Len(up[c]) + Len(down[c]) < MaxPipe
  /\ kind = "text" => c = Talker
  /\ loop[c] # At("closed")
  /\ up' = [up EXCEPT ![c] = Append(@, kind)]
  /\ owed' = [owed EXCEPT ![c] = @ \o Reply(kind)]
  /\ UNCHANGED <<level, down, loop, interpreter>>

Receive(c) ==
  /\ down[c] # <<>> /\ owed[c] # <<>>
  /\ down' = [down EXCEPT ![c] = Tail(@)]
  /\ owed' = [owed EXCEPT ![c] = Tail(@)]
  /\ UNCHANGED <<level, up, loop, interpreter>>
-----------------------------------------------------------------------------
(* throttle.wait() sleeps once, for as long as the debt it finds takes.    *)
Waited_Never == At("reading")   \* mutant
Waited == IF level < 0 THEN Asleep(-level) ELSE At("reading")

Wait(c) ==
  /\ loop[c] = At("top")
  /\ loop' = [loop EXCEPT ![c] = Waited]
  /\ UNCHANGED <<level, up, down, owed, interpreter>>

Woken_InDebt == IF level < 0 THEN At("top") ELSE At("reading")   \* mutant: asleep again
Woken == At("reading")

Wake(c) ==
  /\ loop[c] = Asleep(0)
  /\ loop' = [loop EXCEPT ![c] = Woken]
  /\ UNCHANGED <<level, up, down, owed, interpreter>>

(* The budget refills, up to the burst; who is asleep is closer to waking, *)
(* or oversleeps.                                                          *)
Refilled == IF level < Burst THEN level + 1 ELSE level

Tick ==
  /\ level' = Refilled
  /\ loop' = [c \in Conns |->
       IF loop[c].at = "asleep" /\ loop[c].left > 0 THEN Asleep(loop[c].left - 1) ELSE loop[c]]
  /\ UNCHANGED <<up, down, owed, interpreter>>
-----------------------------------------------------------------------------
(* A line is read, charged for and told apart.                             *)
AfterBlank_Reading == At("reading")   \* mutant: on without waiting
AfterBlank == At("top")

Read(c) ==
  /\ loop[c] = At("reading") /\ up[c] # <<>>
  /\ up' = [up EXCEPT ![c] = Tail(@)]
  /\ LET kind == Head(up[c])
     IN IF kind = "long"
          THEN /\ loop' = [loop EXCEPT ![c] = At("closed")]   \* an error, and return
               /\ down' = [down EXCEPT ![c] = Append(@, "json")]
               /\ UNCHANGED <<level, interpreter>>
          ELSE /\ loop' = [loop EXCEPT ![c] = IF kind = "blank" THEN AfterBlank ELSE Serving(kind)]
               /\ level' = level - 1
               /\ UNCHANGED down
               /\ \/ kind = "text" /\ Hear   \* or help.answer, or no English for anonymous
                  \/ UNCHANGED interpreter
  /\ UNCHANGED owed

(* What the server answers with, if anything: an error too goes to a       *)
(* notification only if it is malformed (service.py:184-186).              *)
Answered_Errors(kind) ==   \* mutant: a notification that fails is answered
  IF kind = "notification" THEN <<"json">> ELSE Reply(kind)
Answered(kind) == IF kind = "notification" THEN <<>> ELSE Reply(kind)

Ready(c) == loop[c].kind = "text" => turn = Resting

Serve(c) ==
  /\ loop[c].at = "serving" /\ Ready(c)
  /\ LET reply == Answered(loop[c].kind)
     IN /\ down' = [down EXCEPT ![c] = @ \o reply]
        /\ \E cost \in IF reply = <<>> THEN {0} ELSE 0 .. MaxLine - 1 : level' = level - cost
  /\ loop' = [loop EXCEPT ![c] = At("top")]
  /\ UNCHANGED <<up, owed, interpreter>>

(* A result that is no JSON: encode_json raises, out of converse.          *)
ServeBreaks(c) ==
  /\ loop[c].at = "serving" /\ loop[c].kind \in {"call", "batch"}
  /\ loop' = [loop EXCEPT ![c] = At("closed")]
  /\ UNCHANGED <<level, up, down, owed, interpreter>>

Think == TurnGoesOn /\ UNCHANGED wire

(* _english answers for the turn with an internal error, and goes on.      *)
TurnBreaks == ToolBreaks /\ UNCHANGED wire

HangUp(c) ==   \* the client goes: an empty read
  /\ loop[c] = At("reading") /\ up[c] = <<>> /\ owed[c] = <<>>
  /\ loop' = [loop EXCEPT ![c] = At("closed")]
  /\ UNCHANGED <<level, up, down, owed, interpreter>>

Next ==
  \/ \E c \in Conns :
       \/ \E kind \in Kinds : Send(c, kind)
       \/ Receive(c) \/ Wait(c) \/ Wake(c) \/ Read(c) \/ Serve(c) \/ ServeBreaks(c) \/ HangUp(c)
  \/ Tick \/ Think \/ TurnBreaks

Spec == Init /\ [][Next]_vars

(* asyncio runs what is ready, methods and the API end (the SDK times      *)
(* out), time passes, and clients read what they asked for.                *)
Fairness ==
  /\ WF_vars(Tick) /\ WF_vars(Think)
  /\ \A c \in Conns :
       /\ WF_vars(Receive(c)) /\ WF_vars(Wait(c)) /\ WF_vars(Wake(c))
       /\ WF_vars(Read(c)) /\ WF_vars(Serve(c))
FairSpec == Spec /\ Fairness
-----------------------------------------------------------------------------
(* The state is of its type, and the talker's interpreter at work only     *)
(* while a line of English is served.                                      *)
TypeOK ==
  /\ InterpreterTypeOK
  /\ level \in Int /\ level <= Burst
  /\ \A c \in Conns :
       /\ up[c] \in Seq(Kinds) /\ loop[c] \in Loop
       /\ down[c] \in Seq({"json", "text"}) /\ owed[c] \in Seq({"json", "text"})
  /\ turn # Resting => loop[Talker] = Serving("text")

(* Every client is owed just what is on the wire for it, being served or   *)
(* asked for by the lines ahead, in that order: a client that looks at no  *)
(* ids reads the reply to its own request (server.py:29-30).               *)
BeingServed(c) == IF loop[c].at = "serving" THEN Reply(loop[c].kind) ELSE <<>>
InStep ==
  \A c \in Conns :
    loop[c] # At("closed") =>
      owed[c] = down[c] \o BeingServed(c) \o FlattenSeq([i \in 1 .. Len(up[c]) |-> Reply(up[c][i])])

(* The loops keep the pace that bounds the debt, whatever the lines cost.  *)
PaceOf(c) ==
  CASE loop[c].at = "top" -> [at |-> "due"]
    [] loop[c].at = "reading" -> [at |-> "cleared", bytes |-> MaxLine]
    [] loop[c].at = "serving" -> [at |-> "cleared", bytes |-> MaxLine - 1]
    [] loop[c].at = "closed" -> [at |-> "gone"]
    [] OTHER -> loop[c]
Budget == INSTANCE Throttle WITH pace <- [c \in Conns |-> PaceOf(c)]
KeepsPace == Budget!Spec

(* However many connections share the budget, it is never further in debt  *)
(* than one line of each costs: waiting once before a line, and going on   *)
(* even if others have run into debt meanwhile, is enough.                 *)
DebtIsBounded == Budget!DebtIsBounded

(* A client is never refused, only slowed (throttle.py:6-8): whoever waits *)
(* for a reply receives it, whatever the user's other connections spend.   *)
RepliesCome ==
  \A c \in Conns :
    loop[c] # At("closed") /\ owed[c] # <<>> ~> owed[c] = <<>> \/ down[c] # <<>> \/ loop[c] = At("closed")
=============================================================================
