-------------------------------- MODULE Tool --------------------------------
(***************************************************************************)
(* The remote_intercom tool (extension/src/tools/intercom-tool.ts): its    *)
(* actions, its handlers of relay events and the pending state             *)
(* (extension/src/state/pending.ts) that the agent answers from, on top of *)
(* Delivery.  The device is the owner of its channels.  The inbox and the  *)
(* wording of notifications are left out.                                  *)
(***************************************************************************)
EXTENDS Delivery

ASSUME ToolAssumption ==
  /\ MaxOps \in Nat /\ IsFiniteSet(Requests)
  /\ None \notin Requests \cup Conns \cup Names \cup Channels \cup {"user", "loop"}
  /\ None \notin Ops

VARIABLES
  joins,        \* the requests that are join requests; the others are asks
  pending,      \* each request in PendingState: the channel it came from, or None
  heard,        \* each request: "never" received, "kept" since, or "cleared" by
                \* disconnect or by a connect to another channel
  join,         \* the channel in which the relay has each join request
  channelName   \* context.channelName

toolVars == <<joins, pending, heard, join, channelName>>
vars == <<deliveryVars, toolVars>>

Init ==
  /\ DeliveryInit
  /\ joins \in SUBSET Requests
  /\ pending = [r \in Requests |-> None]
  /\ heard = [r \in Requests |-> "never"]
  /\ join = [r \in Requests |-> None]
  /\ channelName = None

\* The relay has carried out a reply to the ask, or a decision on the join request.
Answered(r) == \E o \in Ops : op[o].item = r /\ done[o] > 0

clear == [r \in Requests |-> None]

\* What was received keeps its reply target, also when it is cleared.
Cleared == [r \in Requests |-> IF heard[r] = "never" THEN "never" ELSE "cleared"]

-----------------------------------------------------------------------------
(* The actions of the tool                                                 *)

Connect(ch) == connect(ch) /\ UNCHANGED toolVars

\* connect has returned.  channelName is what it was when connect was called:
\* only this step changes it, and a later connect cancels an earlier one.
ConnectReturns ==
  /\ returning /\ NothingReady
  /\ returning' = FALSE
  /\ pending' = IF channelName \in {None, args[1]} THEN pending ELSE clear
  /\ heard' = IF channelName \in {None, args[1]} THEN heard ELSE Cleared
  /\ channelName' = args[1]
  /\ UNCHANGED <<op, relayVars, down, posting, opening, args, channelId, sock, socket, loop,
                 health, explicit, joins, join>>

Disconnect ==
  disconnect /\ pending' = clear /\ heard' = Cleared /\ UNCHANGED <<joins, join, channelName>>

\* reply needs a recorded reply target; a decision can name any request.
Execute(o) ==
  /\ \/ Issue(o, None)
     \/ \E r \in Requests : heard[r] # "never" /\ Issue(o, r)
  /\ UNCHANGED toolVars

\* Seeded fault: the request is forgotten with the first answer, whatever it is.
ForgetsAnyway(e) ==
  {r \in Requests : e.op # None /\ op[e.op].pc = "waiting" /\ op[e.op].item = r}

\* A request leaves the pending state once its operation is acknowledged.
Forgotten(e) ==
  {r \in Requests : e.type = "ack" /\ op[e.op].pc = "waiting" /\ op[e.op].item = r}

\* The handlers record asks and join requests, with the channel they came from.
Recorded(e) == {r \in Requests : r = e.item}

\* handleSocketMessage; an operation that is acknowledged goes on at once.
HandleEvent(c) ==
  LET e == Head(down[c]) IN
  /\ Receive(c)
  /\ pending' = [r \in Requests |-> IF r \in Recorded(e) THEN channelId
                                    ELSE IF r \in Forgotten(e) THEN None ELSE pending[r]]
  /\ heard' = [r \in Requests |-> IF r \in Recorded(e) THEN "kept" ELSE heard[r]]
  /\ UNCHANGED <<joins, join, channelName>>

-----------------------------------------------------------------------------
(* The relay's side of requests                                            *)

AskArrives(c) ==
  /\ \E r \in Requests \ joins :
       /\ heard[r] = "never" /\ \A i \in DOMAIN down[c] : down[c][i].item # r
       /\ Notifies(c, "ask", r)
  /\ UNCHANGED toolVars

\* Somebody asks to join; the owner is told at once if it is connected.
JoinArrives ==
  /\ channelId # None
  /\ \E r \in joins :
       /\ join[r] = None
       /\ join' = [join EXCEPT ![r] = channelId]
       /\ IF socket # None /\ sock[socket] = "open"
          THEN Notifies(socket, "join", r) ELSE UNCHANGED deliveryVars
  /\ UNCHANGED <<joins, pending, heard, channelName>>

JoinRequests(ch) ==
  SetToSeq({Event("join", None, r) : r \in {j \in joins : join[j] = ch /\ ~Answered(j)}})

OpenSocket(c) ==
  /\ Opens(c, JoinRequests(channelId))
  /\ UNCHANGED toolVars

\* A decision finds its request waiting in the channel of the connection.
Decides(c) ==
  LET o == Head(up[c]) IN
  /\ CarriesOut(c)
  /\ op[o].item \in joins => join[op[o].item] = op[o].sent /\ ~Answered(op[o].item)
  /\ UNCHANGED toolVars

-----------------------------------------------------------------------------
LosesSocket ==
  /\ \/ ProbeFails
     \/ \E c \in Conns : Posted(c) \/ OpenFails(c) \/ Closes(c)
  /\ UNCHANGED toolVars

Proceeds ==
  /\ \/ PostFails \/ LoopPosts \/ OldLoopEnds
     \/ HeartbeatDue \/ ProbeAnswered \/ ProbeTimesOut
     \/ \E o \in Ops : HeldRuns(o) \/ Run(o) \/ TimesOut(o)
     \/ \E c \in Conns : \/ GoesHalfOpen(c) \/ Refuses(c) \/ Acknowledges(c)
                         \/ ReplyOvertakes(c) \/ Drops(c)
  /\ UNCHANGED toolVars

Next ==
  \/ \E ch \in Channels : Connect(ch)
  \/ ConnectReturns \/ Disconnect \/ LosesSocket \/ Proceeds
  \/ JoinArrives
  \/ \E o \in Ops : Execute(o)
  \/ \E c \in Conns : OpenSocket(c) \/ HandleEvent(c) \/ AskArrives(c) \/ Decides(c)

Spec == Init /\ [][Next]_vars

-----------------------------------------------------------------------------
(* Properties                                                              *)

\* Every variable keeps its type; no operation awaits a check that is not there,
\* nor a check a loop that is not there.
ToolTypeOK ==
  /\ op \in [Ops -> [pc : {"none", "checking", "held", "ready", "waiting"} \cup Ended,
                     item : Requests \cup {None}, late : BOOLEAN,
                     channel : Channels \cup {None}, sent : Channels \cup {None},
                     on : Conns \cup {None}]]
  /\ done \in [Ops -> Nat]
  /\ {posting, opening} \subseteq {None, "user", "loop"} /\ returning \in BOOLEAN
  /\ {args, channelId} \subseteq Channels \cup {None}
  /\ sock \in [Conns -> {"closed", "connecting", "open", "halfOpen"}]
  /\ socket \in Conns \cup {None} /\ acking \in [Conns -> Ops \cup {None}]
  /\ loop \in {"off", "on", "ending"}
  /\ health \in {"none", "probing", "probeFailed", "recovering"}
  /\ explicit \in BOOLEAN
  /\ up \in [Conns -> Seq(Ops)]
  /\ down \in [Conns -> Seq([type : {"ack", "error", "reply", "ask", "join"},
                             op : Ops \cup {None}, item : Requests \cup {None}])]
  /\ pending \in [Requests -> Channels \cup {None}]
  /\ heard \in [Requests -> {"never", "kept", "cleared"}]
  /\ join \in [Requests -> Channels \cup {None}]
  /\ channelName \in Names \cup {None}
  /\ (\E o \in Ops : op[o].pc = "checking") => health # "none"
  /\ health = "recovering" => loop # "off"

\* No waiter outlives its websocket: the answer could only come there, and who
\* still waits would wait for the timeout.
WaiterHasSocket ==
  \A o \in Ops : op[o].pc = "waiting" => op[o].on = socket /\ SocketIsOpen

\* Who waits will hear: while the websocket is open at both ends, the relay has yet
\* to read the operation's event or to acknowledge it, or the acknowledgement or
\* the error is under way.  A waiter that nobody answers would make the agent
\* doubt, after the time-out, a delivery that never had a reason to be in doubt.
\* It shows that no later step loses the answer; that each error path of the
\* relay writes one is what the single action Refuses says, read from the code.
WaiterWillHear ==
  \A o \in Ops, c \in Conns :
    op[o].pc = "waiting" /\ op[o].on = c /\ sock[c] = "open" =>
      \/ \E i \in DOMAIN up[c] : up[c][i] = o
      \/ acking[c] = o
      \/ \E i \in DOMAIN down[c] : down[c][i].op = o /\ down[c][i].type \in {"ack", "error"}

\* "connect establishes new logical connection state": an operation that was
\* issued for one channel and that waits for a health check, or for the reconnect
\* loop through it, is not sent in another: it runs while the channel is still the
\* current one, or fails.  This is promised to all operations but the late ones.
\* Late is an operation whose check awaits the POST of a loop when connect or
\* disconnect outdates both: it is held until that POST ends (HeldRuns), and then
\* runs in whatever channel is the current one.
OperationKeepsChannel ==
  \A o \in Ops : op[o].pc = "waiting" /\ ~op[o].late => op[o].sent = op[o].channel

\* "A correlated error or decision_unknown timeout leaves local pending state
\* intact": a request stays in the pending state from its receipt until the relay
\* has carried its answer out, whatever became of earlier answers and however
\* often the connection was lost, replaced or given up meanwhile.  Excepted is what
\* the user cleared: whatever is there at disconnect, and when a connect to a
\* channel of another name returns, a request of that new channel included that
\* came before the connect returned.
NothingIsMissed ==
  \A r \in Requests : heard[r] = "kept" /\ ~Answered(r) => pending[r] # None

\* connect "to a different channel" clears the pending state: what the agent
\* sees pending on an open connection can be answered there.
PendingOfChannel ==
  SocketIsOpen /\ ~returning => \A r \in Requests : pending[r] \in {None, channelId}

\* Each operation is carried out at most once, and what is reported of it is
\* true and remains true: see Courier.
Promise == INSTANCE Courier WITH
  result <- [o \in Ops |-> IF op[o].pc \in Ended THEN op[o].pc ELSE "none"]

\* Delivery keeps the promises of Courier.
ImplementsCourier == Promise!Spec
=============================================================================
