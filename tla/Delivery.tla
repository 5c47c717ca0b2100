------------------------------ MODULE Delivery ------------------------------
(***************************************************************************)
(* How an operation of the tool (send, ask, reply, approve, deny) travels: *)
(* the preflight and the response waiters of RelayClient                   *)
(* (extension/src/client/relay-client.ts), the websocket's two directions, *)
(* and the relay's handler with its acknowledgement (relay/internal/ws).   *)
(* list and status travel the same way and change nothing.                 *)
(*                                                                         *)
(* Module Client has the connection in detail.  Here one flag stands for   *)
(* the reconnect loop, and an attempt that a newer one outdated is only    *)
(* there as what its end sets free: the operations it holds.  As there, an *)
(* action is a callback or a ready continuation, which goes first (Idle).  *)
(***************************************************************************)
EXTENDS Naturals, Sequences, SequencesExt

CONSTANTS
  MaxOps,    \* operations that the agent asks for
  Conns,     \* websockets, used again once nobody remembers them
  Names, Pins,
  Requests,  \* what the agent may answer: asks and join requests
  None

Ops == 1..MaxOps
Channels == Names \X Pins   \* a channel is its name and its PIN

VARIABLES
  op,         \* each operation: how far it is, what it wants, where it went
  done,       \* how often the relay carried each operation out
  posting,    \* who called the latest connectInternal, until its POST ends
  opening,    \* who called the connectInternal that awaits the websocket
  returning,  \* whether the user's connect is about to return
  args,       \* lastConnectArgs
  channelId,  \* state.channelId
  sock,       \* each websocket as the client knows it
  socket,     \* this.socket
  loop,       \* the reconnect loop; "ending": disconnect met its POST
  health,     \* what healthCheckPromise awaits
  explicit,   \* explicitDisconnect
  up,         \* events on their way to the relay
  down,       \* events on their way to the client
  acking      \* what the relay has carried out and not acknowledged yet

connVars == <<posting, opening, returning, args, channelId, sock, socket, loop, health, explicit>>
relayVars == <<done, up, acking>>
deliveryVars == <<op, relayVars, connVars, down>>

Ended == {"ok", "failed", "unknown"}

DeliveryInit ==
  /\ op = [o \in Ops |-> [pc |-> "none", item |-> None, channel |-> None,
                          sent |-> None, on |-> None, late |-> FALSE]]
  /\ done = [o \in Ops |-> 0]
  /\ posting = None /\ opening = None /\ returning = FALSE
  /\ args = None /\ channelId = None
  /\ sock = [c \in Conns |-> "closed"] /\ socket = None
  /\ loop = "off" /\ health = "none" /\ explicit = FALSE
  /\ up = [c \in Conns |-> <<>>] /\ down = up
  /\ acking = [c \in Conns |-> None]

-----------------------------------------------------------------------------
NothingReady == health # "probeFailed" /\ \A o \in Ops : op[o].pc # "ready"
Idle == NothingReady /\ ~returning

SocketIsOpen == socket # None /\ sock[socket] \in {"open", "halfOpen"}

Free(c) == sock[c] = "closed" /\ up[c] = <<>> /\ acking[c] = None

\* What an operation that has ended no longer needs is reset.
Settled(ops, o, outcome) ==
  [ops EXCEPT ![o] = [@ EXCEPT !.pc = outcome, !.channel = None, !.on = None, !.late = FALSE]]

Moved(ops, from, to) ==
  [o \in Ops |-> IF ops[o].pc = from THEN [ops[o] EXCEPT !.pc = to] ELSE ops[o]]

\* rejectResponseWaiters, for the operations, each with its timeoutCode, and for
\* the probe.
WaitersRejected(ops) ==
  [o \in Ops |-> IF ops[o].pc = "waiting" THEN Settled(ops, o, "unknown")[o] ELSE ops[o]]

ProbeRejected == IF health = "probing" THEN "probeFailed" ELSE health

\* closeCurrentSocket: whatever is under way to the client will not be read.
SockClosed == IF socket = None THEN sock ELSE [sock EXCEPT ![socket] = "closed"]
DownClosed == IF socket = None THEN down ELSE [down EXCEPT ![socket] = <<>>]

CloseCurrentSocket ==
  sock' = SockClosed /\ down' = DownClosed /\ socket' = None /\ opening' = None

\* The loop's POST is under way: it holds whoever awaits the loop.
LoopPosting == posting = "loop" \/ loop = "ending"

\* Seeded fault: connect leaves the operations to the next health check.
CheckGoesOn(ops) == ops

\* A newer generation lets the operations that await the health check go: at
\* once, or when the loop that their check awaits has its answer.
CheckOutdated(ops) ==
  Moved(ops, "checking", IF health = "recovering" /\ LoopPosting THEN "held" ELSE "ready")

\* Nothing tells the channels apart before the first connect, nor the websockets.
FirstOf(S) == CHOOSE x \in S : TRUE

connect(ch) ==
  /\ Idle /\ (args = None => ch = FirstOf(Channels))
  /\ args' = ch /\ posting' = "user" /\ explicit' = FALSE
  /\ loop' = "off" /\ health' = "none"
  /\ CloseCurrentSocket
  /\ op' = CheckOutdated(WaitersRejected(op))
  /\ UNCHANGED <<relayVars, returning, channelId>>

disconnect ==
  /\ Idle
  /\ explicit' = TRUE /\ posting' = None
  /\ loop' = IF LoopPosting THEN "ending" ELSE "off"
  /\ health' = "none"
  /\ CloseCurrentSocket
  /\ op' = CheckOutdated(WaitersRejected(op))
  /\ UNCHANGED <<relayVars, returning, args, channelId>>

\* No answer, a refusal, or a payload that is not the one expected.
PostFails ==
  /\ Idle /\ posting # None
  /\ posting' = None
  /\ UNCHANGED <<op, relayVars, down, opening, returning, args, channelId, sock, socket,
                 loop, health, explicit>>

\* The relay answered: the state takes the new channel, the websocket opens.
Posted(c) ==
  /\ Idle /\ posting # None /\ Free(c) /\ c = FirstOf({d \in Conns : Free(d)})
  /\ posting' = None /\ opening' = posting
  /\ channelId' = args
  /\ sock' = [SockClosed EXCEPT ![c] = "connecting"] /\ socket' = c
  /\ down' = DownClosed
  /\ op' = WaitersRejected(op)
  /\ health' = ProbeRejected
  /\ UNCHANGED <<relayVars, returning, args, loop, explicit>>

\* Seeded fault: the end of the loop does not end the check that awaits it.
CheckStays(ops) == ops

CheckEnds(ops) == Moved(ops, "checking", "ready")

\* The websocket opens; the relay registers the device and writes it the
\* events in first.  The loop that opened it ends, and a check with the loop.
Opens(c, first) ==
  /\ Idle /\ socket = c /\ sock[c] = "connecting"
  /\ sock' = [sock EXCEPT ![c] = "open"]
  /\ down' = [down EXCEPT ![c] = first]
  /\ opening' = None
  /\ returning' = (opening = "user")
  /\ IF opening = "loop"
     THEN loop' = "off" /\ health' = "none" /\ op' = CheckEnds(op)
     ELSE UNCHANGED <<loop, health, op>>
  /\ UNCHANGED <<relayVars, posting, args, channelId, socket, explicit>>

OpenFails(c) ==
  /\ Idle /\ socket = c /\ sock[c] = "connecting"
  /\ CloseCurrentSocket
  /\ UNCHANGED <<op, relayVars, posting, returning, args, channelId, loop, health, explicit>>

GoesHalfOpen(c) ==
  /\ socket = c /\ sock[c] = "open"
  /\ sock' = [sock EXCEPT ![c] = "halfOpen"]
  /\ down' = [down EXCEPT ![c] = <<>>]
  /\ UNCHANGED <<op, relayVars, posting, opening, returning, args, channelId, socket, loop,
                 health, explicit>>

\* Seeded fault: the close event leaves the waiters to their timeouts.
ClosesUnheard(c) ==
  /\ Idle /\ socket = c /\ SocketIsOpen
  /\ CloseCurrentSocket
  /\ health' = ProbeRejected
  /\ loop' = IF loop = "off" THEN "on" ELSE loop
  /\ UNCHANGED <<op, relayVars, posting, returning, args, channelId, explicit>>

\* The close event of an open websocket: reconnect, unless a loop is at it.
Closes(c) ==
  /\ Idle /\ socket = c /\ SocketIsOpen
  /\ CloseCurrentSocket
  /\ op' = WaitersRejected(op)
  /\ health' = ProbeRejected
  /\ loop' = IF loop = "off" THEN "on" ELSE loop
  /\ UNCHANGED <<relayVars, posting, returning, args, channelId, explicit>>

\* The delay is over.  The loop's connectInternal outdates the user's.
LoopPosts ==
  /\ Idle /\ loop = "on" /\ "loop" \notin {posting, opening}
  /\ posting' = "loop"
  /\ UNCHANGED <<op, relayVars, down, opening, returning, args, channelId, sock, socket,
                 loop, health, explicit>>

\* The POST of a loop that disconnect ended.
OldLoopEnds ==
  /\ Idle /\ loop = "ending"
  /\ loop' = "off" /\ health' = "none"
  /\ op' = CheckEnds(op)
  /\ UNCHANGED <<relayVars, down, posting, opening, returning, args, channelId, sock, socket,
                 explicit>>

-----------------------------------------------------------------------------
(* The preflight                                                           *)

\* ensureHealthy: what the operation awaits.  An earlier check is shared; an
\* open websocket may have been silent for too long; without one the loop is
\* awaited, unless there is none and disconnect, or no connect, forbids one.
ensureHealthy ==
  IF health # "none" THEN {health}
  ELSE IF SocketIsOpen THEN {"none", "probing"}
  ELSE IF loop = "off" /\ (explicit \/ args = None) THEN {"none"} ELSE {"recovering"}

\* afterHealthy: the operation runs at once or after the check.
Issue(o, item) ==
  /\ Idle /\ op[o].pc = "none" /\ \A p \in 1..(o - 1) : op[p].pc # "none"
  /\ health' \in ensureHealthy
  /\ loop' = IF health' = "recovering" /\ loop = "off" THEN "on" ELSE loop
  /\ op' = [op EXCEPT ![o] = [@ EXCEPT !.item = item, !.channel = args,
                                       !.pc = IF health' = "none" THEN "ready" ELSE "checking"]]
  /\ UNCHANGED <<relayVars, down, posting, opening, returning, args, channelId, sock, socket,
                 explicit>>

HeartbeatDue ==
  /\ Idle /\ SocketIsOpen /\ health = "none"
  /\ health' = "probing"
  /\ UNCHANGED <<op, relayVars, down, posting, opening, returning, args, channelId, sock,
                 socket, loop, explicit>>

ProbeAnswered ==
  /\ Idle /\ health = "probing" /\ sock[socket] = "open"
  /\ health' = "none" /\ op' = CheckEnds(op)
  /\ UNCHANGED <<relayVars, down, posting, opening, returning, args, channelId, sock, socket,
                 loop, explicit>>

ProbeTimesOut ==
  /\ Idle /\ health = "probing"
  /\ health' = "probeFailed"
  /\ UNCHANGED <<op, relayVars, down, posting, opening, returning, args, channelId, sock,
                 socket, loop, explicit>>

\* The catch clause of the check: away with the websocket, whichever it is now.
ProbeFails ==
  /\ health = "probeFailed"
  /\ CloseCurrentSocket
  /\ op' = WaitersRejected(op)
  /\ health' = "recovering"
  /\ loop' = IF loop = "off" THEN "on" ELSE loop
  /\ UNCHANGED <<relayVars, posting, returning, args, channelId, explicit>>

HeldRuns(o) ==
  /\ Idle /\ op[o].pc = "held"
  /\ op' = [op EXCEPT ![o].pc = "ready", ![o].late = TRUE]
  /\ UNCHANGED <<relayVars, connVars, down>>

\* Without an open websocket sendEvent throws.
sendEvent(o) == SocketIsOpen /\ up' = [up EXCEPT ![socket] = Append(@, o)]

\* requestResponse: the waiter is recorded once the event is sent.  An event can
\* also be too large to be sent.
Run(o) ==
  /\ op[o].pc = "ready"
  /\ \/ /\ sendEvent(o)
        /\ op' = [op EXCEPT ![o] = [@ EXCEPT !.pc = "waiting", !.on = socket, !.sent = channelId]]
     \/ op' = Settled(op, o, "failed") /\ UNCHANGED up
  /\ UNCHANGED <<done, acking, connVars, down>>

TimesOut(o) ==
  /\ Idle /\ op[o].pc = "waiting"
  /\ op' = Settled(op, o, "unknown")
  /\ UNCHANGED <<relayVars, connVars, down>>

\* Seeded fault: any event that names the operation answers it, and one of
\* another type fails the validation.
AnyEventResolves(e) ==
  IF e.op \in Ops /\ op[e.op].pc = "waiting"
  THEN Settled(op, e.op, IF e.type = "ack" THEN "ok" ELSE "failed") ELSE op

\* resolveResponseWaiter: the acknowledgement or an error; any other type of
\* event that names the operation leaves its waiter alone.
Resolved(e) ==
  IF e.type \in {"ack", "error"} /\ op[e.op].pc = "waiting"
  THEN Settled(op, e.op, IF e.type = "ack" THEN "ok" ELSE "failed") ELSE op

\* The ws library may hand over the first events before the promise of connect
\* is settled.
Receive(c) ==
  /\ NothingReady /\ socket = c /\ sock[c] = "open" /\ down[c] # <<>>
  /\ op' = Resolved(Head(down[c]))
  /\ down' = [down EXCEPT ![c] = Tail(@)]
  /\ UNCHANGED <<relayVars, connVars>>

-----------------------------------------------------------------------------
(* The relay                                                               *)

Event(type, o, item) == [type |-> type, op |-> o, item |-> item]

\* Written to a connection that no longer reads, an event is lost.
Written(c, e) == IF sock[c] = "open" THEN [down EXCEPT ![c] = Append(@, e)] ELSE down

\* The relay's reader also works off what came before the websocket closed.
CarriesOut(c) ==
  /\ up[c] # <<>> /\ acking[c] = None
  /\ done' = [done EXCEPT ![Head(up[c])] = @ + 1]
  /\ acking' = [acking EXCEPT ![c] = Head(up[c])]
  /\ up' = [up EXCEPT ![c] = Tail(@)]
  /\ UNCHANGED <<op, connVars, down>>

\* Seeded fault: an error path returns without sendError.
RefusesSilently(c) ==
  /\ up[c] # <<>> /\ acking[c] = None
  /\ up' = [up EXCEPT ![c] = Tail(@)]
  /\ UNCHANGED <<op, done, acking, connVars, down>>

\* Target unknown or unreachable, request gone, sender not entitled: one action for
\* every path of the relay that ends with sendError.  A connection that
\* connectionCanSend refuses is closed without a word: that is Closes and Drops.
Refuses(c) ==
  /\ up[c] # <<>> /\ acking[c] = None
  /\ up' = [up EXCEPT ![c] = Tail(@)]
  /\ down' = Written(c, Event("error", Head(up[c]), None))
  /\ UNCHANGED <<op, done, acking, connVars>>

Acknowledges(c) ==
  /\ acking[c] # None
  /\ acking' = [acking EXCEPT ![c] = None]
  /\ down' = Written(c, Event("ack", acking[c], None))
  /\ UNCHANGED <<op, done, up, connVars>>

\* The target's own goroutine is as fast: its message.reply, correlated with
\* the operation, may overtake the acknowledgement.
ReplyOvertakes(c) ==
  /\ acking[c] # None /\ op[acking[c]].item = None
  /\ \A i \in DOMAIN down[c] : down[c][i].op # acking[c]
  /\ sock[c] = "open"
  /\ down' = Written(c, Event("reply", acking[c], None))
  /\ UNCHANGED <<op, relayVars, connVars>>

\* Somebody else's event, an ask or a join.request, for this device.
Notifies(c, type, r) ==
  /\ sock[c] = "open"
  /\ down' = Written(c, Event(type, None, r))
  /\ UNCHANGED <<op, relayVars, connVars>>

\* The relay notices that the connection is gone.
Drops(c) ==
  /\ sock[c] \in {"closed", "halfOpen"} /\ (up[c] # <<>> \/ acking[c] # None)
  /\ up' = [up EXCEPT ![c] = <<>>]
  /\ acking' = [acking EXCEPT ![c] = None]
  /\ UNCHANGED <<op, done, connVars, down>>
=============================================================================
