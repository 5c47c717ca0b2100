----------------------------- MODULE ToolProofs -----------------------------
(***************************************************************************)
(* For every number of operations, channels, websockets and requests: an   *)
(* operation is sent in the channel it was issued for, unless it was held  *)
(* until an outdated POST of a reconnect loop ended, and who waits for an  *)
(* answer waits on the websocket in use.                                   *)
(*                                                                         *)
(* The argument: an operation that awaits a health check was issued for    *)
(* lastConnectArgs, for connect lets everyone who waits go while it takes  *)
(* the websocket away, at once or, if their check awaits the POST of a     *)
(* loop, late; a websocket belongs to lastConnectArgs; and what is ready   *)
(* runs before any callback could bring another websocket.                 *)
(***************************************************************************)
EXTENDS Tool, TLAPS

Pc == {"none", "checking", "held", "ready", "waiting"} \cup Ended

Operations == [Ops -> [pc : Pc, item : Requests \cup {None}, late : BOOLEAN,
                       channel : Channels \cup {None}, sent : Channels \cup {None},
                       on : Conns \cup {None}]]

OpTypeOK == op \in Operations

SocketTypeOK ==
  /\ {args, channelId} \subseteq Channels \cup {None}
  /\ sock \in [Conns -> {"closed", "connecting", "open", "halfOpen"}]
  /\ socket \in Conns \cup {None}

SocketIsOfArgs == socket # None => channelId = args

CheckIsOfArgs == \A o \in Ops : op[o].pc = "checking" => op[o].channel = args

ReadyIsOfArgs ==
  \A o \in Ops : op[o].pc = "ready" /\ ~op[o].late /\ SocketIsOpen => op[o].channel = args

IInv == /\ OpTypeOK /\ SocketTypeOK
        /\ SocketIsOfArgs /\ CheckIsOfArgs /\ ReadyIsOfArgs
        /\ WaiterHasSocket /\ OperationKeepsChannel

-----------------------------------------------------------------------------
(* What the helpers make of the operations and the websockets              *)

\* An operation that has ended no longer counts, and the others are as before.
LEMMA SettledOps ==
  ASSUME NEW ops \in Operations, NEW o \in Ops, NEW end \in Ended
  PROVE  /\ Settled(ops, o, end) \in Operations
         /\ Settled(ops, o, end)[o].pc = end
         /\ \A p \in Ops \ {o} : Settled(ops, o, end)[p] = ops[p]
BY DEF Operations, Settled, Pc

\* Rejection ends every waiter and nothing else.
LEMMA RejectedOps ==
  ASSUME NEW ops \in Operations
  PROVE  /\ WaitersRejected(ops) \in Operations
         /\ \A o \in Ops : /\ WaitersRejected(ops)[o].pc # "waiting"
                           /\ ops[o].pc # "waiting" => WaitersRejected(ops)[o] = ops[o]
                           /\ ops[o].pc = "waiting" => WaitersRejected(ops)[o].pc = "unknown"
<1>1. "unknown" \in Ended
  BY DEF Ended
<1>2. \A o \in Ops : /\ Settled(ops, o, "unknown") \in Operations
                     /\ Settled(ops, o, "unknown")[o].pc = "unknown"
  BY <1>1, SettledOps
<1>3. \A o \in Ops : WaitersRejected(ops)[o] = IF ops[o].pc = "waiting"
                     THEN Settled(ops, o, "unknown")[o] ELSE ops[o]
  BY DEF WaitersRejected
<1>4. WaitersRejected(ops) \in Operations
  BY <1>2 DEF WaitersRejected, Operations
<1>5. QED BY <1>2, <1>3, <1>4

\* Operations that move on keep everything but how far they are.
LEMMA MovedOps ==
  ASSUME NEW ops \in Operations, NEW from \in Pc, NEW to \in Pc
  PROVE  /\ Moved(ops, from, to) \in Operations
         /\ \A o \in Ops :
              /\ ops[o].pc # from => Moved(ops, from, to)[o] = ops[o]
              /\ ops[o].pc = from => /\ Moved(ops, from, to)[o].pc = to
                                    /\ Moved(ops, from, to)[o].channel = ops[o].channel
                                    /\ Moved(ops, from, to)[o].late = ops[o].late
BY DEF Operations, Moved

\* closeCurrentSocket leaves no websocket, and the others as they are.
LEMMA ClosedSockets ==
  ASSUME SocketTypeOK
  PROVE  SockClosed \in [Conns -> {"closed", "connecting", "open", "halfOpen"}]
BY ToolAssumption DEF SocketTypeOK, SockClosed

\* Without a websocket, none is open.
LEMMA NoneOpen ==
  ASSUME socket' = None
  PROVE  ~SocketIsOpen'
BY DEF SocketIsOpen

-----------------------------------------------------------------------------
(* The invariant                                                           *)

LEMMA InitInv == Init => IInv
<1> SUFFICES ASSUME Init PROVE IInv
  OBVIOUS
<1> USE DEF Init, DeliveryInit
<1>1. OpTypeOK
  BY DEF OpTypeOK, Operations, Pc
<1>2. SocketTypeOK
  BY DEF SocketTypeOK
<1>3. \A o \in Ops : op[o].pc = "none"
  OBVIOUS
<1>4. SocketIsOfArgs /\ CheckIsOfArgs /\ ReadyIsOfArgs
  BY <1>3 DEF SocketIsOfArgs, CheckIsOfArgs, ReadyIsOfArgs
<1>5. WaiterHasSocket /\ OperationKeepsChannel
  BY <1>3 DEF WaiterHasSocket, OperationKeepsChannel
<1>6. QED BY <1>1, <1>2, <1>4, <1>5 DEF IInv

\* connect and disconnect: nobody waits or checks afterwards, and there is no
\* websocket.
LEMMA EveryoneLeaves ==
  ASSUME IInv, op' = CheckOutdated(WaitersRejected(op)), CloseCurrentSocket,
         args' \in Channels \cup {None}, UNCHANGED channelId
  PROVE  IInv'
<1>1. WaitersRejected(op) \in Operations
  BY RejectedOps DEF IInv, OpTypeOK
<1>2. PICK to \in {"held", "ready"} : op' = Moved(WaitersRejected(op), "checking", to)
  BY DEF CheckOutdated
<1>3. to \in Pc /\ "checking" \in Pc
  BY <1>2 DEF Pc
<1>4. op' \in Operations
  BY <1>1, <1>2, <1>3, MovedOps
<1>5. \A o \in Ops : op'[o].pc \notin {"checking", "waiting"}
  <2>1. \A o \in Ops : WaitersRejected(op)[o].pc # "waiting"
    BY RejectedOps DEF IInv, OpTypeOK
  <2>2. ASSUME NEW o \in Ops PROVE op'[o].pc \notin {"checking", "waiting"}
    <3>1. CASE WaitersRejected(op)[o].pc = "checking"
      BY <1>1, <1>2, <1>3, <3>1, MovedOps
    <3>2. CASE WaitersRejected(op)[o].pc # "checking"
      BY <1>1, <1>2, <1>3, <2>1, <3>2, MovedOps
    <3>3. QED BY <3>1, <3>2
  <2>3. QED BY <2>2
<1>6. socket' = None /\ ~SocketIsOpen'
  BY NoneOpen DEF CloseCurrentSocket
<1>7. SocketTypeOK'
  BY ClosedSockets, <1>6 DEF SocketTypeOK, IInv, CloseCurrentSocket
<1>8. SocketIsOfArgs' /\ CheckIsOfArgs' /\ ReadyIsOfArgs'
  BY <1>5, <1>6 DEF SocketIsOfArgs, CheckIsOfArgs, ReadyIsOfArgs
<1>9. WaiterHasSocket' /\ OperationKeepsChannel'
  BY <1>5 DEF WaiterHasSocket, OperationKeepsChannel
<1>10. QED BY <1>4, <1>7, <1>8, <1>9 DEF IInv, OpTypeOK

\* A websocket is lost: nobody waits afterwards; the checks go on.
LEMMA WaitersLeave ==
  ASSUME IInv, op' = WaitersRejected(op), CloseCurrentSocket, UNCHANGED <<args, channelId>>
  PROVE  IInv'
<1>1. op' \in Operations
  BY RejectedOps DEF IInv, OpTypeOK
<1>2. \A o \in Ops : op'[o].pc # "waiting" /\ (op'[o].pc = "checking" => op'[o] = op[o])
  BY RejectedOps DEF IInv, OpTypeOK
<1>3. socket' = None /\ ~SocketIsOpen'
  BY NoneOpen DEF CloseCurrentSocket
<1>4. SocketTypeOK'
  BY ClosedSockets, <1>3 DEF SocketTypeOK, IInv, CloseCurrentSocket
<1>5. SocketIsOfArgs' /\ CheckIsOfArgs' /\ ReadyIsOfArgs'
  BY <1>2, <1>3 DEF SocketIsOfArgs, CheckIsOfArgs, ReadyIsOfArgs, IInv
<1>6. WaiterHasSocket' /\ OperationKeepsChannel'
  BY <1>2 DEF WaiterHasSocket, OperationKeepsChannel
<1>7. QED BY <1>1, <1>4, <1>5, <1>6 DEF IInv, OpTypeOK

\* Operations come to an end, and the connection is as before.
LEMMA SomeEnd ==
  ASSUME IInv, op' \in Operations,
         \A o \in Ops : op'[o] = op[o] \/ op'[o].pc \in Ended,
         UNCHANGED <<args, channelId, sock, socket>>
  PROVE  IInv'
<1>1. SocketTypeOK' /\ SocketIsOfArgs' /\ SocketIsOpen' = SocketIsOpen
  BY DEF IInv, SocketTypeOK, SocketIsOfArgs, SocketIsOpen
<1>2. \A o \in Ops : op'[o].pc \in {"checking", "ready", "waiting"} => op'[o] = op[o]
  BY DEF Ended
<1>3. CheckIsOfArgs' /\ ReadyIsOfArgs'
  BY <1>1, <1>2 DEF IInv, CheckIsOfArgs, ReadyIsOfArgs
<1>4. WaiterHasSocket' /\ OperationKeepsChannel'
  BY <1>1, <1>2 DEF IInv, WaiterHasSocket, OperationKeepsChannel
<1>5. QED BY <1>1, <1>3, <1>4 DEF IInv, OpTypeOK

\* The checks end, on the same open websocket or on one that has just opened.
LEMMA ChecksEnd ==
  ASSUME IInv, op' = CheckEnds(op), UNCHANGED <<args, channelId, socket>>,
         sock' \in [Conns -> {"closed", "connecting", "open", "halfOpen"}],
         SocketIsOpen => SocketIsOpen',
         NothingReady
  PROVE  IInv'
<1>1. op \in Operations /\ "checking" \in Pc /\ "ready" \in Pc
  BY DEF IInv, OpTypeOK, Pc
<1>2. op' \in Operations
  BY <1>1, MovedOps DEF CheckEnds
<1>3. ASSUME NEW o \in Ops
      PROVE  /\ op'[o].pc # "checking"
             /\ op'[o].pc = "waiting" => op'[o] = op[o]
             /\ op'[o].pc = "ready" => op'[o].channel = op[o].channel /\ op[o].pc = "checking"
  <2>1. CASE op[o].pc = "checking"
    BY <1>1, <2>1, MovedOps DEF CheckEnds
  <2>2. CASE op[o].pc # "checking"
    BY <1>1, <2>2, MovedOps DEF CheckEnds, NothingReady
  <2>3. QED BY <2>1, <2>2
<1>4. SocketTypeOK' /\ SocketIsOfArgs'
  BY DEF IInv, SocketTypeOK, SocketIsOfArgs
<1>5. CheckIsOfArgs' /\ ReadyIsOfArgs'
  BY <1>3 DEF IInv, CheckIsOfArgs, ReadyIsOfArgs
<1>6. WaiterHasSocket' /\ OperationKeepsChannel'
  BY <1>3 DEF IInv, WaiterHasSocket, OperationKeepsChannel
<1>7. QED BY <1>2, <1>4, <1>5, <1>6 DEF IInv, OpTypeOK

\* The POST is answered: the next websocket is one of lastConnectArgs and not
\* open yet, and nobody waits for the last one.
LEMMA PostedInv ==
  ASSUME IInv, NEW c \in Conns, Posted(c)
  PROVE  IInv'
<1>1. op' \in Operations
  BY RejectedOps DEF Posted, IInv, OpTypeOK
<1>2. \A o \in Ops : op'[o].pc # "waiting" /\ (op'[o].pc = "checking" => op'[o] = op[o])
  BY RejectedOps DEF Posted, IInv, OpTypeOK
<1>3. SockClosed \in [Conns -> {"closed", "connecting", "open", "halfOpen"}]
  BY ClosedSockets DEF IInv
<1>4. SocketTypeOK' /\ SocketIsOfArgs'
  BY <1>3 DEF Posted, IInv, SocketTypeOK, SocketIsOfArgs
<1>5. ~SocketIsOpen'
  BY <1>3 DEF Posted, SocketIsOpen
<1>6. CheckIsOfArgs' /\ ReadyIsOfArgs'
  BY <1>2, <1>5 DEF Posted, IInv, CheckIsOfArgs, ReadyIsOfArgs
<1>7. WaiterHasSocket' /\ OperationKeepsChannel'
  BY <1>2 DEF WaiterHasSocket, OperationKeepsChannel
<1>8. QED BY <1>1, <1>4, <1>6, <1>7 DEF IInv, OpTypeOK

\* The websocket opens.  Nobody is ready then but those whose check it ends.
LEMMA OpensInv ==
  ASSUME IInv, NEW c \in Conns, NEW first, Opens(c, first)
  PROVE  IInv'
<1>1. ~SocketIsOpen /\ NothingReady /\ socket = c /\ UNCHANGED <<args, channelId, socket>>
  BY DEF Opens, SocketIsOpen, Idle
<1>2. sock' \in [Conns -> {"closed", "connecting", "open", "halfOpen"}]
  BY DEF Opens, IInv, SocketTypeOK
<1>3. CASE op' = CheckEnds(op)
  BY <1>1, <1>2, <1>3, ChecksEnd
<1>4. CASE UNCHANGED op
  <2>1. \A o \in Ops : op[o].pc \notin {"ready", "waiting"}
    BY <1>1 DEF NothingReady, IInv, WaiterHasSocket
  <2>2. SocketTypeOK' /\ SocketIsOfArgs'
    BY <1>1, <1>2 DEF IInv, SocketTypeOK, SocketIsOfArgs
  <2>3. CheckIsOfArgs' /\ ReadyIsOfArgs'
    BY <1>1, <1>4, <2>1 DEF IInv, CheckIsOfArgs, ReadyIsOfArgs
  <2>4. WaiterHasSocket' /\ OperationKeepsChannel'
    BY <1>4, <2>1 DEF WaiterHasSocket, OperationKeepsChannel
  <2>5. QED BY <1>4, <2>2, <2>3, <2>4 DEF IInv, OpTypeOK
<1>5. QED BY <1>3, <1>4 DEF Opens

\* A websocket that does not open has no waiters to reject.
LEMMA OpenFailsInv ==
  ASSUME IInv, NEW c \in Conns, OpenFails(c)
  PROVE  IInv'
<1>1. \A o \in Ops : op[o].pc # "waiting"
  BY DEF OpenFails, IInv, WaiterHasSocket, SocketIsOpen
<1>2. socket' = None /\ ~SocketIsOpen' /\ UNCHANGED <<op, args, channelId>>
  BY NoneOpen DEF OpenFails, CloseCurrentSocket
<1>3. SocketTypeOK'
  BY <1>2, ClosedSockets DEF IInv, SocketTypeOK, OpenFails, CloseCurrentSocket
<1>4. SocketIsOfArgs' /\ CheckIsOfArgs' /\ ReadyIsOfArgs'
  BY <1>2 DEF IInv, SocketIsOfArgs, CheckIsOfArgs, ReadyIsOfArgs
<1>5. WaiterHasSocket' /\ OperationKeepsChannel'
  BY <1>1, <1>2 DEF WaiterHasSocket, OperationKeepsChannel
<1>6. QED BY <1>2, <1>3, <1>4, <1>5 DEF IInv, OpTypeOK

\* An operation is issued for lastConnectArgs and runs at once or after the check.
LEMMA IssueInv ==
  ASSUME IInv, NEW o \in Ops, NEW item \in Requests \cup {None}, Issue(o, item)
  PROVE  IInv'
<1>1. UNCHANGED <<args, channelId, sock, socket>>
  BY DEF Issue
<1>2. PICK pc \in {"ready", "checking"} :
        op' = [op EXCEPT ![o] = [@ EXCEPT !.item = item, !.channel = args, !.pc = pc]]
  BY DEF Issue
<1>3. op \in Operations /\ args \in Channels \cup {None} /\ pc \in Pc
  BY <1>2 DEF IInv, OpTypeOK, SocketTypeOK, Pc
<1>4. op' \in Operations
  BY <1>2, <1>3 DEF Operations
<1>5. op'[o].channel = args /\ op'[o].pc # "waiting" /\ \A p \in Ops \ {o} : op'[p] = op[p]
  BY <1>2, <1>3 DEF Operations
<1>6. SocketTypeOK' /\ SocketIsOfArgs' /\ SocketIsOpen' = SocketIsOpen
  BY <1>1 DEF IInv, SocketTypeOK, SocketIsOfArgs, SocketIsOpen
<1>7. CheckIsOfArgs' /\ ReadyIsOfArgs'
  BY <1>1, <1>5, <1>6 DEF IInv, CheckIsOfArgs, ReadyIsOfArgs
<1>8. WaiterHasSocket' /\ OperationKeepsChannel'
  BY <1>1, <1>5, <1>6 DEF IInv, WaiterHasSocket, OperationKeepsChannel
<1>9. QED BY <1>4, <1>6, <1>7, <1>8 DEF IInv, OpTypeOK

\* What an outdated POST held is ready, and known to be late.
LEMMA HeldRunsInv ==
  ASSUME IInv, NEW o \in Ops, HeldRuns(o)
  PROVE  IInv'
<1>1. UNCHANGED <<args, channelId, sock, socket>>
  BY DEF HeldRuns, connVars
<1> DEFINE x == [op[o] EXCEPT !.pc = "ready", !.late = TRUE]
<1>2. op \in Operations /\ op' = [op EXCEPT ![o] = x]
  BY DEF HeldRuns, IInv, OpTypeOK, Operations
<1>3. x.pc = "ready" /\ x.late
  BY <1>2 DEF Operations
<1>4. op' \in Operations
  <2>1. "ready" \in Pc
    BY DEF Pc
  <2>2. x \in [pc : Pc, item : Requests \cup {None}, late : BOOLEAN,
               channel : Channels \cup {None}, sent : Channels \cup {None},
               on : Conns \cup {None}]
    BY <1>2, <2>1 DEF Operations
  <2> HIDE DEF x
  <2>3. QED BY <1>2, <2>2 DEF Operations
<1>5. op'[o].pc = "ready" /\ op'[o].late /\ \A p \in Ops \ {o} : op'[p] = op[p]
  <2> HIDE DEF x
  <2>1. QED BY <1>2, <1>3 DEF Operations
<1> HIDE DEF x
<1>6. SocketTypeOK' /\ SocketIsOfArgs' /\ SocketIsOpen' = SocketIsOpen
  BY <1>1 DEF IInv, SocketTypeOK, SocketIsOfArgs, SocketIsOpen
<1>7. CheckIsOfArgs' /\ ReadyIsOfArgs'
  BY <1>1, <1>5, <1>6 DEF IInv, CheckIsOfArgs, ReadyIsOfArgs
<1>8. WaiterHasSocket' /\ OperationKeepsChannel'
  BY <1>1, <1>5, <1>6 DEF IInv, WaiterHasSocket, OperationKeepsChannel
<1>9. QED BY <1>4, <1>6, <1>7, <1>8 DEF IInv, OpTypeOK

\* What is sent goes out on the current websocket, which is one of lastConnectArgs,
\* as the operation is unless it is late.
LEMMA RunInv ==
  ASSUME IInv, NEW o \in Ops, Run(o)
  PROVE  IInv'
<1>1. UNCHANGED <<args, channelId, sock, socket>>
  BY DEF Run, connVars
<1>2. op \in Operations
  BY DEF IInv, OpTypeOK
<1>3. CASE op' = Settled(op, o, "failed")
  <2>1. "failed" \in Ended
    BY DEF Ended
  <2>2. op' \in Operations /\ \A p \in Ops : op'[p] = op[p] \/ op'[p].pc \in Ended
    BY <1>2, <1>3, <2>1, SettledOps
  <2>3. QED BY <1>1, <2>2, SomeEnd
<1>4. CASE /\ sendEvent(o)
           /\ op' = [op EXCEPT ![o] = [@ EXCEPT !.pc = "waiting", !.on = socket, !.sent = channelId]]
  <2>1. SocketIsOpen /\ op[o].pc = "ready"
    BY <1>4 DEF sendEvent, Run
  <2>2. socket \in Conns /\ channelId \in Channels \cup {None} /\ channelId = args
    BY <2>1 DEF SocketIsOpen, IInv, SocketTypeOK, SocketIsOfArgs
  <2> DEFINE x == [op[o] EXCEPT !.pc = "waiting", !.on = socket, !.sent = channelId]
  <2>3. op' \in Operations
    <3>1. op' = [op EXCEPT ![o] = x]
      BY <1>4
    <3>2. "waiting" \in Pc
      BY DEF Pc
    <3>3. x \in [pc : Pc, item : Requests \cup {None}, late : BOOLEAN,
                 channel : Channels \cup {None}, sent : Channels \cup {None},
                 on : Conns \cup {None}]
      BY <1>2, <2>2, <3>2 DEF Operations
    <3> HIDE DEF x
    <3>4. QED BY <1>2, <3>1, <3>3 DEF Operations
  <2>4. /\ op'[o].pc = "waiting" /\ op'[o].on = socket /\ op'[o].sent = channelId
        /\ op'[o].channel = op[o].channel /\ op'[o].late = op[o].late
        /\ \A p \in Ops \ {o} : op'[p] = op[p]
    BY <1>2, <1>4 DEF Operations
  <2>5. SocketTypeOK' /\ SocketIsOfArgs' /\ SocketIsOpen' = SocketIsOpen
    BY <1>1 DEF IInv, SocketTypeOK, SocketIsOfArgs, SocketIsOpen
  <2>6. CheckIsOfArgs' /\ ReadyIsOfArgs'
    BY <1>1, <2>4, <2>5 DEF IInv, CheckIsOfArgs, ReadyIsOfArgs
  <2>7. WaiterHasSocket'
    BY <1>1, <2>1, <2>4, <2>5 DEF IInv, WaiterHasSocket
  <2>8. ~op[o].late => op[o].channel = args
    BY <2>1 DEF IInv, ReadyIsOfArgs
  <2>9. OperationKeepsChannel'
    BY <2>2, <2>4, <2>8 DEF IInv, OperationKeepsChannel
  <2>10. QED BY <2>3, <2>5, <2>6, <2>7, <2>9 DEF IInv, OpTypeOK
<1>5. QED BY <1>3, <1>4 DEF Run

\* An answer or the time-out ends one waiter, if there is one.
LEMMA AnswerInv ==
  ASSUME IInv,
         (\E c \in Conns : Receive(c)) \/ (\E o \in Ops : TimesOut(o))
  PROVE  IInv'
<1>1. UNCHANGED <<args, channelId, sock, socket>>
  BY DEF Receive, TimesOut, connVars
<1>2. op \in Operations /\ {"ok", "failed", "unknown"} \subseteq Ended
  BY DEF IInv, OpTypeOK, Ended
<1>3. ASSUME NEW p, NEW end \in Ended, op' = Settled(op, p, end)
      PROVE  IInv'
  <2>1. CASE p \in Ops
    <3>1. /\ Settled(op, p, end) \in Operations
          /\ Settled(op, p, end)[p].pc = end
          /\ \A q \in Ops \ {p} : Settled(op, p, end)[q] = op[q]
      BY <1>2, <2>1, SettledOps
    <3>2. op' \in Operations
      BY <1>3, <3>1
    <3>3. \A q \in Ops : op'[q] = op[q] \/ op'[q].pc \in Ended
      BY <1>3, <3>1
    <3>4. QED BY <1>1, <3>2, <3>3, SomeEnd
  <2>2. CASE p \notin Ops
    <3>1. op' = op
      BY <1>2, <1>3, <2>2 DEF Settled, Operations
    <3>2. QED BY <1>1, <1>2, <3>1, SomeEnd
  <2>3. QED BY <2>1, <2>2
<1>4. CASE op' = op
  BY <1>1, <1>2, <1>4, SomeEnd
<1>5. ASSUME NEW c \in Conns, Receive(c) PROVE IInv'
  <2>1. op' = Resolved(Head(down[c]))
    BY <1>5 DEF Receive
  <2>2. \/ op' = op
        \/ \E end \in {"ok", "failed"} : op' = Settled(op, Head(down[c]).op, end)
    BY <2>1 DEF Resolved
  <2>3. QED BY <1>2, <1>3, <1>4, <2>2
<1>6. ASSUME NEW o \in Ops, TimesOut(o) PROVE IInv'
  BY <1>2, <1>3, <1>6 DEF TimesOut
<1>7. QED BY <1>5, <1>6

\* Steps that change neither an operation nor the connection.
LEMMA ElsewhereInv ==
  ASSUME IInv, UNCHANGED <<op, args, channelId, sock, socket>>
  PROVE  IInv'
BY SomeEnd DEF IInv, OpTypeOK

\* To the client a half-open websocket is an open one.
LEMMA HalfOpenInv ==
  ASSUME IInv, NEW c \in Conns, GoesHalfOpen(c)
  PROVE  IInv'
<1>1. /\ UNCHANGED <<op, args, channelId, socket>>
      /\ socket = c /\ c # None /\ sock[c] = "open" /\ sock'[c] = "halfOpen"
  BY ToolAssumption DEF GoesHalfOpen, IInv, SocketTypeOK
<1>2. SocketIsOpen /\ SocketIsOpen'
  BY <1>1 DEF SocketIsOpen
<1>3. SocketTypeOK' /\ SocketIsOfArgs'
  BY <1>1 DEF GoesHalfOpen, IInv, SocketTypeOK, SocketIsOfArgs
<1>4. CheckIsOfArgs' /\ ReadyIsOfArgs' /\ WaiterHasSocket' /\ OperationKeepsChannel'
  BY <1>1, <1>2 DEF IInv, CheckIsOfArgs, ReadyIsOfArgs, WaiterHasSocket, OperationKeepsChannel
<1>5. QED BY <1>1, <1>3, <1>4 DEF IInv, OpTypeOK

-----------------------------------------------------------------------------
(* The steps                                                               *)

\* What only moves the connection on.
LEMMA ProceedsInv == IInv /\ Proceeds => IInv'
<1> SUFFICES ASSUME IInv, Proceeds PROVE IInv'
  OBVIOUS
<1>1. CASE PostFails
  BY <1>1, ElsewhereInv DEF PostFails
<1>2. CASE LoopPosts
  BY <1>2, ElsewhereInv DEF LoopPosts
<1>3. CASE OldLoopEnds
  BY <1>3, ChecksEnd DEF OldLoopEnds, Idle, IInv, SocketTypeOK, SocketIsOpen
<1>4. CASE HeartbeatDue
  BY <1>4, ElsewhereInv DEF HeartbeatDue
<1>5. CASE ProbeAnswered
  BY <1>5, ChecksEnd DEF ProbeAnswered, Idle, IInv, SocketTypeOK, SocketIsOpen
<1>6. CASE ProbeTimesOut
  BY <1>6, ElsewhereInv DEF ProbeTimesOut
<1>7. ASSUME NEW o \in Ops, HeldRuns(o) \/ Run(o) \/ TimesOut(o) PROVE IInv'
  BY <1>7, HeldRunsInv, RunInv, AnswerInv
<1>8. ASSUME NEW c \in Conns, GoesHalfOpen(c) PROVE IInv'
  BY <1>8, HalfOpenInv
<1>9. ASSUME NEW c \in Conns, Refuses(c) \/ Acknowledges(c) \/ ReplyOvertakes(c) \/ Drops(c)
      PROVE  IInv'
  BY <1>9, ElsewhereInv DEF Refuses, Acknowledges, ReplyOvertakes, Drops, connVars
<1>10. QED BY <1>1, <1>2, <1>3, <1>4, <1>5, <1>6, <1>7, <1>8, <1>9 DEF Proceeds

\* What takes the websocket away.
LEMMA LosesSocketInv == IInv /\ LosesSocket => IInv'
<1> SUFFICES ASSUME IInv, LosesSocket PROVE IInv'
  OBVIOUS
<1>1. CASE ProbeFails
  BY <1>1, WaitersLeave DEF ProbeFails
<1>2. ASSUME NEW c \in Conns, Closes(c) PROVE IInv'
  BY <1>2, WaitersLeave DEF Closes
<1>3. QED BY <1>1, <1>2, PostedInv, OpenFailsInv DEF LosesSocket

\* The relay's events for the device change nothing in the client yet.
LEMMA NotifiesInv ==
  ASSUME IInv, NEW c, NEW type, NEW r, Notifies(c, type, r)
  PROVE  IInv'
BY ElsewhereInv DEF Notifies, connVars

\* Every step keeps the invariant.
LEMMA NextInv == IInv /\ [Next]_vars => IInv'
<1> SUFFICES ASSUME IInv, [Next]_vars PROVE IInv'
  OBVIOUS
<1>1. ASSUME NEW ch \in Channels, Connect(ch) PROVE IInv'
  BY <1>1, EveryoneLeaves DEF Connect, connect
<1>2. CASE Disconnect
  BY <1>2, EveryoneLeaves DEF Disconnect, disconnect, IInv, SocketTypeOK
<1>3. CASE ConnectReturns
  BY <1>3, ElsewhereInv DEF ConnectReturns
<1>4. CASE LosesSocket
  BY <1>4, LosesSocketInv
<1>5. CASE Proceeds
  BY <1>5, ProceedsInv
<1>6. CASE JoinArrives
  <2>1. CASE UNCHANGED deliveryVars
    BY <2>1, ElsewhereInv DEF deliveryVars, connVars
  <2>2. QED BY <1>6, <2>1, NotifiesInv DEF JoinArrives
<1>7. ASSUME NEW o \in Ops, Execute(o) PROVE IInv'
  BY <1>7, IssueInv DEF Execute
<1>8. ASSUME NEW c \in Conns, OpenSocket(c) PROVE IInv'
  BY <1>8, OpensInv DEF OpenSocket
<1>9. ASSUME NEW c \in Conns, HandleEvent(c) PROVE IInv'
  BY <1>9, AnswerInv DEF HandleEvent
<1>10. ASSUME NEW c \in Conns, AskArrives(c) PROVE IInv'
  BY <1>10, NotifiesInv DEF AskArrives
<1>11. ASSUME NEW c \in Conns, Decides(c) PROVE IInv'
  BY <1>11, ElsewhereInv DEF Decides, CarriesOut, connVars
<1>12. CASE UNCHANGED vars
  BY <1>12, ElsewhereInv DEF vars, deliveryVars, connVars
<1>13. QED BY <1>1, <1>2, <1>3, <1>4, <1>5, <1>6, <1>7, <1>8, <1>9, <1>10, <1>11, <1>12 DEF Next

-----------------------------------------------------------------------------
\* The invariant holds throughout.
LEMMA Invariant == Spec => []IInv
BY InitInv, NextInv, PTL DEF Spec

\* No waiter outlives its websocket: whoever takes the websocket away rejects
\* the response waiters in the same step.
THEOREM WaitersCorrect == Spec => []WaiterHasSocket
<1>1. IInv => WaiterHasSocket
  BY DEF IInv
<1>2. QED BY <1>1, Invariant, PTL

\* An operation that was issued for one channel and awaited a health check is not
\* sent in another, unless it is late: an operation whose check awaits the POST of a
\* loop when connect or disconnect outdates them is held until that POST ends, and
\* runs in the channel that is current by then.  Of those the theorem says nothing.
THEOREM ChannelKept == Spec => []OperationKeepsChannel
<1>1. IInv => OperationKeepsChannel
  BY DEF IInv
<1>2. QED BY <1>1, Invariant, PTL
=============================================================================
