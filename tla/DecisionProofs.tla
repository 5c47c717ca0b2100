--------------------------- MODULE DecisionProofs ----------------------------
(***************************************************************************)
(* Decisions on join requests, for all devices, connections and channels:  *)
(* what an owner decides is decided once, and carried out on the           *)
(* connection of the request it is about.                                  *)
(*                                                                         *)
(* handleJoinDecision takes a decision in one critical section of the      *)
(* registry and looks for the device's connection in a later one of the    *)
(* hub.  What relates the two is that a request being answered is off the  *)
(* list (AnsweredIsGone) and never comes back there (NoRequestReturns).    *)
(*                                                                         *)
(* The hub loses no pending connection either: whoever waits is listed,    *)
(* unless a newer connection superseded it (WaitingAreListed), because an  *)
(* entry goes with its own connection or with its decided request.         *)
(***************************************************************************)
EXTENDS HubProofs

\* A request is taken off the list by the step that decides it, and it was made
\* before: no later request has its number.
AnsweredIsGone ==
  \A c \in Conns :
    conn[c].answering # NoJoin =>
      /\ conn[c].key \in Keys
      /\ conn[c].answering.seq <= joinSeq
      /\ conn[c].answering \notin pendingJoins[conn[c].key]

DecisionInv == HubInv /\ AnsweredIsGone /\ OneDecisionPerRequest

\* c is registered and open, and its request waits for a decision.
Waits(c) ==
  /\ conn[c].role = "pending" /\ conn[c].open
  /\ conn[c].pc \notin {"gone", "accepted"}
  /\ conn[c].join \in pendingJoins[conn[c].key]

\* e took over the entry of c's request and closes c before anything else.
Supersedes(e, c) ==
  /\ conn[e].prev = c /\ conn[e].role = "pending" /\ conn[e].pc = "registered"
  /\ conn[e].key = conn[c].key /\ conn[e].join = conn[c].join

WaitingAreListed ==
  \A c \in Conns : Waits(c) => IsCurrentPending(c) \/ \E e \in Conns : Supersedes(e, c)

ListedInv == DecisionInv /\ WaitingAreListed

-----------------------------------------------------------------------------
\* Connection c answers what it answered before, for the same channel, or nothing.
AnswersOn(c) ==
  \/ conn'[c].answering = NoJoin
  \/ conn'[c].answering = conn[c].answering /\ conn'[c].key = conn[c].key

\* A connection that moves on in its loop without a decision.
LEMMA LoopAnswersOn ==
  ASSUME conn \in [Conns -> Connections], NEW c \in Conns,
         \/ RegisterMember(c) \/ RegisterPending(c) \/ GoOnline(c) \/ RejectOnline(c)
         \/ RejectEvent(c) \/ CheckPending(c) \/ EndCheck(c) \/ ReceiveDecision(c)
         \/ DecisionFails(c) \/ LookUpPending(c) \/ PromotedIsGone(c) \/ RollBack(c)
  PROVE  \A x \in Conns : AnswersOn(x)
<1>1. CASE RegisterMember(c)
  BY <1>1 DEF RegisterMember, AnswersOn, Connections
<1>2. CASE RegisterPending(c)
  BY <1>2 DEF RegisterPending, AnswersOn, Connections
<1>3. CASE GoOnline(c)
  BY <1>3 DEF GoOnline, AnswersOn, Connections
<1>4. CASE RejectOnline(c)
  BY <1>4 DEF RejectOnline, AnswersOn, Connections
<1>5. CASE RejectEvent(c)
  BY <1>5 DEF RejectEvent, AnswersOn, Connections
<1>6. CASE CheckPending(c)
  BY <1>6 DEF CheckPending, AnswersOn, Connections
<1>7. CASE EndCheck(c)
  BY <1>7 DEF EndCheck, AnswersOn, Connections
<1>8. CASE ReceiveDecision(c)
  BY <1>8 DEF ReceiveDecision, AnswersOn, Connections
<1>9. CASE DecisionFails(c)
  BY <1>9 DEF DecisionFails, AnswersOn, Connections
<1>10. CASE LookUpPending(c)
  BY <1>10 DEF LookUpPending, AnswersOn, Connections
<1>11. CASE PromotedIsGone(c)
  BY <1>11 DEF PromotedIsGone, AnswersOn, Connections
<1>12. CASE RollBack(c)
  BY <1>12 DEF RollBack, AnswersOn, Connections
<1>13. QED BY <1>1, <1>2, <1>3, <1>4, <1>5, <1>6, <1>7, <1>8, <1>9, <1>10, <1>11, <1>12

\* A connection that comes or goes answers nothing.
LEMMA EndsAnswerNothing ==
  ASSUME conn \in [Conns -> Connections], NEW c \in Conns,
         \/ \E k \in Keys : \/ \E d \in Devices : AcceptMember(c, k, d)
                            \/ \E j \in Joins : AcceptPending(c, k, j)
         \/ Disconnect(c) \/ Unregister(c)
  PROVE  \A x \in Conns : AnswersOn(x)
<1>1. ASSUME NEW k \in Keys, NEW d \in Devices, AcceptMember(c, k, d)
      PROVE  \A x \in Conns : AnswersOn(x)
  BY <1>1 DEF AcceptMember, Gone, AnswersOn
<1>2. ASSUME NEW k \in Keys, NEW j \in Joins, AcceptPending(c, k, j)
      PROVE  \A x \in Conns : AnswersOn(x)
  BY <1>2 DEF AcceptPending, Gone, AnswersOn
<1>3. CASE Disconnect(c) \/ Unregister(c)
  BY <1>3 DEF Disconnect, Unregister, Leave, Gone, AnswersOn
<1>4. QED BY <1>1, <1>2, <1>3

\* A connection that closes another one, or writes to it, and moves on.
LEMMA TouchersAnswerOn ==
  ASSUME HubInv, NEW c \in Conns,
         \/ AskOwner(c) \/ EndAnnouncing(c) \/ GoOnlinePromoted(c)
         \/ \E j \in Joins : TellOwner(c, j)
  PROVE  \A x \in Conns : AnswersOn(x)
<1>1. conn \in [Conns -> Connections]
  BY DEF HubInv, HubTyped
<1>2. conn[c].prev \in Conns \cup {None}
  BY <1>1 DEF Connections
<1>3. ASSUME NEW cs \in [Conns -> Connections], \A x \in Conns : Touched(conn[x], cs[x]),
             NEW y, conn' = [cs EXCEPT ![c] = y],
             \/ y.answering = NoJoin
             \/ y.answering = cs[c].answering /\ y.key = cs[c].key
      PROVE  \A x \in Conns : AnswersOn(x)
  <2>1. conn'[c] = y /\ \A x \in Conns \ {c} : conn'[x] = cs[x]
    BY <1>3
  <2>2. \A x \in Conns : cs[x].answering = conn[x].answering /\ cs[x].key = conn[x].key
    BY <1>3 DEF Touched
  <2>3. QED BY <1>3, <2>1, <2>2 DEF AnswersOn
<1> DEFINE cs == Closing(conn, conn[c].prev)
<1>4. cs \in [Conns -> Connections] /\ \A x \in Conns : Touched(conn[x], cs[x])
  BY <1>1, <1>2, ClosingTouches
<1>5. CASE AskOwner(c)
  <2> DEFINE k == conn[c].key
             t == IF PendingExists(k, conn[c].join.device, conn[c].join)
                  THEN {conn[c].join} ELSE {}
             y == [cs[c] EXCEPT !.pc = "announcing", !.prev = None, !.tell = t,
                                !.tellTo = owner[k]]
  <2>1. conn' = [cs EXCEPT ![c] = y]
    BY <1>5 DEF AskOwner
  <2> HIDE DEF cs
  <2> HIDE DEF t, k
  <2>2. y.answering = cs[c].answering /\ y.key = cs[c].key
    BY <1>4 DEF Connections
  <2> HIDE DEF y
  <2>3. QED BY <1>3, <1>4, <2>1, <2>2
<1>6. CASE EndAnnouncing(c)
  <2> DEFINE y == [cs[c] EXCEPT !.pc = "reading", !.prev = None, !.target = None,
                                !.tellTo = None, !.answering = NoJoin]
  <2>1. conn' = [cs EXCEPT ![c] = y]
    BY <1>6 DEF EndAnnouncing
  <2> HIDE DEF cs
  <2>2. y.answering = NoJoin
    BY <1>4 DEF Connections
  <2> HIDE DEF y
  <2>3. QED BY <1>3, <1>4, <2>1, <2>2
<1>7. CASE GoOnlinePromoted(c)
  <2> DEFINE k == conn[c].key
             t == IF owner'[k] # owner[k] THEN pendingJoins[k] ELSE {}
             y == [cs[c] EXCEPT !.pc = "announcing", !.prev = None, !.tell = t,
                                !.tellTo = owner'[k]]
  <2>1. conn' = [cs EXCEPT ![c] = y]
    BY <1>7 DEF GoOnlinePromoted
  <2> HIDE DEF cs
  <2> HIDE DEF t, k
  <2>2. y.answering = cs[c].answering /\ y.key = cs[c].key
    BY <1>4 DEF Connections
  <2> HIDE DEF y
  <2>3. QED BY <1>3, <1>4, <2>1, <2>2
<1>8. ASSUME NEW j \in Joins, TellOwner(c, j)
      PROVE  \A x \in Conns : AnswersOn(x)
  <2> DEFINE o == OwnerConn(conn[c].key, conn[c].tellTo)
             ts == Telling(conn, o, j)
             y == [ts[c] EXCEPT !.tell = ts[c].tell \ {j}]
  <2>1. conn[c].key \in Keys /\ conn[c].tellTo \in Devices \cup {None}
    BY <1>8, ServedIs DEF TellOwner, ServedRightly, Connections
  <2>2. o \in Conns \cup {None}
    BY <2>1 DEF OwnerConn, HubInv, HubTyped
  <2>3. conn' = [ts EXCEPT ![c] = y]
    BY <1>8 DEF TellOwner
  <2> HIDE DEF o
  <2>4. ts \in [Conns -> Connections] /\ \A x \in Conns : Touched(conn[x], ts[x])
    BY <1>1, <2>2, TellingTouches
  <2> HIDE DEF ts
  <2>5. y.answering = ts[c].answering /\ y.key = ts[c].key
    BY <2>4 DEF Connections
  <2> HIDE DEF y
  <2>6. QED BY <1>3, <2>3, <2>4, <2>5
<1>9. QED BY <1>5, <1>6, <1>7, <1>8

\* A promotion and a refusal write to the connection of the request as well.
LEMMA DeliveryAnswersOn ==
  ASSUME HubInv, NEW c \in Conns, PromotePending(c) \/ RefusePending(c)
  PROVE  \A x \in Conns : AnswersOn(x)
<1>1. conn[c] \in Connections /\ conn \in [Conns -> Connections] /\ conn[c].target \in Conns
  <2>1. conn[c].pc \in {"promoting", "refusing"}
    BY DEF PromotePending, RefusePending
  <2>2. QED BY <2>1, ServedIs DEF ServedRightly
<1> DEFINE t == conn[c].target
<1>2. CASE RefusePending(c)
  <2> DEFINE cs == [conn EXCEPT ![t] = [conn[t] EXCEPT !.open = FALSE]]
             y == [cs[c] EXCEPT !.pc = "reading", !.answering = NoJoin, !.target = None]
  <2>1. conn' = [cs EXCEPT ![c] = y]
    BY <1>2 DEF RefusePending
  <2>2. /\ cs \in [Conns -> Connections]
        /\ \A x \in Conns : cs[x].answering = conn[x].answering /\ cs[x].key = conn[x].key
    <3> DEFINE w == conn[t]
               z == [w EXCEPT !.open = FALSE]
    <3>1. w \in Connections
      BY <1>1
    <3> HIDE DEF t, w
    <3>2. z \in Connections
      BY <3>1 DEF Connections
    <3>3. z.answering = w.answering /\ z.key = w.key
      BY <3>1 DEF Connections
    <3> HIDE DEF z
    <3>4. cs = [conn EXCEPT ![t] = z] /\ w = conn[t] /\ t \in Conns
      BY <1>1 DEF z, w, t
    <3> HIDE DEF cs
    <3>5. cs \in [Conns -> Connections]
      BY <1>1, <3>2, <3>4
    <3>6. cs[t] = z /\ \A x \in Conns \ {t} : cs[x] = conn[x]
      BY <1>1, <3>4
    <3>7. QED BY <3>3, <3>4, <3>5, <3>6
  <2> HIDE DEF cs
  <2>3. y.answering = NoJoin
    BY <2>2 DEF Connections
  <2> HIDE DEF y
  <2>4. conn'[c] = y /\ \A x \in Conns \ {c} : conn'[x] = cs[x]
    BY <2>1, <2>2
  <2>5. QED BY <2>2, <2>3, <2>4 DEF AnswersOn
<1>3. CASE PromotePending(c)
  <2> DEFINE k == conn[c].key
             j == conn[c].answering
             owns == owner[k] = j.device
             z == [conn[t] EXCEPT !.role = "member", !.overtaken = @ \/ owns]
             cs == [conn EXCEPT ![t] = z]
             p == memberConn[k][j.device]
             y == [cs[c] EXCEPT !.pc = "promoted", !.prev = p]
  <2>1. conn' = [cs EXCEPT ![c] = y]
    BY <1>3 DEF PromotePending
  <2> HIDE DEF p, owns
  <2>2. DOMAIN z = DOMAIN conn[t] /\ z.answering = conn[t].answering /\ z.key = conn[t].key
    BY <1>1 DEF Connections
  <2> HIDE DEF z
  <2>3. /\ cs \in [Conns -> {conn[x] : x \in Conns} \cup {z}]
        /\ \A x \in Conns : cs[x].answering = conn[x].answering /\ cs[x].key = conn[x].key
    BY <1>1, <2>2
  <2>4. y.answering = cs[c].answering /\ y.key = cs[c].key
    BY <1>1, <2>2 DEF Connections
  <2> HIDE DEF y, cs
  <2>5. conn'[c] = y /\ \A x \in Conns \ {c} : conn'[x] = cs[x]
    BY <2>1, <2>3
  <2>6. QED BY <2>3, <2>4, <2>5 DEF AnswersOn
<1>4. QED BY <1>2, <1>3

\* What other goroutines have taken on closes connections or writes to them.
LEMMA JobsAnswerOn ==
  ASSUME HubInv, NEW k \in Keys, NEW d \in Devices, Expiry(k, d) \/ WorkOn(k, d)
  PROVE  \A x \in Conns : AnswersOn(x)
<1>1. conn \in [Conns -> Connections]
  BY DEF HubInv, HubTyped
<1>2. CASE conn' = conn
  BY <1>2 DEF AnswersOn
<1>3. CASE Expiry(k, d)
  BY <1>2, <1>3 DEF Expiry, Fire, FireLoose, expireOfflineMember
<1>4. ASSUME NEW job \in jobs, ScheduleOfflineExpiry(job)
      PROVE  \A x \in Conns : AnswersOn(x)
  BY <1>2, <1>4 DEF ScheduleOfflineExpiry
<1>5. ASSUME NEW job \in jobs, closePendingForChannel(job)
      PROVE  \A x \in Conns : AnswersOn(x)
  <2> TAKE x \in Conns
  <2>1. conn'[x] = conn[x] \/ conn'[x] = [conn[x] EXCEPT !.open = FALSE]
    BY <1>5 DEF closePendingForChannel
  <2>2. conn[x] \in Connections
    BY <1>1
  <2>3. QED BY <2>1, <2>2 DEF AnswersOn, Connections
<1>6. ASSUME NEW job \in jobs, job.key = k, job.device = d, NEW j \in Joins, TellNewOwner(job, j)
      PROVE  \A x \in Conns : AnswersOn(x)
  <2> DEFINE o == OwnerConn(job.key, job.device)
  <2>1. o \in Conns \cup {None}
    BY <1>6 DEF OwnerConn, HubInv, HubTyped
  <2>2. conn' = Telling(conn, o, j)
    BY <1>6 DEF TellNewOwner
  <2> HIDE DEF o
  <2>3. \A x \in Conns : Touched(conn[x], conn'[x])
    BY <1>1, <2>1, <2>2, TellingTouches
  <2>4. QED BY <2>3 DEF Touched, AnswersOn
<1>7. QED BY <1>3, <1>4, <1>5, <1>6 DEF WorkOn

-----------------------------------------------------------------------------
(* The invariant                                                           *)

\* Whoever answers on answers a request that stays gone.
LEMMA AnsweringOnKeeps ==
  ASSUME DecisionInv, [Next]_registryVars, \A x \in Conns : AnswersOn(x)
  PROVE  AnsweredIsGone' /\ OneDecisionPerRequest'
<1>1. ASSUME NEW x \in Conns, conn'[x].answering # NoJoin
      PROVE  /\ conn'[x].answering = conn[x].answering /\ conn'[x].key = conn[x].key
             /\ conn[x].key \in Keys
             /\ conn[x].answering.seq <= joinSeq'
             /\ conn[x].answering \notin pendingJoins'[conn[x].key]
  <2>1. conn'[x].answering = conn[x].answering /\ conn'[x].key = conn[x].key
    BY <1>1 DEF AnswersOn
  <2>2. /\ conn[x].key \in Keys /\ conn[x].answering.seq <= joinSeq
        /\ conn[x].answering \notin pendingJoins[conn[x].key]
    BY <1>1, <2>1 DEF DecisionInv, AnsweredIsGone
  <2>3. conn[x].answering \in Joins
    BY <1>1, <2>1 DEF DecisionInv, HubInv, HubTyped, Connections
  <2>4. conn[x].answering \notin pendingJoins'[conn[x].key]
    BY <2>2, <2>3, GoneRequestStaysGone DEF DecisionInv, HubInv
  <2>5. joinSeq \in Nat /\ joinSeq' \in {joinSeq, joinSeq + 1} /\ conn[x].answering.seq \in Nat
    BY <2>3, RequestsGrow, JoinSeqAssumption DEF DecisionInv, HubInv, Inv, TypeOK, Joins
  <2>6. QED BY <2>1, <2>2, <2>4, <2>5
<1>2. AnsweredIsGone'
  BY <1>1 DEF AnsweredIsGone
<1>3. OneDecisionPerRequest'
  BY <1>1 DEF DecisionInv, OneDecisionPerRequest
<1>4. QED BY <1>2, <1>3

\* A decision takes a request off the list, which nobody else was answering.
LEMMA DecidingKeeps ==
  ASSUME DecisionInv, NEW c \in Conns, NEW j \in Joins, DecideApprove(c, j) \/ DecideDeny(c, j)
  PROVE  AnsweredIsGone' /\ OneDecisionPerRequest'
<1> DEFINE k == conn[c].key
<1>1. HubInv /\ Inv /\ conn \in [Conns -> Connections]
  BY DEF DecisionInv, HubInv, HubTyped
<1>2. k \in Keys /\ conn[c] \in Connections
  BY <1>1, ServedIs DEF DecideApprove, DecideDeny
<1>3. [Next]_registryVars
  BY <1>1, CallsAreOperations DEF DecideApprove, DecideDeny, Inv
<1>4. j \in pendingJoins[k] /\ j.seq <= joinSeq /\ joinSeq' = joinSeq
  BY <1>1, <1>2 DEF DecideApprove, DecideDeny, ApproveByOwner, approveLocked, CanAdmit,
                    DenyByOwner, denyLocked, HubInv, JoinsNumbered
<1>5. j \notin pendingJoins'[k]
  <2>1. pendingJoins \in [Keys -> SUBSET Joins]
    BY <1>1 DEF Inv, TypeOK
  <2>2. CASE DecideApprove(c, j)
    BY <1>2, <2>1, <2>2 DEF DecideApprove, ApproveByOwner, approveLocked
  <2>3. CASE DecideDeny(c, j)
    BY <1>2, <2>1, <2>3 DEF DecideDeny, DenyByOwner, denyLocked
  <2>4. QED BY <2>2, <2>3
<1>6. /\ conn'[c].answering = j /\ conn'[c].key = k
      /\ \A x \in Conns \ {c} : conn'[x] = conn[x]
  BY <1>1, <1>2 DEF DecideApprove, DecideDeny, Connections
<1>7. ASSUME NEW x \in Conns \ {c}, conn[x].answering # NoJoin
      PROVE  /\ conn[x].key \in Keys
             /\ conn[x].answering.seq <= joinSeq'
             /\ conn[x].answering \notin pendingJoins'[conn[x].key]
             /\ conn[x].key = k => conn[x].answering # j
  <2>1. /\ conn[x].key \in Keys /\ conn[x].answering.seq <= joinSeq
        /\ conn[x].answering \notin pendingJoins[conn[x].key]
    BY <1>7 DEF DecisionInv, AnsweredIsGone
  <2>2. conn[x].answering \in Joins
    BY <1>1, <1>7 DEF Connections
  <2>3. conn[x].answering \notin pendingJoins'[conn[x].key]
    BY <1>1, <1>3, <2>1, <2>2, GoneRequestStaysGone
  <2>4. QED BY <1>4, <2>1, <2>3
<1>8. AnsweredIsGone'
  BY <1>2, <1>4, <1>5, <1>6, <1>7 DEF AnsweredIsGone
<1>9. OneDecisionPerRequest'
  BY <1>6, <1>7 DEF DecisionInv, OneDecisionPerRequest
<1>10. QED BY <1>8, <1>9

LEMMA DecisionInitInv == RelayInit => DecisionInv
<1> SUFFICES ASSUME RelayInit PROVE DecisionInv
  OBVIOUS
<1>1. \A c \in Conns : conn[c].answering = NoJoin
  BY DEF RelayInit, Gone
<1>2. QED BY <1>1, HubInitInv DEF DecisionInv, AnsweredIsGone, OneDecisionPerRequest

\* Every step keeps the invariant.
LEMMA DecisionNextInv == ASSUME DecisionInv, [RelayNext]_vars PROVE DecisionInv'
<1>1. HubInv /\ HubInv' /\ conn \in [Conns -> Connections]
  BY HubNextInv DEF DecisionInv, HubInv, HubTyped
<1>2. [Next]_registryVars
  BY <1>1, RelaySteps DEF HubInv, Inv
<1>3. CASE \A x \in Conns : AnswersOn(x)
  BY <1>1, <1>2, <1>3, AnsweringOnKeeps DEF DecisionInv
<1>4. CASE Device
  <2>1. ASSUME NEW k \in Keys, NEW d \in Devices, PostConnect(k, d)
        PROVE  \A x \in Conns : AnswersOn(x)
    BY <2>1 DEF PostConnect, AnswersOn
  <2>2. QED BY <1>1, <1>3, <1>4, <2>1, EndsAnswerNothing, LoopAnswersOn DEF Device
<1>5. ASSUME NEW c \in Conns, Serve(c) \/ RejectEvent(c) PROVE DecisionInv'
  <2>1. CASE \E j \in Joins : DecideApprove(c, j) \/ DecideDeny(c, j)
    BY <1>1, <2>1, DecidingKeeps DEF DecisionInv
  <2>2. CASE \/ RegisterMember(c) \/ RegisterPending(c) \/ GoOnline(c) \/ RejectOnline(c)
             \/ RejectEvent(c) \/ EndCheck(c) \/ DecisionFails(c) \/ LookUpPending(c)
             \/ PromotedIsGone(c) \/ RollBack(c)
    BY <1>1, <1>3, <2>2, LoopAnswersOn
  <2>3. CASE AskOwner(c) \/ EndAnnouncing(c) \/ GoOnlinePromoted(c) \/ \E j \in Joins : TellOwner(c, j)
    BY <1>1, <1>3, <2>3, TouchersAnswerOn
  <2>4. CASE Unregister(c)
    BY <1>1, <1>3, <2>4, EndsAnswerNothing
  <2>5. CASE PromotePending(c) \/ RefusePending(c)
    BY <1>1, <1>3, <2>5, DeliveryAnswersOn
  <2>6. QED BY <1>5, <2>1, <2>2, <2>3, <2>4, <2>5 DEF Serve
<1>6. ASSUME NEW k \in Keys, NEW d \in Devices, Expiry(k, d) \/ WorkOn(k, d) PROVE DecisionInv'
  BY <1>1, <1>3, <1>6, JobsAnswerOn
<1>7. CASE UNCHANGED vars
  BY <1>3, <1>7 DEF vars, hubVars, AnswersOn
<1>8. QED BY <1>4, <1>5, <1>6, <1>7 DEF RelayNext

LEMMA DecisionInvariant == RelaySpec => []DecisionInv
BY DecisionInitInv, DecisionNextInv, PTL DEF RelaySpec

-----------------------------------------------------------------------------
(* Whoever waits is listed                                                 *)

\* A connection, before and after a step, that neither comes to wait nor is done
\* with superseding another one.
WaitsOn(x, y) ==
  /\ y.role = "pending" /\ y.open /\ y.pc \notin {"gone", "accepted"} =>
       /\ x.role = "pending" /\ x.open /\ x.pc \notin {"gone", "accepted"}
       /\ y.key = x.key /\ y.join = x.join
  /\ x.role = "pending" /\ x.pc = "registered" =>
       /\ y.role = "pending" /\ y.pc = "registered"
       /\ y.key = x.key /\ y.join = x.join /\ y.prev = x.prev

LEMMA TouchedWaitsOn ==
  ASSUME NEW x, NEW y, Touched(x, y)
  PROVE  WaitsOn(x, y)
BY DEF Touched, WaitsOn

\* Who waits after a step waited before: no request comes back to the list.
LEMMA WaitedBefore ==
  ASSUME HubInv, [Next]_registryVars, NEW c \in Conns, Waits(c)',
         conn[c].role = "pending", conn[c].open, conn[c].pc \notin {"gone", "accepted"},
         conn'[c].key = conn[c].key, conn'[c].join = conn[c].join
  PROVE  Waits(c) /\ conn[c].key \in Keys /\ conn[c].join \in Joins /\ conn[c].join # NoJoin
<1> DEFINE x == conn[c]
<1>1. x \in Connections /\ x.key \in Keys /\ x.join # NoJoin /\ x.join.seq <= joinSeq
  BY ServedIs DEF ServedRightly
<1>2. x.join \in Joins
  BY <1>1 DEF Connections
<1>3. x.join \in pendingJoins'[x.key]
  BY DEF Waits
<1>4. x.join \in pendingJoins[x.key]
  BY <1>1, <1>2, <1>3, GoneRequestStaysGone DEF HubInv
<1>5. QED BY <1>1, <1>2, <1>4 DEF Waits

\* A connection that waits is listed after a step if it was before, and if the step
\* lets neither its entry nor whoever supersedes it go.
LEMMA StaysListed ==
  ASSUME HubInv, WaitingAreListed, [Next]_registryVars, NEW c \in Conns, Waits(c)',
         conn[c].role = "pending", conn[c].open, conn[c].pc \notin {"gone", "accepted"},
         conn'[c].key = conn[c].key, conn'[c].join = conn[c].join,
         IsCurrentPending(c) => IsCurrentPending(c)' \/ \E e \in Conns : Supersedes(e, c)',
         \A e \in Conns : Supersedes(e, c) => Supersedes(e, c)'
  PROVE  IsCurrentPending(c)' \/ \E e \in Conns : Supersedes(e, c)'
<1>1. IsCurrentPending(c) \/ \E e \in Conns : Supersedes(e, c)
  BY WaitedBefore DEF WaitingAreListed
<1>2. QED BY <1>1

\* So does a step in which all connections wait on.
LEMMA ListingKeeps ==
  ASSUME HubInv, WaitingAreListed, [Next]_registryVars,
         \A c \in Conns : WaitsOn(conn[c], conn'[c]),
         \A c \in Conns : Waits(c)' /\ IsCurrentPending(c) => IsCurrentPending(c)'
  PROVE  WaitingAreListed'
<1> SUFFICES ASSUME NEW c \in Conns, Waits(c)'
             PROVE  IsCurrentPending(c)' \/ \E e \in Conns : Supersedes(e, c)'
  BY DEF WaitingAreListed
<1>1. /\ conn[c].role = "pending" /\ conn[c].open /\ conn[c].pc \notin {"gone", "accepted"}
      /\ conn'[c].key = conn[c].key /\ conn'[c].join = conn[c].join
  BY DEF Waits, WaitsOn
<1>2. \A e \in Conns : Supersedes(e, c) => Supersedes(e, c)'
  BY <1>1 DEF Supersedes, WaitsOn
<1>3. QED BY <1>1, <1>2, StaysListed

\* A step that leaves the entries alone, or takes one that nobody waits for.
LEMMA FewerEntriesKeep ==
  ASSUME HubInv, WaitingAreListed, [Next]_registryVars,
         \A c \in Conns : WaitsOn(conn[c], conn'[c]),
         NEW k \in Keys, NEW j \in Joins,
         pendingConn' \in {pendingConn, [pendingConn EXCEPT ![k][j] = None]},
         \A c \in Conns : Waits(c)' /\ conn[c].key = k /\ conn[c].join = j =>
                            pendingConn[k][j] # c
  PROVE  WaitingAreListed'
<1> SUFFICES ASSUME NEW c \in Conns, Waits(c)', IsCurrentPending(c)
             PROVE  IsCurrentPending(c)'
  BY ListingKeeps
<1>1. /\ conn[c].role = "pending" /\ conn[c].open /\ conn[c].pc \notin {"gone", "accepted"}
      /\ conn'[c].key = conn[c].key /\ conn'[c].join = conn[c].join
  BY DEF Waits, WaitsOn
<1>2. conn[c].key \in Keys /\ conn[c].join \in Joins /\ conn[c].join # NoJoin
  BY <1>1, WaitedBefore
<1>3. pendingConn[conn[c].key][conn[c].join] = c
  BY DEF IsCurrentPending
<1>4. ~(conn[c].key = k /\ conn[c].join = j)
  BY <1>3
<1>5. pendingConn \in [Keys -> [Joins -> Conns \cup {None}]]
  BY DEF HubInv, HubTyped
<1>6. pendingConn'[conn[c].key][conn[c].join] = c
  BY <1>2, <1>3, <1>4, <1>5
<1>7. QED BY <1>1, <1>2, <1>6 DEF IsCurrentPending

\* A connection that moves on in its loop: none of these steps lets it wait that did
\* not, or takes it out of registered while it waits.
LEMMA LoopWaitsOn ==
  ASSUME conn \in [Conns -> Connections], NEW c \in Conns,
         \/ RegisterMember(c) \/ GoOnline(c) \/ RejectOnline(c)
         \/ RejectEvent(c) \/ CheckPending(c) \/ EndCheck(c) \/ ReceiveDecision(c)
         \/ (\E j \in Joins : DecideApprove(c, j) \/ DecideDeny(c, j))
         \/ DecisionFails(c) \/ LookUpPending(c) \/ PromotedIsGone(c) \/ RollBack(c)
  PROVE  \A x \in Conns : WaitsOn(conn[x], conn'[x])
<1>1. CASE RegisterMember(c) \/ GoOnline(c) \/ RejectOnline(c)
  <2>1. CASE RegisterMember(c)
    BY <2>1 DEF RegisterMember, WaitsOn, Connections
  <2>2. CASE GoOnline(c)
    BY <2>2 DEF GoOnline, WaitsOn, Connections
  <2>3. CASE RejectOnline(c)
    BY <2>3 DEF RejectOnline, WaitsOn, Connections
  <2>4. QED BY <1>1, <2>1, <2>2, <2>3
<1>2. CASE RejectEvent(c)
  BY <1>2 DEF RejectEvent, WaitsOn, Connections
<1>3. CASE CheckPending(c) \/ EndCheck(c)
  BY <1>3 DEF CheckPending, EndCheck, WaitsOn, Connections
<1>4. CASE ReceiveDecision(c) \/ DecisionFails(c) \/ PromotedIsGone(c)
  BY <1>4 DEF ReceiveDecision, DecisionFails, PromotedIsGone, WaitsOn, Connections
<1>5. ASSUME NEW j \in Joins, DecideApprove(c, j) \/ DecideDeny(c, j)
      PROVE  \A x \in Conns : WaitsOn(conn[x], conn'[x])
  BY <1>5 DEF DecideApprove, DecideDeny, WaitsOn, Connections
<1>6. CASE LookUpPending(c)
  <2> DEFINE t == pendingConn[conn[c].key][conn[c].answering]
  <2>1. CASE t = None
    <3>1. conn' = [conn EXCEPT ![c].pc = "reading", ![c].answering = NoJoin]
      BY <1>6, <2>1 DEF LookUpPending
    <3>2. conn[c].pc \in {"approved", "denied"}
      BY <1>6 DEF LookUpPending
    <3>3. QED BY <3>1, <3>2 DEF WaitsOn, Connections
  <2>2. CASE t # None
    <3>1. PICK pc \in {"promoting", "refusing"} :
            conn' = [conn EXCEPT ![c].target = t, ![c].pc = pc]
      BY <1>6, <2>2 DEF LookUpPending
    <3>2. conn[c].pc \in {"approved", "denied"}
      BY <1>6 DEF LookUpPending
    <3> HIDE DEF t
    <3>3. QED BY <3>1, <3>2 DEF WaitsOn, Connections
  <2>3. QED BY <2>1, <2>2
<1>7. CASE RollBack(c)
  BY <1>7 DEF RollBack, WaitsOn, Connections
<1>8. QED BY <1>1, <1>2, <1>3, <1>4, <1>5, <1>6, <1>7

\* Others are closed or written to first, and then c moves on.
LEMMA MoverWaitsOn ==
  ASSUME NEW cs \in [Conns -> Connections], \A x \in Conns : Touched(conn[x], cs[x]),
         NEW c \in Conns, NEW y, conn' = [cs EXCEPT ![c] = y], WaitsOn(cs[c], y)
  PROVE  \A x \in Conns : WaitsOn(conn[x], conn'[x])
<1>1. conn'[c] = y /\ \A x \in Conns \ {c} : conn'[x] = cs[x]
  OBVIOUS
<1>2. \A x \in Conns \ {c} : WaitsOn(conn[x], conn'[x])
  BY <1>1, TouchedWaitsOn
<1>3. WaitsOn(conn[c], conn'[c])
  BY <1>1 DEF Touched, WaitsOn
<1>4. QED BY <1>2, <1>3

\* Whoever announces closes or writes to another connection, and waits on itself.
LEMMA AnnouncerWaitsOn ==
  ASSUME HubInv, NEW c \in Conns,
         \/ EndAnnouncing(c) \/ GoOnlinePromoted(c) \/ \E j \in Joins : TellOwner(c, j)
  PROVE  \A x \in Conns : WaitsOn(conn[x], conn'[x])
<1>1. conn \in [Conns -> Connections]
  BY DEF HubInv, HubTyped
<1>2. conn[c].prev \in Conns \cup {None}
  BY <1>1 DEF Connections
<1> DEFINE cs == Closing(conn, conn[c].prev)
<1>3. cs \in [Conns -> Connections] /\ \A x \in Conns : Touched(conn[x], cs[x])
  BY <1>1, <1>2, ClosingTouches
<1>4. cs[c].pc = conn[c].pc
  BY <1>3 DEF Touched
<1>5. CASE EndAnnouncing(c)
  <2> DEFINE y == [cs[c] EXCEPT !.pc = "reading", !.prev = None, !.target = None,
                                !.tellTo = None, !.answering = NoJoin]
  <2>1. conn' = [cs EXCEPT ![c] = y] /\ conn[c].pc = "announcing"
    BY <1>5 DEF EndAnnouncing
  <2> HIDE DEF cs
  <2>2. y.role = cs[c].role /\ y.open = cs[c].open /\ y.key = cs[c].key /\ y.join = cs[c].join
    BY <1>3 DEF Connections
  <2> HIDE DEF y
  <2>3. WaitsOn(cs[c], y)
    BY <1>4, <2>1, <2>2 DEF WaitsOn
  <2>4. QED BY <1>3, <2>1, <2>3, MoverWaitsOn
<1>6. CASE GoOnlinePromoted(c)
  <2> DEFINE k == conn[c].key
             t == IF owner'[k] # owner[k] THEN pendingJoins[k] ELSE {}
             y == [cs[c] EXCEPT !.pc = "announcing", !.prev = None, !.tell = t,
                                !.tellTo = owner'[k]]
  <2>1. conn' = [cs EXCEPT ![c] = y] /\ conn[c].pc = "promoted"
    BY <1>6 DEF GoOnlinePromoted
  <2> HIDE DEF cs
  <2> HIDE DEF t, k
  <2>2. y.role = cs[c].role /\ y.open = cs[c].open /\ y.key = cs[c].key /\ y.join = cs[c].join
    BY <1>3 DEF Connections
  <2> HIDE DEF y
  <2>3. WaitsOn(cs[c], y)
    BY <1>4, <2>1, <2>2 DEF WaitsOn
  <2>4. QED BY <1>3, <2>1, <2>3, MoverWaitsOn
<1>7. ASSUME NEW j \in Joins, TellOwner(c, j)
      PROVE  \A x \in Conns : WaitsOn(conn[x], conn'[x])
  <2> DEFINE o == OwnerConn(conn[c].key, conn[c].tellTo)
             ts == Telling(conn, o, j)
             y == [ts[c] EXCEPT !.tell = ts[c].tell \ {j}]
  <2>1. conn[c].key \in Keys /\ conn[c].tellTo \in Devices \cup {None}
    BY <1>7, ServedIs DEF TellOwner
  <2>2. o \in Conns \cup {None}
    BY <2>1 DEF OwnerConn, HubInv, HubTyped
  <2>3. conn' = [ts EXCEPT ![c] = y]
    BY <1>7 DEF TellOwner
  <2> HIDE DEF o
  <2>4. ts \in [Conns -> Connections] /\ \A x \in Conns : Touched(conn[x], ts[x])
    BY <1>1, <2>2, TellingTouches
  <2> HIDE DEF ts
  <2>5. WaitsOn(ts[c], y)
    BY <2>4 DEF Connections, WaitsOn
  <2> HIDE DEF y
  <2>6. QED BY <2>3, <2>4, <2>5, MoverWaitsOn
<1>8. QED BY <1>5, <1>6, <1>7

\* Whoever comes does not wait yet, and whoever goes takes its own entry along.
LEMMA EndsWaitOn ==
  ASSUME conn \in [Conns -> Connections], NEW c \in Conns,
         \/ \E k \in Keys : \/ \E d \in Devices : AcceptMember(c, k, d)
                            \/ \E j \in Joins : AcceptPending(c, k, j)
         \/ Disconnect(c) \/ Unregister(c)
  PROVE  \A x \in Conns : WaitsOn(conn[x], conn'[x])
<1>1. ASSUME NEW k \in Keys, NEW d \in Devices, AcceptMember(c, k, d)
      PROVE  \A x \in Conns : WaitsOn(conn[x], conn'[x])
  BY <1>1 DEF AcceptMember, Gone, WaitsOn
<1>2. ASSUME NEW k \in Keys, NEW j \in Joins, AcceptPending(c, k, j)
      PROVE  \A x \in Conns : WaitsOn(conn[x], conn'[x])
  BY <1>2 DEF AcceptPending, Gone, WaitsOn
<1>3. CASE Disconnect(c) \/ Unregister(c)
  BY <1>3 DEF Disconnect, Unregister, Leave, Gone, WaitsOn
<1>4. QED BY <1>1, <1>2, <1>3

LEMMA LeaverKeepsListed ==
  ASSUME HubInv, WaitingAreListed, [Next]_registryVars, NEW c \in Conns,
         Disconnect(c) \/ Unregister(c) \/ RejectEvent(c)
  PROVE  WaitingAreListed'
<1> DEFINE k == conn[c].key
           j == conn[c].join
<1>1. /\ k \in Keys /\ j \in Joins \cup {NoJoin}
      /\ conn \in [Conns -> Connections]
  BY ServedIs DEF Disconnect, Unregister, RejectEvent, Connections
<1>2. \A x \in Conns : WaitsOn(conn[x], conn'[x])
  BY <1>1, EndsWaitOn, LoopWaitsOn
<1>3. ~Waits(c)'
  BY <1>1 DEF Disconnect, Unregister, Leave, RejectEvent, Gone, Waits, Connections
<1>4. \/ pendingConn' = pendingConn
      \/ /\ pendingConn' = [pendingConn EXCEPT ![k][j] = None]
         /\ j # NoJoin /\ pendingConn[k][j] = c
  BY DEF Disconnect, Unregister, Leave, RejectEvent, IsCurrentPending
<1> HIDE DEF k, j
<1>5. CASE pendingConn' = pendingConn
  <2>1. \A x \in Conns : Waits(x)' /\ IsCurrentPending(x) => IsCurrentPending(x)'
    BY <1>2, <1>5 DEF Waits, WaitsOn, IsCurrentPending
  <2>2. QED BY <1>2, <2>1, ListingKeeps
<1>6. CASE pendingConn' # pendingConn
  BY <1>1, <1>2, <1>3, <1>4, <1>6, FewerEntriesKeep
<1>7. QED BY <1>5, <1>6

\* A request that is being answered is nobody's that waits: it is off the list.
LEMMA NobodyWaitsForAnswered ==
  ASSUME DecisionInv, NEW c \in Conns, NEW x \in Conns, Waits(x)', UNCHANGED registryVars,
         conn[c].answering # NoJoin,
         conn'[x].key = conn[x].key, conn'[x].join = conn[x].join
  PROVE  ~(conn[x].key = conn[c].key /\ conn[x].join = conn[c].answering)
BY DEF DecisionInv, AnsweredIsGone, Waits, registryVars

LEMMA RefusalKeepsListed ==
  ASSUME DecisionInv, WaitingAreListed, NEW c \in Conns, RefusePending(c)
  PROVE  WaitingAreListed'
<1> DEFINE k == conn[c].key
           j == conn[c].answering
           t == conn[c].target
<1>1. /\ HubInv /\ conn \in [Conns -> Connections] /\ conn[c] \in Connections
      /\ k \in Keys /\ j \in Joins \cup {NoJoin} /\ j # NoJoin /\ t \in Conns
  BY ServedIs DEF RefusePending, DecisionInv, ServedRightly
<1>2. /\ UNCHANGED registryVars
      /\ pendingConn' \in {pendingConn, [pendingConn EXCEPT ![k][j] = None]}
  BY DEF RefusePending
<1>3. \A x \in Conns : WaitsOn(conn[x], conn'[x])
  <2> DEFINE cs == [conn EXCEPT ![t] = [conn[t] EXCEPT !.open = FALSE]]
             y == [cs[c] EXCEPT !.pc = "reading", !.answering = NoJoin, !.target = None]
  <2>1. conn' = [cs EXCEPT ![c] = y] /\ conn[c].pc = "refusing"
    BY DEF RefusePending
  <2>2. cs \in [Conns -> Connections] /\ \A x \in Conns : Touched(conn[x], cs[x])
    <3> HIDE DEF k, j, t
    <3>1. Closing(conn, t) = cs
      BY <1>1, ConnsAssumption DEF Closing
    <3> HIDE DEF cs
    <3>2. QED BY <1>1, <3>1, ClosingTouches
  <2> HIDE DEF cs
  <2>3. cs[c].pc = "refusing"
    BY <2>1, <2>2 DEF Touched
  <2>4. y.role = cs[c].role /\ y.open = cs[c].open /\ y.key = cs[c].key /\ y.join = cs[c].join
    BY <2>2 DEF Connections
  <2> HIDE DEF y
  <2>5. WaitsOn(cs[c], y)
    BY <2>3, <2>4 DEF WaitsOn
  <2>6. QED BY <2>1, <2>2, <2>5, MoverWaitsOn
<1>4. \A x \in Conns : Waits(x)' /\ conn[x].key = k /\ conn[x].join = j => pendingConn[k][j] # x
  <2> TAKE x \in Conns
  <2> SUFFICES ASSUME Waits(x)' PROVE ~(conn[x].key = k /\ conn[x].join = j)
    OBVIOUS
  <2>1. conn'[x].key = conn[x].key /\ conn'[x].join = conn[x].join
    BY <1>3 DEF Waits, WaitsOn
  <2>2. QED BY <1>1, <1>2, <2>1, NobodyWaitsForAnswered
<1> HIDE DEF k, j, t
<1>5. [Next]_registryVars
  BY <1>2
<1>6. QED BY <1>1, <1>2, <1>3, <1>4, <1>5, FewerEntriesKeep

LEMMA PromotionKeepsListed ==
  ASSUME DecisionInv, WaitingAreListed, NEW c \in Conns, PromotePending(c)
  PROVE  WaitingAreListed'
<1> DEFINE k == conn[c].key
           j == conn[c].answering
           t == conn[c].target
<1>1. /\ HubInv /\ conn \in [Conns -> Connections] /\ conn[c] \in Connections
      /\ k \in Keys /\ j \in Joins \cup {NoJoin} /\ j # NoJoin /\ t \in Conns
  BY ServedIs DEF PromotePending, DecisionInv, ServedRightly
<1>2. /\ UNCHANGED registryVars
      /\ pendingConn' \in {pendingConn, [pendingConn EXCEPT ![k][j] = None]}
  BY DEF PromotePending
<1>3. conn'[t].role = "member" /\ \A x \in Conns \ {t} : WaitsOn(conn[x], conn'[x])
  <2> DEFINE owns == owner[k] = j.device
             z == [conn[t] EXCEPT !.role = "member", !.overtaken = @ \/ owns]
             cs == [conn EXCEPT ![t] = z]
             p == memberConn[k][j.device]
             y == [cs[c] EXCEPT !.pc = "promoted", !.prev = p]
  <2>1. conn' = [cs EXCEPT ![c] = y] /\ conn[c].pc = "promoting"
    BY DEF PromotePending
  <2> HIDE DEF p, owns
  <2>2. DOMAIN z = DOMAIN conn[t] /\ z.role = "member" /\ z.pc = conn[t].pc
    BY <1>1 DEF Connections
  <2> HIDE DEF z
  <2>3. cs[t] = z /\ \A x \in Conns \ {t} : cs[x] = conn[x]
    BY <1>1
  <2>4. DOMAIN cs = Conns
    BY <1>1
  <2>5. cs[c].pc = "promoting" /\ DOMAIN cs[c] = DOMAIN conn[c]
    BY <2>1, <2>2, <2>3
  <2> HIDE DEF cs
  <2>6. /\ y.role = cs[c].role /\ y.open = cs[c].open
        /\ y.key = cs[c].key /\ y.join = cs[c].join /\ y.pc = "promoted"
    BY <1>1, <2>5 DEF Connections
  <2> HIDE DEF y
  <2>7. conn'[c] = y /\ \A x \in Conns \ {c} : conn'[x] = cs[x]
    BY <2>1, <2>4
  <2>8. conn'[t].role = "member"
    BY <1>1, <2>2, <2>3, <2>6, <2>7
  <2>9. \A x \in Conns \ {t} : WaitsOn(conn[x], conn'[x])
    BY <2>3, <2>5, <2>6, <2>7 DEF WaitsOn
  <2>10. QED BY <2>8, <2>9
<1> HIDE DEF k, j, t
<1> SUFFICES ASSUME NEW x \in Conns, Waits(x)'
             PROVE  IsCurrentPending(x)' \/ \E e \in Conns : Supersedes(e, x)'
  BY DEF WaitingAreListed
<1>4. x # t
  BY <1>3 DEF Waits
<1>5. /\ conn[x].role = "pending" /\ conn[x].open /\ conn[x].pc \notin {"gone", "accepted"}
      /\ conn'[x].key = conn[x].key /\ conn'[x].join = conn[x].join
  BY <1>3, <1>4 DEF Waits, WaitsOn
<1>6. ~(conn[x].key = k /\ conn[x].join = j)
  BY <1>1, <1>2, <1>5, NobodyWaitsForAnswered DEF k, j
<1>7. [Next]_registryVars
  BY <1>2
<1>8. conn[x].key \in Keys /\ conn[x].join \in Joins /\ conn[x].join # NoJoin
  BY <1>1, <1>5, <1>7, WaitedBefore
<1>9. IsCurrentPending(x) => IsCurrentPending(x)'
  <2>1. pendingConn \in [Keys -> [Joins -> Conns \cup {None}]]
    BY <1>1 DEF HubInv, HubTyped
  <2>2. pendingConn'[conn[x].key][conn[x].join] = pendingConn[conn[x].key][conn[x].join]
    BY <1>2, <1>6, <1>8, <2>1
  <2>3. QED BY <1>5, <2>2 DEF IsCurrentPending
<1>10. ASSUME NEW e \in Conns, Supersedes(e, x) PROVE Supersedes(e, x)'
  <2>1. CASE e = t
    <3>1. conn[t].key = k /\ conn[t].join = j
      BY <1>1, <1>10, <2>1 DEF Supersedes, HubInv, TargetServed, k, j, t
    <3>2. QED BY <1>6, <1>10, <2>1, <3>1 DEF Supersedes
  <2>2. CASE e # t
    BY <1>3, <1>5, <1>10, <2>2 DEF Supersedes, WaitsOn
  <2>3. QED BY <2>1, <2>2
<1>11. QED BY <1>1, <1>5, <1>7, <1>9, <1>10, StaysListed

\* Whoever takes over the entry of a request supersedes the one that had it.
LEMMA RegistrationKeepsListed ==
  ASSUME HubInv, WaitingAreListed, NEW c \in Conns, RegisterPending(c)
  PROVE  WaitingAreListed'
<1> DEFINE k == conn[c].key
           j == conn[c].join
           p == pendingConn[k][j]
           y == [conn[c] EXCEPT !.pc = "registered", !.prev = p]
<1>1. /\ conn \in [Conns -> Connections] /\ conn[c] \in Connections
      /\ pendingConn \in [Keys -> [Joins -> Conns \cup {None}]]
      /\ k \in Keys /\ j \in Joins /\ j # NoJoin
  <2>1. ServedRightly(conn[c]) /\ k \in Keys /\ conn[c] \in Connections
    BY ServedIs DEF RegisterPending
  <2>2. j \in Joins /\ j # NoJoin
    BY <2>1 DEF RegisterPending, ServedRightly, Connections
  <2>3. QED BY <2>1, <2>2 DEF HubInv, HubTyped
<1>2. /\ conn' = [conn EXCEPT ![c] = y] /\ UNCHANGED registryVars
      /\ pendingConn' = [pendingConn EXCEPT ![k][j] = c]
      /\ conn[c].pc = "accepted" /\ conn[c].role = "pending"
  BY DEF RegisterPending
<1>3. /\ y.pc = "registered" /\ y.prev = p
      /\ y.role = "pending" /\ y.key = k /\ y.join = j
  BY <1>1, <1>2 DEF Connections
<1> HIDE DEF y
<1>4. conn'[c] = y /\ \A x \in Conns \ {c} : conn'[x] = conn[x]
  BY <1>1, <1>2
<1> HIDE DEF k, j, p
<1>5. pendingConn'[k][j] = c
  BY <1>1, <1>2
<1>6. IsCurrentPending(c)'
  BY <1>1, <1>3, <1>4, <1>5 DEF IsCurrentPending
<1>7. ASSUME NEW x \in Conns \ {c}, Waits(x)'
      PROVE  IsCurrentPending(x)' \/ \E e \in Conns : Supersedes(e, x)'
  <2>1. /\ conn[x].role = "pending" /\ conn[x].open /\ conn[x].pc \notin {"gone", "accepted"}
        /\ conn'[x].key = conn[x].key /\ conn'[x].join = conn[x].join
    BY <1>4, <1>7 DEF Waits
  <2>2. [Next]_registryVars
    BY <1>2
  <2>3. conn[x].key \in Keys /\ conn[x].join \in Joins /\ conn[x].join # NoJoin
    BY <1>7, <2>1, <2>2, WaitedBefore
  <2>4. ASSUME IsCurrentPending(x) PROVE IsCurrentPending(x)' \/ \E e \in Conns : Supersedes(e, x)'
    <3>1. CASE conn[x].key = k /\ conn[x].join = j
      <4>1. p = x
        BY <2>4, <3>1 DEF IsCurrentPending, p
      <4>2. Supersedes(c, x)'
        BY <1>3, <1>4, <2>1, <3>1, <4>1 DEF Supersedes
      <4>3. QED BY <4>2
    <3>2. CASE ~(conn[x].key = k /\ conn[x].join = j)
      <4>1. pendingConn'[conn[x].key][conn[x].join] = pendingConn[conn[x].key][conn[x].join]
        BY <1>1, <1>2, <2>3, <3>2
      <4>2. QED BY <2>1, <2>4, <4>1 DEF IsCurrentPending
    <3>3. QED BY <3>1, <3>2
  <2>5. \A e \in Conns : Supersedes(e, x) => Supersedes(e, x)'
    BY <1>2, <1>4, <2>1 DEF Supersedes
  <2>6. QED BY <1>7, <2>1, <2>2, <2>4, <2>5, StaysListed
<1>8. QED BY <1>6, <1>7 DEF WaitingAreListed

\* And closes it before anything else.
LEMMA AskingKeepsListed ==
  ASSUME HubInv, WaitingAreListed, NEW c \in Conns, AskOwner(c)
  PROVE  WaitingAreListed'
<1> DEFINE k == conn[c].key
           t == IF PendingExists(k, conn[c].join.device, conn[c].join)
                THEN {conn[c].join} ELSE {}
           cs == Closing(conn, conn[c].prev)
           y == [cs[c] EXCEPT !.pc = "announcing", !.prev = None, !.tell = t,
                              !.tellTo = owner[k]]
<1>1. conn \in [Conns -> Connections] /\ conn[c].prev \in Conns \cup {None}
  BY ServedIs DEF AskOwner
<1>2. cs \in [Conns -> Connections] /\ \A x \in Conns : Touched(conn[x], cs[x])
  BY <1>1, ClosingTouches
<1>3. /\ conn' = [cs EXCEPT ![c] = y]
      /\ UNCHANGED <<registryVars, pendingConn>>
      /\ conn[c].pc = "registered"
  BY DEF AskOwner
<1>4. \A x \in Conns : conn[c].prev = x => ~cs[x].open
  <2> TAKE x \in Conns
  <2> SUFFICES ASSUME conn[c].prev = x PROVE ~cs[x].open
    OBVIOUS
  <2>1. cs = [conn EXCEPT ![x] = [conn[x] EXCEPT !.open = FALSE]]
    BY ConnsAssumption DEF Closing
  <2> HIDE DEF cs
  <2>2. cs[x] = [conn[x] EXCEPT !.open = FALSE] /\ conn[x] \in Connections
    BY <1>1, <2>1
  <2>3. QED BY <2>2 DEF Connections
<1> HIDE DEF cs
<1> HIDE DEF t, k
<1>5. /\ y.role = cs[c].role /\ y.open = cs[c].open
      /\ y.key = cs[c].key /\ y.join = cs[c].join
  BY <1>2 DEF Connections
<1> HIDE DEF y
<1>6. conn'[c] = y /\ \A x \in Conns \ {c} : conn'[x] = cs[x]
  BY <1>2, <1>3
<1>7. /\ \A x \in Conns : /\ conn'[x].role = conn[x].role
                          /\ conn'[x].key = conn[x].key /\ conn'[x].join = conn[x].join
                          /\ conn'[x].open = cs[x].open
                          /\ cs[x].open => conn[x].open
      /\ \A x \in Conns \ {c} : conn'[x].pc = conn[x].pc /\ conn'[x].prev = conn[x].prev
  BY <1>2, <1>5, <1>6 DEF Touched
<1> SUFFICES ASSUME NEW x \in Conns, Waits(x)'
             PROVE  IsCurrentPending(x)' \/ \E e \in Conns : Supersedes(e, x)'
  BY DEF WaitingAreListed
<1>8. /\ conn[x].role = "pending" /\ conn[x].open /\ conn[x].pc \notin {"gone", "accepted"}
      /\ conn'[x].key = conn[x].key /\ conn'[x].join = conn[x].join
  <2>1. conn'[x].role = "pending" /\ conn'[x].open /\ conn'[x].pc \notin {"gone", "accepted"}
    BY DEF Waits
  <2>2. QED BY <1>3, <1>7, <2>1
<1>9. [Next]_registryVars
  BY <1>3
<1>10. IsCurrentPending(x) => IsCurrentPending(x)'
  BY <1>3, <1>8 DEF IsCurrentPending
<1>11. ASSUME NEW e \in Conns, Supersedes(e, x) PROVE Supersedes(e, x)'
  <2>1. e # c
    BY <1>4, <1>7, <1>11 DEF Supersedes, Waits
  <2>2. QED BY <1>7, <1>11, <2>1 DEF Supersedes
<1>12. QED BY <1>8, <1>9, <1>10, <1>11, StaysListed

\* A deleted channel's pending connections are closed with their entries; the other
\* timers and jobs leave the entries alone.
LEMMA JobsKeepListed ==
  ASSUME HubInv, WaitingAreListed, [Next]_registryVars,
         NEW k \in Keys, NEW d \in Devices, Expiry(k, d) \/ WorkOn(k, d)
  PROVE  WaitingAreListed'
<1>1. conn \in [Conns -> Connections] /\ pendingConn \in [Keys -> [Joins -> Conns \cup {None}]]
  BY DEF HubInv, HubTyped
<1>2. ASSUME UNCHANGED pendingConn, \A x \in Conns : WaitsOn(conn[x], conn'[x])
      PROVE  WaitingAreListed'
  <2>1. \A x \in Conns : Waits(x)' /\ IsCurrentPending(x) => IsCurrentPending(x)'
    BY <1>2 DEF Waits, WaitsOn, IsCurrentPending
  <2>2. QED BY <1>2, <2>1, ListingKeeps
<1>3. CASE UNCHANGED <<conn, pendingConn>>
  BY <1>2, <1>3 DEF WaitsOn
<1>4. CASE Expiry(k, d)
  BY <1>3, <1>4 DEF Expiry, Fire, FireLoose, expireOfflineMember
<1>5. ASSUME NEW job \in jobs, ScheduleOfflineExpiry(job) PROVE WaitingAreListed'
  BY <1>3, <1>5 DEF ScheduleOfflineExpiry
<1>6. ASSUME NEW job \in jobs, closePendingForChannel(job) PROVE WaitingAreListed'
  <2> DEFINE closing == {pendingConn[job.key][j] : j \in Joins}
  <2>1. /\ pendingConn' = [pendingConn EXCEPT ![job.key] = [j \in Joins |-> None]]
        /\ \A x \in Conns : conn'[x] = IF x \in closing THEN [conn[x] EXCEPT !.open = FALSE]
                                       ELSE conn[x]
    BY <1>6 DEF closePendingForChannel
  <2>2. ASSUME NEW x \in Conns
        PROVE  /\ Touched(conn[x], conn'[x])
               /\ x \in closing => ~conn'[x].open
    <3>1. conn[x] \in Connections
      BY <1>1
    <3> HIDE DEF closing
    <3>2. conn'[x] = conn[x] \/ conn'[x] = [conn[x] EXCEPT !.open = FALSE]
      BY <2>1
    <3>3. x \in closing => conn'[x] = [conn[x] EXCEPT !.open = FALSE]
      BY <2>1
    <3>4. QED BY <3>1, <3>2, <3>3 DEF Touched, Connections
  <2>3. \A x \in Conns : WaitsOn(conn[x], conn'[x])
    BY <2>2, TouchedWaitsOn
  <2>4. ASSUME NEW x \in Conns, Waits(x)', IsCurrentPending(x) PROVE IsCurrentPending(x)'
    <3>1. /\ conn[x].role = "pending" /\ conn[x].open /\ conn[x].pc \notin {"gone", "accepted"}
          /\ conn'[x].key = conn[x].key /\ conn'[x].join = conn[x].join
      BY <2>3, <2>4 DEF Waits, WaitsOn
    <3>2. conn[x].key \in Keys /\ conn[x].join \in Joins /\ conn[x].join # NoJoin
      BY <2>4, <3>1, WaitedBefore
    <3>3. pendingConn[conn[x].key][conn[x].join] = x
      BY <2>4 DEF IsCurrentPending
    <3>4. x \notin closing
      BY <2>2, <2>4 DEF Waits
    <3>5. conn[x].key # job.key
      BY <3>2, <3>3, <3>4
    <3>6. pendingConn'[conn[x].key] = pendingConn[conn[x].key]
      BY <1>1, <2>1, <3>2, <3>5
    <3>7. QED BY <3>1, <3>2, <3>3, <3>6 DEF IsCurrentPending
  <2>5. QED BY <2>3, <2>4, ListingKeeps
<1>7. ASSUME NEW job \in jobs, job.key = k, job.device = d, NEW j \in Joins, TellNewOwner(job, j)
      PROVE  WaitingAreListed'
  <2> DEFINE o == OwnerConn(job.key, job.device)
  <2>1. o \in Conns \cup {None}
    BY <1>7 DEF OwnerConn, HubInv, HubTyped
  <2>2. conn' = Telling(conn, o, j) /\ UNCHANGED pendingConn
    BY <1>7 DEF TellNewOwner
  <2> HIDE DEF o
  <2>3. \A x \in Conns : WaitsOn(conn[x], conn'[x])
    BY <1>1, <2>1, <2>2, TellingTouches, TouchedWaitsOn
  <2>4. QED BY <1>2, <2>2, <2>3
<1>8. QED BY <1>4, <1>5, <1>6, <1>7 DEF WorkOn

LEMMA ListedInitInv == RelayInit => ListedInv
<1> SUFFICES ASSUME RelayInit PROVE WaitingAreListed
  BY DecisionInitInv DEF ListedInv
<1>1. \A c \in Conns : conn[c].pc = "gone"
  BY DEF RelayInit, Gone
<1>2. QED BY <1>1 DEF WaitingAreListed, Waits

\* Every step keeps those who wait listed.
LEMMA ListedNextInv == ASSUME ListedInv, [RelayNext]_vars PROVE ListedInv'
<1>1. /\ DecisionInv /\ DecisionInv' /\ HubInv /\ WaitingAreListed
      /\ conn \in [Conns -> Connections]
  BY DecisionNextInv DEF ListedInv, DecisionInv, HubInv, HubTyped
<1> SUFFICES WaitingAreListed'
  BY <1>1 DEF ListedInv
<1>2. [Next]_registryVars
  BY <1>1, RelaySteps DEF HubInv, Inv
<1>3. ASSUME UNCHANGED pendingConn, \A x \in Conns : WaitsOn(conn[x], conn'[x])
      PROVE  WaitingAreListed'
  <2>1. \A x \in Conns : Waits(x)' /\ IsCurrentPending(x) => IsCurrentPending(x)'
    BY <1>3 DEF Waits, WaitsOn, IsCurrentPending
  <2>2. QED BY <1>1, <1>2, <1>3, <2>1, ListingKeeps
<1>4. CASE UNCHANGED <<conn, pendingConn>>
  BY <1>3, <1>4 DEF WaitsOn
<1>5. CASE Device
  <2>1. ASSUME NEW k \in Keys, NEW d \in Devices, PostConnect(k, d) PROVE WaitingAreListed'
    BY <1>4, <2>1 DEF PostConnect
  <2>2. ASSUME NEW c \in Conns, NEW k \in Keys,
               \/ \E d \in Devices : AcceptMember(c, k, d)
               \/ \E j \in Joins : AcceptPending(c, k, j)
        PROVE  WaitingAreListed'
    <3>1. \A x \in Conns : WaitsOn(conn[x], conn'[x])
      BY <1>1, <2>2, EndsWaitOn
    <3>2. UNCHANGED pendingConn
      BY <2>2 DEF AcceptMember, AcceptPending
    <3>3. QED BY <1>3, <3>1, <3>2
  <2>3. ASSUME NEW c \in Conns, Disconnect(c) PROVE WaitingAreListed'
    BY <1>1, <1>2, <2>3, LeaverKeepsListed
  <2>4. ASSUME NEW c \in Conns, CheckPending(c) \/ ReceiveDecision(c) PROVE WaitingAreListed'
    <3>1. UNCHANGED pendingConn
      BY <2>4 DEF CheckPending, ReceiveDecision
    <3>2. QED BY <1>1, <1>3, <2>4, <3>1, LoopWaitsOn
  <2>5. QED BY <1>5, <2>1, <2>2, <2>3, <2>4 DEF Device
<1>6. ASSUME NEW c \in Conns, Serve(c) \/ RejectEvent(c) PROVE WaitingAreListed'
  <2>1. CASE \/ RegisterMember(c) \/ GoOnline(c) \/ RejectOnline(c) \/ EndCheck(c)
             \/ (\E j \in Joins : DecideApprove(c, j) \/ DecideDeny(c, j))
             \/ DecisionFails(c) \/ LookUpPending(c) \/ PromotedIsGone(c) \/ RollBack(c)
    <3>1. UNCHANGED pendingConn
      BY <2>1 DEF RegisterMember, GoOnline, RejectOnline, EndCheck, DecideApprove, DecideDeny,
                  DecisionFails, LookUpPending, PromotedIsGone, RollBack
    <3>2. QED BY <1>1, <1>3, <2>1, <3>1, LoopWaitsOn
  <2>2. CASE EndAnnouncing(c) \/ GoOnlinePromoted(c) \/ \E j \in Joins : TellOwner(c, j)
    <3>1. UNCHANGED pendingConn
      BY <2>2 DEF EndAnnouncing, GoOnlinePromoted, TellOwner
    <3>2. QED BY <1>1, <1>3, <2>2, <3>1, AnnouncerWaitsOn
  <2>3. CASE RegisterPending(c)
    BY <1>1, <2>3, RegistrationKeepsListed
  <2>4. CASE AskOwner(c)
    BY <1>1, <2>4, AskingKeepsListed
  <2>5. CASE Unregister(c) \/ RejectEvent(c)
    BY <1>1, <1>2, <2>5, LeaverKeepsListed
  <2>6. CASE PromotePending(c)
    BY <1>1, <2>6, PromotionKeepsListed
  <2>7. CASE RefusePending(c)
    BY <1>1, <2>7, RefusalKeepsListed
  <2>8. QED BY <1>6, <2>1, <2>2, <2>3, <2>4, <2>5, <2>6, <2>7 DEF Serve
<1>7. ASSUME NEW k \in Keys, NEW d \in Devices, Expiry(k, d) \/ WorkOn(k, d)
      PROVE  WaitingAreListed'
  BY <1>1, <1>2, <1>7, JobsKeepListed
<1>8. CASE UNCHANGED vars
  BY <1>4, <1>8 DEF vars, hubVars
<1>9. QED BY <1>5, <1>6, <1>7, <1>8 DEF RelayNext

LEMMA ListedInvariant == RelaySpec => []ListedInv
BY ListedInitInv, ListedNextInv, PTL DEF RelaySpec

-----------------------------------------------------------------------------
\* The hub's pending entries are those of the devices that wait: whoever leaves, is
\* promoted or is refused takes its own entry along and nobody else's, so that an
\* entry is a connection that is served and waits for that join, and an open
\* connection whose request waits is its entry, unless a newer one superseded it.
THEOREM PendingServedCorrect == RelaySpec => []PendingIsServed
<1>1. ASSUME ListedInv PROVE PendingIsServed
  <2>1. HubInv /\ WaitingAreListed
    BY <1>1 DEF ListedInv, DecisionInv
  <2>2. ASSUME NEW k \in Keys, NEW j \in Joins, pendingConn[k][j] # None
        PROVE  /\ conn[pendingConn[k][j]].pc # "gone"
               /\ conn[pendingConn[k][j]].key = k /\ conn[pendingConn[k][j]].join = j
    <3>1. pendingConn[k][j] \in Conns
      BY <2>1, <2>2 DEF HubInv, HubTyped
    <3>2. QED BY <2>1, <3>1 DEF HubInv, PendingServed
  <2>3. ASSUME NEW c \in Conns, conn[c].role = "pending", conn[c].open,
               conn[c].pc \notin {"gone", "accepted"},
               conn[c].join \in pendingJoins[conn[c].key],
               \A e \in Conns : conn[e].prev # c
        PROVE  IsCurrentPending(c)
    BY <2>1, <2>3 DEF WaitingAreListed, Waits, Supersedes
  <2>4. QED BY <2>2, <2>3 DEF PendingIsServed
<1>2. QED BY <1>1, ListedInvariant, PTL

\* No request is decided by two goroutines, whoever owned the channel meanwhile:
\* ApproveByOwner and DenyByOwner take it off the list where they find it.
THEOREM DecisionsAreSingle == RelaySpec => []OneDecisionPerRequest
<1>1. DecisionInv => OneDecisionPerRequest
  BY DEF DecisionInv
<1>2. QED BY <1>1, DecisionInvariant, PTL

\* A refusal closes, and an approval promotes, the connection of the request that
\* was decided and no other, although the hub was unlocked since the decision.
THEOREM DecisionsMeetTheirRequests == RelaySpec => []DecisionMeetsItsRequest
<1>1. HubInv => DecisionMeetsItsRequest
  BY DEF HubInv, TargetServed, DecisionMeetsItsRequest
<1>2. QED BY <1>1, HubInvariant, PTL

\* Nor does a request come back in the relay, whatever requests, decisions and
\* expiries interleave.
THEOREM RelayDecidesOnce == RelaySpec => NoRequestReturns
BY RelayImplementsRegistry, RequestsDecidedOnce, PTL
=============================================================================
