------------------------------- MODULE Relay -------------------------------
(***************************************************************************)
(* The relay: the registry with the WebSocket hub (relay/internal/ws/      *)
(* hub.go) and the HTTP connect handler (relay/internal/httpapi/server.go) *)
(* that drive it.  A connection is served by one goroutine, which takes    *)
(* h.mu and r.mu for one operation at a time: an action is one critical    *)
(* section, or one event written to a peer, and others run in between.     *)
(*                                                                         *)
(* Time is abstracted: an armed timer may fire at any moment, and a fired  *)
(* callback may wait for h.mu arbitrarily long.  Tokens are left out: the  *)
(* claims that validateClaims accepts at some moment are those that POST   *)
(* /channels/connect would issue at that moment.                           *)
(***************************************************************************)
EXTENDS Registry

CONSTANTS
  Conns,        \* connection objects; one is reused when nothing refers to it
  MaxCallbacks  \* bound on the expiry callbacks and loose timers at any time

ASSUME ConnsAssumption == None \notin Conns
ASSUME CallbacksAssumption == MaxCallbacks \in Nat

VARIABLES
  conn,         \* each connection and what its goroutine is doing
  memberConn,   \* h.members
  pendingConn,  \* h.pending, by channel and join request
  timer,        \* the offline timers of each member of a channel
  jobs          \* what other goroutines have taken on and not yet done

hubVars == <<conn, memberConn, pendingConn, timer, jobs>>
vars == <<registryVars, hubVars>>

-----------------------------------------------------------------------------
(* A connection's pc names what its goroutine does next:                   *)
(*   gone        nothing: ServeHTTP has returned, or never began           *)
(*   accepted    register                                                  *)
(*   registered  a member goes online; a pending device asks the owner     *)
(*   announcing  write a join.request for each join in tell to tellTo      *)
(*   reading     the read loop                                             *)
(*   checking    the second half of connectionCanSend                      *)
(*   deciding    a join decision, before the registry is asked             *)
(*   approved, denied       the registry has decided join answering        *)
(*   promoting, refusing    the pending connection target was found        *)
(*   promoted    target is in h.members and its device not yet online      *)
(*   rollback    its device turned out to be no member any more            *)
(*   leaving     unregister                                                *)
(* overtaken is for OwnerKnowsJoins only: the connection was promoted when *)
(* its device already owned the channel, through another connection.       *)

NoJoin == [device |-> None, seq |-> 0]

Gone == [pc |-> "gone", key |-> None, device |-> None, role |-> None,
         join |-> NoJoin, open |-> FALSE, prev |-> None, tell |-> {},
         tellTo |-> None, knows |-> {}, answering |-> NoJoin,
         target |-> None, overtaken |-> FALSE]

\* A member's tracked timer is armed since its creation or since it left.
NoTimer == [armed |-> "no", loose |-> 0, due |-> 0]

RelayInit ==
  /\ Init
  /\ conn = [c \in Conns |-> Gone]
  /\ memberConn = [k \in Keys |-> [d \in Devices |-> None]]
  /\ pendingConn = [k \in Keys |-> [j \in Joins |-> None]]
  /\ timer = [k \in Keys |-> [d \in Devices |-> NoTimer]]
  /\ jobs = {}

\* Nothing refers to c: its object may stand for a new connection.
Unreferenced(c) ==
  /\ \A k \in Keys : /\ \A d \in Devices : memberConn[k][d] # c
                     /\ \A j \in Joins : pendingConn[k][j] # c
  /\ \A e \in Conns : conn[e].prev # c /\ conn[e].target # c

\* The connections after the websocket of c, if there is a c, is closed.
Closing(cs, c) == IF c = None THEN cs ELSE [cs EXCEPT ![c].open = FALSE]

\* The connections after c, if there is a c, is sent join.request for j.
Telling(cs, c, j) == IF c = None THEN cs ELSE [cs EXCEPT ![c].knows = @ \cup {j}]

OwnerConn(k, d) == IF d = None THEN None ELSE memberConn[k][d]

IsCurrentMember(c) == memberConn[conn[c].key][conn[c].device] = c

IsCurrentPending(c) == conn[c].join # NoJoin /\ pendingConn[conn[c].key][conn[c].join] = c

-----------------------------------------------------------------------------
(* POST /channels/connect.  The expiry of a created channel's first member *)
(* is scheduled by a later call into the hub.                              *)

PostConnect(k, d) ==
  /\ Connect(k, d)
  /\ jobs' = IF k \in channels THEN jobs
             ELSE jobs \cup {[task |-> "schedule", key |-> k, device |-> d,
                              joins |-> {}]}
  /\ UNCHANGED <<conn, memberConn, pendingConn, timer>>

\* startOfflineTimerLocked and cancelOfflineTimerLocked.  Stop does not call
\* back a timer that has fired: its callback stays due.
NoStart(k, d, since) == UNCHANGED timer  \* seeded fault: no grace is started

StartTimer(k, d, since) == timer' = [timer EXCEPT ![k][d].armed = since]
CancelTimer(k, d) == timer' = [timer EXCEPT ![k][d].armed = "no"]

ScheduleOfflineExpiry(job) ==
  /\ job.task = "schedule"
  /\ IF memberConn[job.key][job.device] # None
     THEN UNCHANGED timer
     ELSE StartTimer(job.key, job.device, "created")
  /\ jobs' = jobs \ {job}
  /\ UNCHANGED <<registryVars, conn, memberConn, pendingConn>>

-----------------------------------------------------------------------------
(* ServeHTTP                                                               *)

\* authenticate and validateClaims, then the websocket handshake.
AcceptMember(c, k, d) ==
  /\ conn[c].pc = "gone" /\ Unreferenced(c)
  /\ k \in channels /\ d \in Members(k)
  /\ conn' = [conn EXCEPT ![c] =
       [Gone EXCEPT !.pc = "accepted", !.key = k, !.device = d,
                    !.role = "member", !.open = TRUE]]
  /\ UNCHANGED <<registryVars, memberConn, pendingConn, timer, jobs>>

AcceptPending(c, k, j) ==
  /\ conn[c].pc = "gone" /\ Unreferenced(c)
  /\ PendingExists(k, j.device, j)
  /\ conn' = [conn EXCEPT ![c] =
       [Gone EXCEPT !.pc = "accepted", !.key = k, !.device = j.device,
                    !.role = "pending", !.join = j, !.open = TRUE]]
  /\ UNCHANGED <<registryVars, memberConn, pendingConn, timer, jobs>>

RegisterMember(c) ==
  LET k == conn[c].key  d == conn[c].device IN
  /\ conn[c].pc = "accepted" /\ conn[c].role = "member"
  /\ CancelTimer(k, d)
  /\ memberConn' = [memberConn EXCEPT ![k][d] = c]
  /\ conn' = [conn EXCEPT ![c].pc = "registered", ![c].prev = memberConn[k][d]]
  /\ UNCHANGED <<registryVars, pendingConn, jobs>>

RegisterPending(c) ==
  LET k == conn[c].key  j == conn[c].join IN
  /\ conn[c].pc = "accepted" /\ conn[c].role = "pending"
  /\ pendingConn' = [pendingConn EXCEPT ![k][j] = c]
  /\ conn' = [conn EXCEPT ![c].pc = "registered", ![c].prev = pendingConn[k][j]]
  /\ UNCHANGED <<registryVars, memberConn, timer, jobs>>

\* Seeded fault: only a change of owner tells it of the joins.
JoinsOnChange(k, newOwner, d) == IF newOwner # owner[k] THEN pendingJoins[k] ELSE {}

\* Whom emitPresenceChange and ServeHTTP tell of the pending joins: the owner
\* after the change, if the change made it the owner or it is the device itself.
JoinsToTell(k, newOwner, d) ==
  IF newOwner # owner[k] \/ newOwner = d THEN pendingJoins[k] ELSE {}

GoOnline(c) ==
  LET k == conn[c].key  d == conn[c].device IN
  /\ conn[c].pc = "registered" /\ conn[c].role = "member"
  /\ SetOnline(k, d, TRUE)
  /\ conn' = [conn EXCEPT ![c].pc = "announcing",
                          ![c].tell = JoinsToTell(k, owner'[k], d),
                          ![c].tellTo = owner'[k]]
  /\ UNCHANGED <<memberConn, pendingConn, timer, jobs>>

\* The channel was deleted since the claims were validated.  The connection is
\* given up without closing the one it superseded.
RejectOnline(c) ==
  /\ conn[c].pc = "registered" /\ conn[c].role = "member"
  /\ ~(conn[c].key \in channels /\ conn[c].device \in Members(conn[c].key))
  /\ conn' = [conn EXCEPT ![c].pc = "leaving", ![c].prev = None]
  /\ UNCHANGED <<registryVars, memberConn, pendingConn, timer, jobs>>

\* notifyOwnerOfJoin, up to the look-up of the owner's connection.
AskOwner(c) ==
  LET k == conn[c].key  j == conn[c].join IN
  /\ conn[c].pc = "registered" /\ conn[c].role = "pending"
  /\ conn' = [Closing(conn, conn[c].prev) EXCEPT
                ![c].pc = "announcing", ![c].prev = None,
                ![c].tell = IF PendingExists(k, j.device, j) THEN {j} ELSE {},
                ![c].tellTo = owner[k]]
  /\ UNCHANGED <<registryVars, memberConn, pendingConn, timer, jobs>>

\* notifyOwnerOfJoinRequest: one join, to the connection the owner has now.
TellOwner(c, j) ==
  /\ conn[c].pc = "announcing" /\ j \in conn[c].tell
  /\ conn' = [Telling(conn, OwnerConn(conn[c].key, conn[c].tellTo), j) EXCEPT
                ![c].tell = @ \ {j}]
  /\ UNCHANGED <<registryVars, memberConn, pendingConn, timer, jobs>>

\* The connection that ServeHTTP superseded is closed, or the device that
\* handleJoinDecision promoted is sent join.approved.
EndAnnouncing(c) ==
  /\ conn[c].pc = "announcing" /\ conn[c].tell = {}
  /\ conn' = [Closing(conn, conn[c].prev) EXCEPT
                ![c].pc = "reading", ![c].prev = None, ![c].target = None,
                ![c].tellTo = None, ![c].answering = NoJoin]
  /\ UNCHANGED <<registryVars, memberConn, pendingConn, timer, jobs>>

\* Seeded fault: the pending entry stays behind.
LeaveMemberOnly(c) ==
  LET k == conn[c].key  d == conn[c].device IN
  /\ IF IsCurrentMember(c)
     THEN /\ memberConn' = [memberConn EXCEPT ![k][d] = None]
          /\ StartTimer(k, d, "left")
     ELSE UNCHANGED <<memberConn, timer>>
  /\ conn' = [conn EXCEPT ![c] = Gone]
  /\ UNCHANGED <<registryVars, pendingConn, jobs>>

\* Seeded fault: whoever leaves takes the entry of its request along, also the one
\* of the connection that superseded it.
LeaveAnyEntry(c) ==
  LET k == conn[c].key  d == conn[c].device  j == conn[c].join IN
  /\ pendingConn' = IF j # NoJoin
                    THEN [pendingConn EXCEPT ![k][j] = None] ELSE pendingConn
  /\ IF IsCurrentMember(c)
     THEN /\ memberConn' = [memberConn EXCEPT ![k][d] = None]
          /\ StartTimer(k, d, "left")
     ELSE UNCHANGED <<memberConn, timer>>
  /\ conn' = [conn EXCEPT ![c] = Gone]
  /\ UNCHANGED <<registryVars, jobs>>

\* The deferred part of ServeHTTP: close and unregister.  The grace of a member
\* starts only if c is still the member's current connection.
Leave(c) ==
  LET k == conn[c].key  d == conn[c].device  j == conn[c].join IN
  /\ pendingConn' = IF IsCurrentPending(c)
                    THEN [pendingConn EXCEPT ![k][j] = None] ELSE pendingConn
  /\ IF IsCurrentMember(c)
     THEN /\ memberConn' = [memberConn EXCEPT ![k][d] = None]
          /\ StartTimer(k, d, "left")
     ELSE UNCHANGED <<memberConn, timer>>
  /\ conn' = [conn EXCEPT ![c] = Gone]
  /\ UNCHANGED <<registryVars, jobs>>

\* The websocket was closed by the relay, or the member was not registered.
Unregister(c) ==
  /\ \/ conn[c].pc = "leaving"
     \/ conn[c].pc = "reading" /\ ~conn[c].open
  /\ Leave(c)

\* The peer goes away or stops answering pings, which the relay learns when it
\* reads again.
Disconnect(c) == conn[c].pc = "reading" /\ conn[c].open /\ Leave(c)

-----------------------------------------------------------------------------
(* handleEvent.  An event that connectionCanSend lets through and that is  *)
(* no join decision changes nothing modelled here.                         *)

\* A member's event on a connection that is no longer its current one, or a
\* pending device's event when its request is gone and it was not admitted.
RejectEvent(c) ==
  LET k == conn[c].key  d == conn[c].device  j == conn[c].join IN
  /\ conn[c].pc = "reading" /\ conn[c].open
  /\ \/ conn[c].role = "member" /\ ~IsCurrentMember(c) /\ UNCHANGED pendingConn
     \/ /\ conn[c].role = "pending"
        /\ ~PendingExists(k, d, j)
        /\ ~(k \in channels /\ d \in Members(k) /\ IsCurrentPending(c))
        /\ pendingConn' = IF IsCurrentPending(c)
                          THEN [pendingConn EXCEPT ![k][j] = None] ELSE pendingConn
  /\ conn' = [conn EXCEPT ![c].open = FALSE]
  /\ UNCHANGED <<registryVars, memberConn, timer, jobs>>

\* A pending device's event, its request found in the registry but its
\* connection not yet looked for in the hub.
CheckPending(c) ==
  /\ conn[c].pc = "reading" /\ conn[c].open /\ conn[c].role = "pending"
  /\ PendingExists(conn[c].key, conn[c].device, conn[c].join)
  /\ conn' = [conn EXCEPT ![c].pc = "checking"]
  /\ UNCHANGED <<registryVars, memberConn, pendingConn, timer, jobs>>

EndCheck(c) ==
  /\ conn[c].pc = "checking"
  /\ conn' = [conn EXCEPT ![c].pc = "reading",
                          ![c].open = @ /\ IsCurrentPending(c)]
  /\ UNCHANGED <<registryVars, memberConn, pendingConn, timer, jobs>>

-----------------------------------------------------------------------------
(* handleJoinDecision                                                      *)

ReceiveDecision(c) ==
  /\ conn[c].pc = "reading" /\ conn[c].open /\ conn[c].role = "member"
  /\ IsCurrentMember(c)
  /\ conn' = [conn EXCEPT ![c].pc = "deciding"]
  /\ UNCHANGED <<registryVars, memberConn, pendingConn, timer, jobs>>

DecideApprove(c, j) ==
  /\ conn[c].pc = "deciding"
  /\ ApproveByOwner(conn[c].key, conn[c].device, j)
  /\ conn' = [conn EXCEPT ![c].pc = "approved", ![c].answering = j]
  /\ UNCHANGED <<memberConn, pendingConn, timer, jobs>>

\* Seeded fault: the request stays until the refusal has been delivered.
DecideDenyEarly(c, j) ==
  /\ conn[c].pc = "deciding"
  /\ owner[conn[c].key] = conn[c].device /\ j \in pendingJoins[conn[c].key]
  /\ conn' = [conn EXCEPT ![c].pc = "denied", ![c].answering = j]
  /\ UNCHANGED <<registryVars, memberConn, pendingConn, timer, jobs>>

DecideDeny(c, j) ==
  /\ conn[c].pc = "deciding"
  /\ DenyByOwner(conn[c].key, conn[c].device, j)
  /\ conn' = [conn EXCEPT ![c].pc = "denied", ![c].answering = j]
  /\ UNCHANGED <<memberConn, pendingConn, timer, jobs>>

\* The request is unknown, the channel is full, or the device does not own it.
DecisionFails(c) ==
  /\ conn[c].pc = "deciding"
  /\ conn' = [conn EXCEPT ![c].pc = "reading"]
  /\ UNCHANGED <<registryVars, memberConn, pendingConn, timer, jobs>>

\* Seeded fault: the connection is looked up by the device that asked.
LookUpByDevice(c) ==
  LET k == conn[c].key
      asking == {pendingConn[k][j] :
                   j \in {i \in Joins : i.device = conn[c].answering.device}} \ {None} IN
  /\ conn[c].pc \in {"approved", "denied"}
  /\ IF asking = {}
     THEN conn' = [conn EXCEPT ![c].pc = "reading", ![c].answering = NoJoin]
     ELSE \E t \in asking :
            conn' = [conn EXCEPT ![c].target = t,
                       ![c].pc = IF @ = "approved" THEN "promoting" ELSE "refusing"]
  /\ UNCHANGED <<registryVars, memberConn, pendingConn, timer, jobs>>

LookUpPending(c) ==
  LET t == pendingConn[conn[c].key][conn[c].answering] IN
  /\ conn[c].pc \in {"approved", "denied"}
  /\ conn' = IF t = None
             THEN [conn EXCEPT ![c].pc = "reading", ![c].answering = NoJoin]
             ELSE [conn EXCEPT ![c].target = t,
                     ![c].pc = IF @ = "approved" THEN "promoting" ELSE "refusing"]
  /\ UNCHANGED <<registryVars, memberConn, pendingConn, timer, jobs>>

\* The code sets c.role after it has released h.mu.  Until then isMember says no,
\* and connectionCanSend lets the connection send as a current member all the
\* same, so the role is set in this step.
PromotePending(c) ==
  LET k == conn[c].key  j == conn[c].answering  t == conn[c].target IN
  /\ conn[c].pc = "promoting"
  /\ pendingConn' = IF pendingConn[k][j] = t
                    THEN [pendingConn EXCEPT ![k][j] = None] ELSE pendingConn
  /\ CancelTimer(k, j.device)
  /\ memberConn' = [memberConn EXCEPT ![k][j.device] = t]
  /\ conn' = [conn EXCEPT ![t].role = "member",
                          ![t].overtaken = @ \/ owner[k] = j.device,
                          ![c].pc = "promoted", ![c].prev = memberConn[k][j.device]]
  /\ UNCHANGED <<registryVars, jobs>>

GoOnlinePromoted(c) ==
  LET k == conn[c].key  d == conn[c].answering.device IN
  /\ conn[c].pc = "promoted"
  /\ SetOnline(k, d, TRUE)
  /\ conn' = [Closing(conn, conn[c].prev) EXCEPT
                ![c].pc = "announcing", ![c].prev = None,
                ![c].tell = IF owner'[k] # owner[k] THEN pendingJoins[k] ELSE {},
                ![c].tellTo = owner'[k]]
  /\ UNCHANGED <<memberConn, pendingConn, timer, jobs>>

PromotedIsGone(c) ==
  LET k == conn[c].key  d == conn[c].answering.device IN
  /\ conn[c].pc = "promoted"
  /\ ~(k \in channels /\ d \in Members(k))
  /\ conn' = [conn EXCEPT ![c].pc = "rollback"]
  /\ UNCHANGED <<registryVars, memberConn, pendingConn, timer, jobs>>

\* removeMember: no timer is started.
RollBack(c) ==
  LET k == conn[c].key  d == conn[c].answering.device IN
  /\ conn[c].pc = "rollback"
  /\ memberConn' = IF memberConn[k][d] = conn[c].target
                   THEN [memberConn EXCEPT ![k][d] = None] ELSE memberConn
  /\ conn' = [conn EXCEPT ![c].pc = "reading", ![c].answering = NoJoin,
                          ![c].target = None, ![c].prev = None]
  /\ UNCHANGED <<registryVars, pendingConn, timer, jobs>>

RefusePending(c) ==
  LET k == conn[c].key  j == conn[c].answering  t == conn[c].target IN
  /\ conn[c].pc = "refusing"
  /\ pendingConn' = IF pendingConn[k][j] = t
                    THEN [pendingConn EXCEPT ![k][j] = None] ELSE pendingConn
  /\ conn' = [conn EXCEPT ![t].open = FALSE, ![c].pc = "reading",
                          ![c].answering = NoJoin, ![c].target = None]
  /\ UNCHANGED <<registryVars, memberConn, timer, jobs>>

-----------------------------------------------------------------------------
(* Offline expiry.  A timer that was replaced after it fired is no longer  *)
(* tracked; when its callback deletes the entry of a newer timer, that one *)
(* is loose: still armed and no longer cancelled by anything.              *)

CallbacksUnderWay ==
  MapThenSumSet(LAMBDA p : timer[p[1]][p[2]].loose + timer[p[1]][p[2]].due,
                Keys \X Devices)

Fire(k, d) ==
  /\ timer[k][d].armed # "no"
  /\ CallbacksUnderWay < MaxCallbacks
  /\ timer' = [timer EXCEPT ![k][d].armed = "no", ![k][d].due = @ + 1]
  /\ UNCHANGED <<registryVars, conn, memberConn, pendingConn, jobs>>

FireLoose(k, d) ==
  /\ timer[k][d].loose > 0
  /\ timer' = [timer EXCEPT ![k][d].loose = @ - 1, ![k][d].due = @ + 1]
  /\ UNCHANGED <<registryVars, conn, memberConn, pendingConn, jobs>>

Expired(t) == [armed |-> "no", due |-> t.due - 1,
               loose |-> t.loose + IF t.armed = "no" THEN 0 ELSE 1]

\* The goroutine of an expiry callback after it has unlocked the hub.
AfterExpiry(k, d) ==
  IF k \notin channels'
  THEN jobs \cup {[task |-> "closePending", key |-> k, device |-> d, joins |-> {}]}
  ELSE IF owner'[k] \in {owner[k], None} \/ pendingJoins[k] = {} THEN jobs
  ELSE jobs \cup {[task |-> "tell", key |-> k, device |-> owner'[k],
                   joins |-> pendingJoins[k]]}

\* Seeded fault: the hub is not asked whether the member is connected again.
ExpireUnchecked(k, d) ==
  /\ timer[k][d].due > 0
  /\ timer' = [timer EXCEPT ![k][d] = Expired(@)]
  /\ \/ ExpireOfflineMember(k, d) /\ jobs' = AfterExpiry(k, d)
     \/ /\ ~(k \in channels /\ d \in Members(k))
        /\ UNCHANGED <<registryVars, jobs>>
  /\ UNCHANGED <<conn, memberConn, pendingConn>>

expireOfflineMember(k, d) ==
  /\ timer[k][d].due > 0
  /\ timer' = [timer EXCEPT ![k][d] = Expired(@)]
  /\ \/ /\ memberConn[k][d] = None
        /\ ExpireOfflineMember(k, d)
        /\ jobs' = AfterExpiry(k, d)
     \/ /\ memberConn[k][d] # None \/ ~(k \in channels /\ d \in Members(k))
        /\ UNCHANGED <<registryVars, jobs>>
  /\ UNCHANGED <<conn, memberConn, pendingConn>>

closePendingForChannel(job) ==
  LET closing == {pendingConn[job.key][j] : j \in Joins} IN
  /\ job.task = "closePending"
  /\ pendingConn' = [pendingConn EXCEPT ![job.key] = [j \in Joins |-> None]]
  /\ conn' = [c \in Conns |->
               IF c \in closing THEN [conn[c] EXCEPT !.open = FALSE] ELSE conn[c]]
  /\ jobs' = jobs \ {job}
  /\ UNCHANGED <<registryVars, memberConn, timer>>

TellNewOwner(job, j) ==
  /\ job.task = "tell" /\ j \in job.joins
  /\ conn' = Telling(conn, OwnerConn(job.key, job.device), j)
  /\ jobs' = (jobs \ {job}) \cup
             IF job.joins = {j} THEN {} ELSE {[job EXCEPT !.joins = @ \ {j}]}
  /\ UNCHANGED <<registryVars, memberConn, pendingConn, timer>>

-----------------------------------------------------------------------------
\* What the relay itself does next for a connection: steps it must take.
Serve(c) ==
  \/ RegisterMember(c) \/ RegisterPending(c)
  \/ GoOnline(c) \/ RejectOnline(c)
  \/ AskOwner(c) \/ (\E j \in Joins : TellOwner(c, j)) \/ EndAnnouncing(c)
  \/ Unregister(c)
  \/ EndCheck(c)
  \/ (\E j \in Joins : DecideApprove(c, j) \/ DecideDeny(c, j)) \/ DecisionFails(c)
  \/ LookUpPending(c)
  \/ PromotePending(c) \/ GoOnlinePromoted(c) \/ PromotedIsGone(c) \/ RollBack(c)
  \/ RefusePending(c)

Expiry(k, d) == Fire(k, d) \/ FireLoose(k, d) \/ expireOfflineMember(k, d)

WorkOn(k, d) ==
  \E job \in jobs :
    /\ job.key = k /\ job.device = d
    /\ \/ ScheduleOfflineExpiry(job)
       \/ closePendingForChannel(job)
       \/ \E j \in Joins : TellNewOwner(job, j)

\* What devices do, when they like.
Device ==
  \/ \E k \in Keys, d \in Devices : PostConnect(k, d)
  \/ \E c \in Conns, k \in Keys : \/ \E d \in Devices : AcceptMember(c, k, d)
                                  \/ \E j \in Joins : AcceptPending(c, k, j)
  \/ \E c \in Conns : Disconnect(c) \/ CheckPending(c) \/ ReceiveDecision(c)

RelayNext ==
  \/ Device
  \/ \E c \in Conns : Serve(c) \/ RejectEvent(c)
  \/ \E k \in Keys, d \in Devices : Expiry(k, d) \/ WorkOn(k, d)

RelaySpec == RelayInit /\ [][RelayNext]_vars

\* What the code's scheduling guarantees: a goroutine that can run does, a timer
\* runs out, a device with an open websocket sends a status request from time to
\* time (the extension's heartbeat).  Devices need not connect, leave or decide.
RelayFairness ==
  /\ \A c \in Conns : WF_vars(Serve(c)) /\ WF_vars(RejectEvent(c))
  /\ \A k \in Keys, d \in Devices : /\ WF_vars(Fire(k, d) \/ FireLoose(k, d))
                                    /\ WF_vars(expireOfflineMember(k, d))
                                    /\ WF_vars(WorkOn(k, d))

LiveRelaySpec == RelaySpec /\ RelayFairness

-----------------------------------------------------------------------------
Pcs == {"gone", "accepted", "registered", "announcing", "reading", "checking",
        "deciding", "approved", "denied", "promoting", "refusing", "promoted",
        "rollback", "leaving"}

\* The values of the hub's state, with the registry's own TypeOK.
RelayTypeOK ==
  /\ TypeOK
  /\ conn \in [Conns ->
       [pc : Pcs, key : Keys \cup {None}, device : Devices \cup {None},
        role : {"member", "pending", None}, join : Joins \cup {NoJoin},
        open : BOOLEAN, prev : Conns \cup {None}, tell : SUBSET Joins,
        tellTo : Devices \cup {None}, knows : SUBSET Joins,
        answering : Joins \cup {NoJoin}, target : Conns \cup {None},
        overtaken : BOOLEAN]]
  /\ memberConn \in [Keys -> [Devices -> Conns \cup {None}]]
  /\ pendingConn \in [Keys -> [Joins -> Conns \cup {None}]]
  /\ timer \in [Keys -> [Devices ->
       [armed : {"no", "created", "left"}, loose : Nat, due : Nat]]]
  /\ jobs \subseteq [task : {"schedule", "closePending", "tell"}, key : Keys,
                     device : Devices, joins : SUBSET Joins]

\* No goroutine is between two steps for channel k.
Quiet(k) == /\ \A c \in Conns : conn[c].key = k => conn[c].pc = "reading"
            /\ \A job \in jobs : job.key # k

\* c is the open connection that the hub would write to, at its read loop.
Settled(k, d, c) == /\ memberConn[k][d] = c
                    /\ c # None
                    /\ conn[c].pc = "reading" /\ conn[c].open

\* A member whose current connection has been set up is a member and online in
\* the registry, whichever timers, expiries and decisions ran meanwhile: no
\* expiry takes a connected member offline or deletes its channel.
ConnectedMemberIsOnline ==
  \A k \in Keys, d \in Devices, c \in Conns :
    (/\ Settled(k, d, c) /\ conn[c].role = "member"
     /\ \A e \in Conns : conn[e].target # c) => k \in channels /\ d \in online[k]

\* When nothing is under way, the owner's connection has been told of every join
\* whose device is connected and waiting, whoever owned the channel when the
\* request was made and however often owner and requester have reconnected.
\* Excepted is a connection that was promoted although its device had come to own
\* the channel meanwhile: that changes no owner, and nobody repeats the requests.
OwnerKnowsJoins ==
  \A k \in Keys : Quiet(k) =>
    \A d \in Devices, c \in Conns :
      Settled(k, d, c) /\ owner[k] = d /\ ~conn[c].overtaken =>
        \A j \in pendingJoins[k] :
          LET p == pendingConn[k][j] IN
          p # None /\ conn[p].pc = "reading" => j \in conn[c].knows

\* A channel nobody owns does not stay: somebody comes online, or the grace of
\* its first or last member runs out and the relay deletes it.
OwnerlessChannelEnds ==
  \A k \in Keys : (k \in channels /\ owner[k] = None) ~>
                    (k \notin channels \/ owner[k] # None)

\* The hub's pending entries are those of the devices that wait, both ways.  An
\* entry is a connection that is still being served and that waits for this very
\* join: whoever leaves, is promoted or is refused takes its own entry along.  And
\* a pending connection that is registered and open, whose request still waits and
\* which no newer connection is about to close, is the entry of its request:
\* whoever was superseded and leaves later takes nobody else's entry along.
PendingIsServed ==
  /\ \A k \in Keys, j \in Joins :
       LET p == pendingConn[k][j] IN
       p # None => conn[p].pc # "gone" /\ conn[p].key = k /\ conn[p].join = j
  /\ \A c \in Conns :
       (/\ conn[c].role = "pending" /\ conn[c].open
        /\ conn[c].pc \notin {"gone", "accepted"}
        /\ conn[c].join \in pendingJoins[conn[c].key]
        /\ \A e \in Conns : conn[e].prev # c) => IsCurrentPending(c)

\* A request is decided once: no two goroutines, of the connections that an owner
\* has at the same time or of owners in turn, carry out decisions of the same
\* request, although each took the decision in one critical section and looks
\* for the device's connection in another.
OneDecisionPerRequest ==
  \A c, e \in Conns :
    (/\ conn[c].answering = conn[e].answering /\ conn[c].answering # NoJoin
     /\ conn[c].key = conn[e].key) => c = e

\* A decision is carried out on the connection that waits for the request it is
\* about, as long as that is served: a device that was denied and asks again, or
\* reconnects, between the decision and its delivery is not refused or promoted
\* in the name of an older request.
DecisionMeetsItsRequest ==
  \A c, t \in Conns :
    (/\ conn[c].pc \in {"promoting", "refusing"}
     /\ conn[c].target = t /\ conn[t].pc # "gone") =>
      conn[t].key = conn[c].key /\ conn[t].join = conn[c].answering

-----------------------------------------------------------------------------
(* Claims of the repository's documents that the code does not keep.       *)

\* protocol/wire.md: "Member disconnect starts the 30-second reconnect grace."
\* A member that is online without a served connection has its grace running.
DisconnectStartsGrace ==
  \A k \in Keys : Quiet(k) =>
    \A d \in online[k] :
      \/ memberConn[k][d] # None /\ conn[memberConn[k][d]].pc # "gone"
      \/ timer[k][d] # NoTimer

\* protocol/wire.md: a member keeps its place during the grace its disconnect
\* started.  No member is taken offline while its grace is still running.
GraceIsKept ==
  [][\A k \in Keys : \A d \in online[k] \ online'[k] : timer[k][d].armed # "left"]_vars

\* protocol/wire.md: "The pending device receives one of" join.approved and
\* join.denied.  A connected device that was admitted becomes a member there.
AdmittedHearsOfIt ==
  \A c \in Conns, k \in Keys :
    (/\ conn[c].pc = "reading" /\ conn[c].open /\ conn[c].role = "pending"
     /\ conn[c].key = k /\ conn[c].device \in Members(k))
      ~> (conn[c].role = "member" \/ ~conn[c].open)
=============================================================================
