------------------------------- MODULE Client -------------------------------
(***************************************************************************)
(* How the extension keeps its connection to the relay: RelayClient        *)
(* (extension/src/client/relay-client.ts) with its connect calls, its      *)
(* reconnect loop, its heartbeat and its explicit disconnect.              *)
(*                                                                         *)
(* JavaScript runs one callback at a time and, before the next, every      *)
(* continuation that the callback made ready.  An action is one callback   *)
(* or one such continuation, and callbacks wait while a continuation is    *)
(* ready (Idle).                                                           *)
(*                                                                         *)
(* connectionGeneration, reconnectGeneration and healthGeneration are only *)
(* compared with the value an activity saw when it began, so they are      *)
(* modelled by a flag of the activity: fresh while no newer one has begun. *)
(***************************************************************************)
EXTENDS Naturals, FiniteSets

CONSTANTS
  Attempts,    \* activations of connectInternal, each with its websocket
  Loops,       \* activations of reconnectUntilOpen
  Checks,      \* activations of ensureHealthy
  None,        \* undefined
  EarlyTimers  \* whether a timer may fire before Date.now() shows its delay

User == "user"  \* the caller of an attempt that no loop made

ASSUME ClientAssumption ==
  /\ None \notin Attempts \cup Loops \cup Checks /\ User \notin Loops
  /\ EarlyTimers \in BOOLEAN

VARIABLES
  attempt,            \* what each connectInternal does next, and for whom
  sock,               \* the websocket of each attempt
  socket,             \* this.socket
  opening,            \* this.pendingOpenReject: the attempt it rejects
  loop,               \* what each reconnect loop does next
  reconnectPromise,   \* this.reconnectPromise
  reconnectTimer,     \* this.reconnectTimer and its resolver: the loop it wakes
  check,              \* what each health check does next
  healthPromise,      \* this.healthCheckPromise
  heartbeat,          \* whether this.heartbeatTimer is set
  explicit,           \* this.explicitDisconnect
  used                \* whether this.lastConnectArgs is set

loopVars == <<loop, reconnectPromise, reconnectTimer>>
socketVars == <<sock, socket, opening, heartbeat>>
vars == <<attempt, socketVars, loopVars, check, healthPromise, explicit, used>>

Init ==
  /\ attempt = [a \in Attempts |-> [pc |-> "none", by |-> User, fresh |-> FALSE]]
  /\ sock = [a \in Attempts |-> "closed"]
  /\ socket = None
  /\ opening = None
  /\ loop = [l \in Loops |-> [pc |-> "none", fresh |-> FALSE]]
  /\ reconnectPromise = None
  /\ reconnectTimer = None
  /\ check = [h \in Checks |-> [pc |-> "none", on |-> None, fresh |-> FALSE]]
  /\ healthPromise = None
  /\ heartbeat = FALSE
  /\ explicit = FALSE
  /\ used = FALSE

-----------------------------------------------------------------------------
\* No continuation is ready: the event loop takes the next callback.
Idle ==
  /\ \A a \in Attempts : attempt[a].pc \notin {"opened", "failed"}
  /\ \A l \in Loops : loop[l].pc # "woken"
  /\ \A h \in Checks : check[h].pc # "probeFailed"

Outdated(activities) ==
  [x \in DOMAIN activities |-> [activities[x] EXCEPT !.fresh = FALSE]]

Free(a) == attempt[a].pc = "none" /\ sock[a] = "closed"

\* The user connects again only while the model has room for what may follow:
\* an attempt and a loop to reconnect with, and a health check.
RoomToConnect ==
  /\ Cardinality({a \in Attempts : Free(a)}) >= 2
  /\ \E l \in Loops : loop[l].pc = "none"
  /\ \E h \in Checks : check[h].pc = "none"

\* Seeded fault: the websocket that is given up stays open.
SocketLeftOpen == sock

\* closeCurrentSocket: the opening attempt or the probes that await an answer
\* on the current socket are rejected, and it is closed.
SocketClosed == IF socket = None THEN sock ELSE [sock EXCEPT ![socket] = "closed"]

OpeningRejected(attempts) ==
  IF opening = None THEN attempts ELSE [attempts EXCEPT ![opening].pc = "failed"]

\* Seeded fault: the waiters of a closed websocket wait for their timeout.
ProbesLeft(checks) == checks

\* rejectResponseWaiters.
ProbesRejected(checks) ==
  [h \in Checks |-> IF checks[h].pc = "probing"
                    THEN [checks[h] EXCEPT !.pc = "probeFailed"] ELSE checks[h]]

NoSocket == socket' = None /\ opening' = None /\ heartbeat' = FALSE

\* Seeded fault: the timer is cleared, and whoever awaits the delay goes on waiting.
TimerForgotten(loops) == loops

\* clearReconnectTimer: the loop that waits for it goes on at once.
TimerCleared(loops) ==
  IF reconnectTimer = None THEN loops ELSE [loops EXCEPT ![reconnectTimer].pc = "woken"]

\* The synchronous part of connectInternal.
Begin(a, attempts, caller) ==
  [Outdated(attempts) EXCEPT ![a] = [pc |-> "fetching", by |-> caller, fresh |-> TRUE]]

\* Seeded fault: connect leaves the loop of an earlier connection running.
ConnectKeepsLoop(a) ==
  /\ Idle /\ Free(a) /\ RoomToConnect
  /\ UNCHANGED <<loop, reconnectTimer>>
  /\ reconnectPromise' = None
  /\ healthPromise' = None
  /\ check' = ProbesRejected(Outdated(check))
  /\ sock' = SocketClosed /\ NoSocket
  /\ attempt' = Begin(a, OpeningRejected(attempt), User)
  /\ explicit' = FALSE /\ used' = TRUE

connect(a) ==
  /\ Idle /\ Free(a) /\ RoomToConnect
  /\ loop' = TimerCleared(Outdated(loop))
  /\ reconnectTimer' = None
  /\ reconnectPromise' = None
  /\ healthPromise' = None
  /\ check' = ProbesRejected(Outdated(check))
  /\ sock' = SocketClosed /\ NoSocket
  /\ attempt' = Begin(a, OpeningRejected(attempt), User)
  /\ explicit' = FALSE /\ used' = TRUE

disconnect ==
  /\ Idle
  /\ loop' = TimerCleared(Outdated(loop))
  /\ reconnectTimer' = None
  /\ healthPromise' = None
  /\ check' = ProbesRejected(Outdated(check))
  /\ sock' = SocketClosed /\ NoSocket
  /\ attempt' = OpeningRejected(Outdated(attempt))
  /\ explicit' = TRUE
  /\ UNCHANGED <<reconnectPromise, used>>

-----------------------------------------------------------------------------
(* The rest of connectInternal, and openSocket                             *)

FetchFails(a) ==
  /\ Idle /\ attempt[a].pc = "fetching"
  /\ attempt' = [attempt EXCEPT ![a].pc = "failed"]
  /\ UNCHANGED <<socketVars, loopVars, check, healthPromise, explicit, used>>

\* Seeded fault: an answer that comes too late is used all the same.
AnyGeneration(a) == TRUE

StillWanted(a) == attempt[a].fresh /\ ~explicit

\* The relay has answered.  A newer attempt or a disconnect cancels this one;
\* otherwise its websocket replaces the current one.
FetchOk(a) ==
  /\ Idle /\ attempt[a].pc = "fetching"
  /\ IF StillWanted(a)
     THEN /\ attempt' = [OpeningRejected(attempt) EXCEPT ![a].pc = "opening"]
          /\ check' = ProbesRejected(check)
          /\ sock' = [SocketClosed EXCEPT ![a] = "connecting"]
          /\ socket' = a /\ opening' = a /\ heartbeat' = FALSE
     ELSE /\ attempt' = [attempt EXCEPT ![a].pc = "failed"]
          /\ UNCHANGED <<check, socketVars>>
  /\ UNCHANGED <<loopVars, healthPromise, explicit, used>>

SocketOpens(a) ==
  /\ Idle /\ socket = a /\ sock[a] = "connecting"
  /\ sock' = [sock EXCEPT ![a] = "open"]
  /\ opening' = None
  /\ heartbeat' = TRUE
  /\ attempt' = [attempt EXCEPT ![a].pc = "opened"]
  /\ UNCHANGED <<socket, loopVars, check, healthPromise, explicit, used>>

\* Seeded fault: pendingOpenReject outlives the attempt it rejects.
SocketFailsKeepsReject(a) ==
  /\ Idle /\ socket = a /\ sock[a] = "connecting"
  /\ sock' = [sock EXCEPT ![a] = "closed"]
  /\ socket' = None
  /\ attempt' = [attempt EXCEPT ![a].pc = "failed"]
  /\ UNCHANGED <<opening, heartbeat, loopVars, check, healthPromise, explicit, used>>

SocketFailsToOpen(a) ==
  /\ Idle /\ socket = a /\ sock[a] = "connecting"
  /\ sock' = [sock EXCEPT ![a] = "closed"]
  /\ socket' = None /\ opening' = None
  /\ attempt' = [attempt EXCEPT ![a].pc = "failed"]
  /\ UNCHANGED <<heartbeat, loopVars, check, healthPromise, explicit, used>>

\* The relay or the network is gone and nothing tells the client so.
GoesHalfOpen(a) ==
  /\ sock[a] = "open"
  /\ sock' = [sock EXCEPT ![a] = "halfOpen"]
  /\ UNCHANGED <<attempt, socket, opening, heartbeat, loopVars, check, healthPromise,
                 explicit, used>>

\* An event arrives: recordRelayActivity.
Inbound(a) ==
  /\ Idle /\ socket = a /\ sock[a] = "open"
  /\ heartbeat' = TRUE
  /\ UNCHANGED <<attempt, sock, socket, opening, loopVars, check, healthPromise,
                 explicit, used>>

-----------------------------------------------------------------------------
(* The reconnect loop                                                      *)

\* reconnect: one loop serves every caller; r is its promise afterwards, None
\* for a promise that is already resolved.  The loop begins with its delay.
Reconnect(loops, r) ==
  IF reconnectPromise # None \/ explicit \/ ~used
  THEN /\ r = reconnectPromise
       /\ loop' = loops
       /\ UNCHANGED <<reconnectPromise, reconnectTimer>>
  ELSE /\ r \in Loops /\ loop[r].pc = "none"
       /\ loop' = [Outdated(loops) EXCEPT ![r] = [pc |-> "delaying", fresh |-> TRUE]]
       /\ reconnectPromise' = r
       /\ reconnectTimer' = r

\* The close event of the current socket.
SocketCloses(a) ==
  /\ Idle /\ socket = a /\ sock[a] \in {"open", "halfOpen"}
  /\ sock' = SocketClosed /\ NoSocket
  /\ check' = ProbesRejected(check)
  /\ \E r \in Loops \cup {None} : Reconnect(loop, r)
  /\ UNCHANGED <<attempt, healthPromise, explicit, used>>

DelayOver(l) ==
  /\ Idle /\ reconnectTimer = l
  /\ loop' = [loop EXCEPT ![l].pc = "woken"]
  /\ reconnectTimer' = None
  /\ UNCHANGED <<attempt, socketVars, reconnectPromise, check, healthPromise, explicit, used>>

\* The end of loop l, of its promise and of the health checks that await it.
LoopEnds(l) ==
  /\ loop' = [loop EXCEPT ![l].pc = "none"]
  /\ reconnectPromise' = IF reconnectPromise = l THEN None ELSE reconnectPromise
  /\ check' = [h \in Checks |-> IF check[h].pc = "recovering" /\ check[h].on = l
                                THEN [check[h] EXCEPT !.pc = "none", !.on = None] ELSE check[h]]
  /\ healthPromise' =
       IF healthPromise # None /\ check[healthPromise].pc = "recovering"
            /\ check[healthPromise].on = l
       THEN None ELSE healthPromise
  /\ UNCHANGED reconnectTimer

LoopIsWanted(l) == loop[l].fresh /\ ~explicit

LoopWakes(l, a) ==
  /\ loop[l].pc = "woken" /\ LoopIsWanted(l) /\ Free(a)
  /\ loop' = [loop EXCEPT ![l].pc = "connecting"]
  /\ attempt' = Begin(a, attempt, l)
  /\ explicit' = FALSE /\ used' = TRUE
  /\ UNCHANGED <<socketVars, reconnectPromise, reconnectTimer, check, healthPromise>>

LoopGivesUp(l) ==
  /\ loop[l].pc = "woken" /\ ~LoopIsWanted(l)
  /\ LoopEnds(l)
  /\ UNCHANGED <<attempt, socketVars, explicit, used>>

\* Seeded fault: the loop ends with its first attempt.
TriesOnce(a) == FALSE

\* The catch clause of the loop.
TriesAgain(a) == attempt[a].pc = "failed" /\ LoopIsWanted(attempt[a].by)

\* connectInternal returns or throws, to the user or to the loop that called it.
AttemptEnds(a) ==
  LET l == attempt[a].by IN
  /\ attempt[a].pc \in {"opened", "failed"}
  /\ attempt' = [attempt EXCEPT ![a] = [pc |-> "none", by |-> User, fresh |-> FALSE]]
  /\ \/ l = User /\ UNCHANGED <<loopVars, check, healthPromise>>
     \/ l # User /\ ~TriesAgain(a) /\ LoopEnds(l)
     \/ /\ l # User /\ TriesAgain(a)
        /\ loop' = [loop EXCEPT ![l].pc = "delaying"]
        /\ reconnectTimer' = l
        /\ UNCHANGED <<reconnectPromise, check, healthPromise>>
  /\ UNCHANGED <<socketVars, explicit, used>>

-----------------------------------------------------------------------------
(* The health check                                                        *)

\* this.socket?.readyState is OPEN, which a websocket stays until someone tells it.
SocketIsOpen == socket \in {a \in Attempts : sock[a] \in {"open", "halfOpen"}}

\* ensureHealthy, when no earlier check is under way; stale: the last event is
\* HEARTBEAT_INTERVAL_MS old.
EnsureHealthy(stale) ==
  \/ /\ SocketIsOpen /\ ~stale
     /\ UNCHANGED <<loopVars, check, healthPromise>>
  \/ /\ SocketIsOpen /\ stale
     /\ \E h \in Checks :
          /\ check[h].pc = "none"
          /\ check' = [check EXCEPT ![h] = [pc |-> "probing", on |-> None, fresh |-> TRUE]]
          /\ healthPromise' = h
     /\ UNCHANGED loopVars
  \/ /\ ~SocketIsOpen
     /\ \E r \in Loops \cup {None}, h \in Checks :
          /\ Reconnect(loop, r)
          /\ check[h].pc = "none"
          /\ IF r = None
             THEN UNCHANGED <<check, healthPromise>>
             ELSE /\ check' = [check EXCEPT ![h] =
                                 [pc |-> "recovering", on |-> r, fresh |-> TRUE]]
                  /\ healthPromise' = h

\* The heartbeat timer fires, HEARTBEAT_INTERVAL_MS after the last event by the
\* monotonic time the event loop cached.  Date.now() is another clock, so with
\* EarlyTimers the last event need not look that old.
HeartbeatDue ==
  /\ Idle /\ heartbeat
  /\ heartbeat' = FALSE
  /\ IF healthPromise # None
     THEN UNCHANGED <<loopVars, check, healthPromise>>
     ELSE \E stale \in {TRUE, ~EarlyTimers} : EnsureHealthy(stale)
  /\ UNCHANGED <<attempt, sock, socket, opening, explicit, used>>

\* afterHealthy, for any tool action but connect and disconnect.
ToolAction ==
  /\ Idle /\ healthPromise = None
  /\ \E stale \in BOOLEAN : EnsureHealthy(stale)
  /\ UNCHANGED <<attempt, socketVars, explicit, used>>

ProbeAnswered(h) ==
  /\ Idle /\ check[h].pc = "probing" /\ sock[socket] = "open"
  /\ check' = [check EXCEPT ![h].pc = "none"]
  /\ healthPromise' = IF healthPromise = h THEN None ELSE healthPromise
  /\ heartbeat' = TRUE
  /\ UNCHANGED <<attempt, sock, socket, opening, loopVars, explicit, used>>

\* HEARTBEAT_TIMEOUT_MS without an answer, or an error event in its place.
ProbeTimesOut(h) ==
  /\ Idle /\ check[h].pc = "probing"
  /\ check' = [check EXCEPT ![h].pc = "probeFailed"]
  /\ UNCHANGED <<attempt, socketVars, loopVars, healthPromise, explicit, used>>

\* Seeded fault: a socket that did not answer stays.
ProbeFailsKeepsSocket(h) ==
  /\ check[h].pc = "probeFailed"
  /\ check' = [check EXCEPT ![h].pc = "none"]
  /\ healthPromise' = IF healthPromise = h THEN None ELSE healthPromise
  /\ UNCHANGED <<attempt, socketVars, loopVars, explicit, used>>

\* Seeded fault: the generation is not compared when a probe has failed.
ProbeFailsAnyGeneration(h) ==
  /\ check[h].pc = "probeFailed" /\ ~explicit
  /\ sock' = SocketClosed /\ NoSocket
  /\ attempt' = OpeningRejected(attempt)
  /\ \E r \in Loops : /\ Reconnect(loop, r)
                      /\ check' = [ProbesRejected(check) EXCEPT
                                     ![h].pc = "recovering", ![h].on = r]
  /\ UNCHANGED <<healthPromise, explicit, used>>

ProbeFails(h) ==
  /\ check[h].pc = "probeFailed"
  /\ IF check[h].fresh /\ ~explicit
     THEN /\ sock' = SocketClosed /\ NoSocket
          /\ attempt' = OpeningRejected(attempt)
          /\ \E r \in Loops : /\ Reconnect(loop, r)
                              /\ check' = [ProbesRejected(check) EXCEPT
                                             ![h].pc = "recovering", ![h].on = r]
          /\ UNCHANGED healthPromise
     ELSE /\ check' = [check EXCEPT ![h].pc = "none"]
          /\ healthPromise' = IF healthPromise = h THEN None ELSE healthPromise
          /\ UNCHANGED <<attempt, socketVars, loopVars>>
  /\ UNCHANGED <<explicit, used>>

-----------------------------------------------------------------------------
Next ==
  \/ disconnect
  \/ HeartbeatDue
  \/ ToolAction
  \/ \E a \in Attempts :
       \/ connect(a) \/ FetchFails(a) \/ FetchOk(a)
       \/ SocketOpens(a) \/ SocketFailsToOpen(a) \/ GoesHalfOpen(a) \/ SocketCloses(a)
       \/ Inbound(a) \/ AttemptEnds(a)
  \/ \E l \in Loops :
       \/ DelayOver(l) \/ LoopGivesUp(l)
       \/ \E a \in Attempts : LoopWakes(l, a)
  \/ \E h \in Checks : ProbeAnswered(h) \/ ProbeTimesOut(h) \/ ProbeFails(h)

Spec == Init /\ [][Next]_vars

\* Timers fire, continuations run, every request comes to an end, and a relay
\* that is asked again and again does answer.
Fairness ==
  /\ WF_vars(HeartbeatDue)
  /\ \A a \in Attempts :
       /\ WF_vars(FetchOk(a) \/ FetchFails(a))
       /\ WF_vars(SocketOpens(a) \/ SocketFailsToOpen(a))
       /\ SF_vars(FetchOk(a)) /\ SF_vars(SocketOpens(a))
       /\ WF_vars(AttemptEnds(a))
  /\ \A l \in Loops :
       /\ WF_vars(DelayOver(l))
       /\ WF_vars(LoopGivesUp(l) \/ \E a \in Attempts : LoopWakes(l, a))
  /\ \A h \in Checks :
       /\ WF_vars(ProbeTimesOut(h) \/ ProbeAnswered(h))
       /\ WF_vars(ProbeFails(h))

LiveSpec == Spec /\ Fairness

-----------------------------------------------------------------------------
(* Properties                                                              *)

\* Every variable keeps its type: an activity that awaits something awaits a
\* loop or a socket that exists.
ClientTypeOK ==
  /\ attempt \in [Attempts -> [pc : {"none", "fetching", "opening", "opened", "failed"},
                               by : Loops \cup {User}, fresh : BOOLEAN]]
  /\ sock \in [Attempts -> {"closed", "connecting", "open", "halfOpen"}]
  /\ socket \in Attempts \cup {None}
  /\ opening \in {socket, None}
  /\ loop \in [Loops -> [pc : {"none", "delaying", "woken", "connecting"}, fresh : BOOLEAN]]
  /\ reconnectPromise \in Loops \cup {None}
  /\ reconnectTimer \in Loops \cup {None}
  /\ check \in [Checks -> [pc : {"none", "probing", "probeFailed", "recovering"},
                           on : Loops \cup {None}, fresh : BOOLEAN]]
  /\ healthPromise \in Checks \cup {None}
  /\ heartbeat \in BOOLEAN /\ explicit \in BOOLEAN /\ used \in BOOLEAN

\* closeCurrentSocket comes before every new websocket and every goodbye: no
\* websocket stays behind that the client no longer looks at.
NoOrphanSocket == \A a \in Attempts : sock[a] # "closed" => socket = a

\* "Reconnect is single-flight": the loop that may still connect is the one
\* whose promise reconnect() hands out, and only it waits for the timer.
ReconnectIsSingleFlight ==
  \A l \in Loops :
    /\ loop[l].pc # "none" /\ loop[l].fresh /\ ~explicit => reconnectPromise = l
    /\ loop[l].pc = "delaying" => reconnectTimer = l

\* A websocket that opened is watched: its heartbeat is armed, or a health
\* check or the reconnect loop is at work and ends with a fresh heartbeat or
\* without the websocket.
OpenSocketIsWatched ==
  SocketIsOpen => heartbeat \/ healthPromise # None \/ reconnectPromise # None

\* A probe waits for its answer on the websocket that is current and open:
\* every way to lose that websocket rejects the probe in the same callback.  What
\* the rejected probe does then is the next property's.
ProbeHasSocket ==
  \A h \in Checks :
    check[h].pc = "probing" => SocketIsOpen

\* The catch clause of ensureHealthy closes the current websocket, whichever it
\* is by then.  It never meets one that has yet to open, although openSocket
\* rejects the probes when it replaces a websocket: no attempt gets that far
\* while a probe waits, and a check that connect outdated starts no loop.
ProbeSparesNewSocket ==
  \A h \in Checks : check[h].pc = "probeFailed" => opening = None

\* "Explicit disconnect remains disconnected": until the user connects, no
\* timer, answer or event of before makes a request or opens a websocket.
DisconnectIsFinal ==
  [][explicit /\ ~(\E a \in Attempts : connect(a))
       => explicit' /\ socket' = None]_vars

\* "A locally open but non-responsive socket is detected without user
\* activity": a connection that no longer answers does not stay current.
HalfOpenIsDetected ==
  \A a \in Attempts : (socket = a /\ sock[a] = "halfOpen") ~> (socket # a)

\* "Heartbeat, close handler, and concurrent tool actions must share one
\* reconnect promise/timer rather than opening competing sockets": no attempt
\* opens a websocket while another websocket is open.
NoCompetingSockets ==
  [][\A a, b \in Attempts : sock[a] = "open" /\ a # b => ~(sock[b] = "closed" /\ sock'[b] = "connecting")]_vars

\* A lost connection comes back: the loop goes on until a websocket is open,
\* unless the user connects or disconnects.
ReconnectSucceeds ==
  \A l \in Loops : (loop[l].pc # "none" /\ loop[l].fresh)
                     ~> (SocketIsOpen \/ ~loop[l].fresh)

\* Every tool action runs in the end: the health check it awaits finishes, also
\* when connect or disconnect took away the loop, the timer or the websocket
\* that the check itself awaits.
HealthCheckEnds == \A h \in Checks : check[h].pc # "none" ~> check[h].pc = "none"
=============================================================================
