---------------------------- MODULE ClientProofs ----------------------------
(***************************************************************************)
(* For every number of connect calls, reconnect loops and health checks:   *)
(* the client leaves no websocket behind, reconnects with one loop, stays  *)
(* disconnected when told so, probes only an open websocket, closes no new *)
(* one when a probe fails and watches the websocket that is open.          *)
(*                                                                         *)
(* The argument: of each kind of activity at most one is wanted, and the   *)
(* field that the code keeps for it (pendingOpenReject, reconnectPromise,  *)
(* reconnectTimer, healthCheckPromise) names that one.  IInv says so, and  *)
(* how the activities await one another.                                   *)
(***************************************************************************)
EXTENDS Client, TLAPS

AttemptsTyped == [Attempts -> [pc : {"none", "fetching", "opening", "opened", "failed"},
                               by : Loops \cup {User}, fresh : BOOLEAN]]
LoopsTyped == [Loops -> [pc : {"none", "delaying", "woken", "connecting"}, fresh : BOOLEAN]]
ChecksTyped == [Checks -> [pc : {"none", "probing", "probeFailed", "recovering"},
                           on : Loops \cup {None}, fresh : BOOLEAN]]
SocksTyped == [Attempts -> {"closed", "connecting", "open", "halfOpen"}]

\* The one websocket is this.socket, and pendingOpenReject rejects the attempt
\* that awaits it.
OneSocket ==
  /\ NoOrphanSocket
  /\ \A a \in Attempts : /\ sock[a] = "connecting" <=> opening = a
                         /\ attempt[a].pc = "opening" <=> opening = a

\* An attempt that a loop made is the only one that it awaits.
LoopsWait ==
  /\ \A a \in Attempts :
       attempt[a].by # User =>
         attempt[a].pc # "none" /\ loop[attempt[a].by].pc = "connecting"
  /\ \A a, b \in Attempts : attempt[a].by = attempt[b].by /\ attempt[a].by # User => a = b

\* The loop that waits for its delay is wanted and waits for the timer; a loop
\* whose promise is handed out runs, and is wanted unless disconnect came.
OneLoop ==
  /\ ReconnectIsSingleFlight
  /\ \A l \in Loops : /\ loop[l].pc = "delaying" => loop[l].fresh /\ ~explicit
                      /\ reconnectTimer = l => loop[l].pc = "delaying"
  /\ reconnectPromise # None =>
       /\ loop[reconnectPromise].pc # "none"
       /\ explicit \/ loop[reconnectPromise].fresh

\* The check whose promise is handed out is the one that is wanted, and the loop
\* that it awaits is the one whose promise is handed out.
OneCheck ==
  /\ \A h \in Checks : check[h].pc # "none" /\ check[h].fresh => healthPromise = h
  /\ healthPromise # None =>
       /\ check[healthPromise].pc # "none" /\ check[healthPromise].fresh
       /\ check[healthPromise].pc = "recovering" =>
            reconnectPromise # None /\ check[healthPromise].on = reconnectPromise

DisconnectHolds == explicit => socket = None

\* connectInternal has a continuation to run and nothing came in between.
OpenedIsWatched ==
  SocketIsOpen /\ (\E a \in Attempts : attempt[a].pc = "opened") => heartbeat

Watched == ~EarlyTimers => OpenSocketIsWatched

IInv == /\ ClientTypeOK
        /\ OneSocket /\ LoopsWait /\ OneLoop /\ OneCheck
        /\ DisconnectHolds /\ OpenedIsWatched /\ ProbeHasSocket /\ Watched

-----------------------------------------------------------------------------
(* What the helpers make of the activities                                 *)

\* The type invariant, field by field.
LEMMA TypesAre ==
  ClientTypeOK <=>
    /\ attempt \in AttemptsTyped /\ sock \in SocksTyped
    /\ socket \in Attempts \cup {None} /\ opening \in {socket, None}
    /\ loop \in LoopsTyped
    /\ reconnectPromise \in Loops \cup {None} /\ reconnectTimer \in Loops \cup {None}
    /\ check \in ChecksTyped /\ healthPromise \in Checks \cup {None}
    /\ heartbeat \in BOOLEAN /\ explicit \in BOOLEAN /\ used \in BOOLEAN
BY DEF ClientTypeOK, AttemptsTyped, SocksTyped, LoopsTyped, ChecksTyped

\* The attempt that is rejected fails, and the others are as they were.
LEMMA RejectedAttempts ==
  ASSUME NEW attempts \in AttemptsTyped, opening \in Attempts \cup {None}
  PROVE  /\ OpeningRejected(attempts) \in AttemptsTyped
         /\ \A a \in Attempts :
              /\ OpeningRejected(attempts)[a].by = attempts[a].by
              /\ OpeningRejected(attempts)[a].fresh = attempts[a].fresh
              /\ OpeningRejected(attempts)[a].pc =
                   IF opening = a THEN "failed" ELSE attempts[a].pc
BY ClientAssumption DEF AttemptsTyped, OpeningRejected

\* A new generation changes nothing else of the attempts,
LEMMA OutdatedAttempts ==
  ASSUME NEW attempts \in AttemptsTyped
  PROVE  /\ Outdated(attempts) \in AttemptsTyped
         /\ \A a \in Attempts : /\ Outdated(attempts)[a].by = attempts[a].by
                                /\ Outdated(attempts)[a].pc = attempts[a].pc
                                /\ Outdated(attempts)[a].fresh = FALSE
BY DEF AttemptsTyped, Outdated

\* or of the loops
LEMMA OutdatedLoops ==
  ASSUME NEW loops \in LoopsTyped
  PROVE  /\ Outdated(loops) \in LoopsTyped
         /\ \A l \in Loops : /\ Outdated(loops)[l].pc = loops[l].pc
                             /\ Outdated(loops)[l].fresh = FALSE
BY DEF LoopsTyped, Outdated

\* or of the checks.
LEMMA OutdatedChecks ==
  ASSUME NEW checks \in ChecksTyped
  PROVE  /\ Outdated(checks) \in ChecksTyped
         /\ \A h \in Checks : /\ Outdated(checks)[h].pc = checks[h].pc
                              /\ Outdated(checks)[h].on = checks[h].on
                              /\ Outdated(checks)[h].fresh = FALSE
BY DEF ChecksTyped, Outdated

\* connectInternal begins one attempt and outdates the others.
LEMMA BegunAttempts ==
  ASSUME NEW attempts \in AttemptsTyped, NEW a \in Attempts, NEW caller \in Loops \cup {User}
  PROVE  /\ Begin(a, attempts, caller) \in AttemptsTyped
         /\ Begin(a, attempts, caller)[a] = [pc |-> "fetching", by |-> caller, fresh |-> TRUE]
         /\ \A b \in Attempts \ {a} : /\ Begin(a, attempts, caller)[b].by = attempts[b].by
                                      /\ Begin(a, attempts, caller)[b].pc = attempts[b].pc
BY DEF AttemptsTyped, Outdated, Begin

\* The others are outdated by it.
LEMMA BegunOutdates ==
  ASSUME NEW attempts \in AttemptsTyped, NEW a \in Attempts, NEW caller \in Loops \cup {User}
  PROVE  \A b \in Attempts \ {a} : Begin(a, attempts, caller)[b].fresh = FALSE
BY DEF AttemptsTyped, Outdated, Begin

\* Probes that are rejected fail, and no probe is left.
LEMMA RejectedProbes ==
  ASSUME NEW checks \in ChecksTyped
  PROVE  /\ ProbesRejected(checks) \in ChecksTyped
         /\ \A h \in Checks :
              /\ ProbesRejected(checks)[h].on = checks[h].on
              /\ ProbesRejected(checks)[h].fresh = checks[h].fresh
              /\ ProbesRejected(checks)[h].pc =
                   IF checks[h].pc = "probing" THEN "probeFailed" ELSE checks[h].pc
BY DEF ChecksTyped, ProbesRejected

\* The loop that waited for the timer is woken.
LEMMA ClearedTimer ==
  ASSUME NEW loops \in LoopsTyped, reconnectTimer \in Loops \cup {None}
  PROVE  /\ TimerCleared(loops) \in LoopsTyped
         /\ \A l \in Loops :
              /\ TimerCleared(loops)[l].fresh = loops[l].fresh
              /\ TimerCleared(loops)[l].pc =
                   IF reconnectTimer = l THEN "woken" ELSE loops[l].pc
BY ClientAssumption DEF LoopsTyped, TimerCleared

\* closeCurrentSocket closes the one websocket.
LEMMA ClosedSocket ==
  ASSUME ClientTypeOK, NoOrphanSocket
  PROVE  /\ SocketClosed \in SocksTyped
         /\ \A a \in Attempts : SocketClosed[a] = "closed"
BY TypesAre, ClientAssumption DEF SocksTyped, SocketClosed, NoOrphanSocket

\* Without a websocket, none is open.
LEMMA NoneOpen ==
  ASSUME socket' = None
  PROVE  ~SocketIsOpen'
BY ClientAssumption DEF SocketIsOpen

-----------------------------------------------------------------------------
(* What the shared steps keep                                              *)

\* The new type invariant, field by field.
LEMMA TypesAreNew ==
  ASSUME attempt' \in AttemptsTyped, sock' \in SocksTyped,
         socket' \in Attempts \cup {None}, opening' \in {socket', None}, loop' \in LoopsTyped,
         reconnectPromise' \in Loops \cup {None}, reconnectTimer' \in Loops \cup {None},
         check' \in ChecksTyped, healthPromise' \in Checks \cup {None},
         heartbeat' \in BOOLEAN, explicit' \in BOOLEAN, used' \in BOOLEAN
  PROVE  ClientTypeOK'
BY DEF ClientTypeOK, AttemptsTyped, SocksTyped, LoopsTyped, ChecksTyped

\* reconnect: it hands out the promise of the loop that runs, or of a new one
\* that takes the timer; with no loop wanted before, none is left that waits.
LEMMA ReconnectKeeps ==
  ASSUME IInv, NEW r \in Loops \cup {None}, Reconnect(loop, r), UNCHANGED explicit
  PROVE  /\ loop' \in LoopsTyped /\ reconnectTimer' \in Loops \cup {None}
         /\ UNCHANGED attempt => LoopsWait'
         /\ \A l \in Loops : loop[l].pc = "connecting" => loop'[l].pc = "connecting"
         /\ OneLoop'
         /\ reconnectPromise' = r
         /\ reconnectPromise # None => r = reconnectPromise
<1>1. /\ loop \in LoopsTyped /\ attempt \in AttemptsTyped
      /\ reconnectPromise \in Loops \cup {None} /\ reconnectTimer \in Loops \cup {None}
  BY TypesAre DEF IInv
<1>2. CASE reconnectPromise # None \/ explicit \/ ~used
  BY <1>1, <1>2 DEF IInv, Reconnect, LoopsWait, OneLoop, ReconnectIsSingleFlight
<1>3. CASE ~(reconnectPromise # None \/ explicit \/ ~used)
  <2>1. /\ r \in Loops /\ loop[r].pc = "none" /\ reconnectPromise' = r /\ reconnectTimer' = r
        /\ loop' = [Outdated(loop) EXCEPT ![r] = [pc |-> "delaying", fresh |-> TRUE]]
    BY <1>3 DEF Reconnect
  <2>2. /\ Outdated(loop) \in LoopsTyped
        /\ \A l \in Loops : Outdated(loop)[l].pc = loop[l].pc /\ Outdated(loop)[l].fresh = FALSE
    BY <1>1, OutdatedLoops
  <2>3. /\ loop' \in LoopsTyped /\ loop'[r] = [pc |-> "delaying", fresh |-> TRUE]
        /\ \A l \in Loops \ {r} : loop'[l].pc = loop[l].pc /\ loop'[l].fresh = FALSE
    BY <2>1, <2>2 DEF LoopsTyped
  <2>4. \A l \in Loops : loop[l].pc # "delaying"
    BY <1>3, ClientAssumption DEF IInv, OneLoop, ReconnectIsSingleFlight
  <2>5. \A a \in Attempts : attempt[a].by # r
    BY <2>1, <1>1, ClientAssumption DEF IInv, LoopsWait
  <2>6. UNCHANGED attempt => LoopsWait'
    BY <1>1, <2>3, <2>5 DEF IInv, LoopsWait, AttemptsTyped
  <2>7. OneLoop'
    BY <1>3, <2>1, <2>3, <2>4, ClientAssumption DEF OneLoop, ReconnectIsSingleFlight
  <2>8. QED BY <1>3, <2>1, <2>3, <2>5, <2>6, <2>7
<1>4. QED BY <1>2, <1>3

\* The end of a loop ends its promise and the check that awaits it, and no other.
LEMMA LoopEndsKeeps ==
  ASSUME IInv, NEW l \in Loops, loop[l].pc # "delaying", LoopEnds(l), UNCHANGED explicit,
         \A a \in Attempts : attempt'[a].by = User
                             \/ (attempt'[a].by # l /\ attempt'[a] = attempt[a])
  PROVE  /\ loop' \in LoopsTyped /\ check' \in ChecksTyped
         /\ reconnectPromise' \in Loops \cup {None} /\ reconnectTimer' \in Loops \cup {None}
         /\ healthPromise' \in Checks \cup {None}
         /\ LoopsWait' /\ OneLoop' /\ OneCheck'
         /\ \A h \in Checks : check'[h].pc = "probing" => check[h].pc = "probing"
         /\ reconnectPromise # l =>
              reconnectPromise' = reconnectPromise /\ healthPromise' = healthPromise
<1>1. /\ loop \in LoopsTyped /\ attempt \in AttemptsTyped /\ check \in ChecksTyped
      /\ reconnectPromise \in Loops \cup {None} /\ reconnectTimer \in Loops \cup {None}
      /\ healthPromise \in Checks \cup {None}
  BY TypesAre DEF IInv
<1>2. /\ loop' \in LoopsTyped /\ loop'[l].pc = "none" /\ loop'[l].fresh = loop[l].fresh
      /\ \A k \in Loops \ {l} : loop'[k] = loop[k]
  BY <1>1 DEF LoopEnds, LoopsTyped
<1>3. /\ check' \in ChecksTyped
      /\ \A h \in Checks : \/ check[h].pc = "recovering" /\ check[h].on = l /\ check'[h].pc = "none"
                           \/ ~(check[h].pc = "recovering" /\ check[h].on = l)
                              /\ check'[h] = check[h]
  <2>1. check' = [h \in Checks |-> IF check[h].pc = "recovering" /\ check[h].on = l
                                   THEN [check[h] EXCEPT !.pc = "none", !.on = None]
                                   ELSE check[h]]
    BY DEF LoopEnds
  <2>2. ASSUME NEW h \in Checks
        PROVE  /\ [check[h] EXCEPT !.pc = "none", !.on = None].pc = "none"
               /\ [check[h] EXCEPT !.pc = "none", !.on = None] \in
                    [pc : {"none", "probing", "probeFailed", "recovering"},
                     on : Loops \cup {None}, fresh : BOOLEAN]
    BY <1>1 DEF ChecksTyped
  <2>3. check' \in ChecksTyped
    BY <1>1, <2>1, <2>2 DEF ChecksTyped
  <2>4. QED BY <2>1, <2>2, <2>3
<1>4. /\ reconnectPromise' = IF reconnectPromise = l THEN None ELSE reconnectPromise
      /\ reconnectTimer' = reconnectTimer
      /\ healthPromise' = IF /\ healthPromise # None
                             /\ check[healthPromise].pc = "recovering"
                             /\ check[healthPromise].on = l
                          THEN None ELSE healthPromise
  BY DEF LoopEnds
<1>5. LoopsWait'
  BY <1>1, <1>2 DEF IInv, LoopsWait, AttemptsTyped
<1>6. OneLoop'
  BY <1>1, <1>2, <1>4, ClientAssumption DEF IInv, OneLoop, ReconnectIsSingleFlight
<1>7. OneCheck'
  <2>1. \A h \in Checks : check'[h].pc # "none" /\ check'[h].fresh => healthPromise' = h
    BY <1>1, <1>3, <1>4 DEF IInv, OneCheck
  <2>2. ASSUME healthPromise' # None
        PROVE  /\ healthPromise' = healthPromise /\ healthPromise \in Checks
               /\ check'[healthPromise] = check[healthPromise]
    BY <1>1, <1>3, <1>4, <2>2
  <2>3. ASSUME healthPromise' # None, check[healthPromise].pc = "recovering"
        PROVE  check[healthPromise].on = reconnectPromise /\ reconnectPromise # l
    BY <1>4, <2>2, <2>3 DEF IInv, OneCheck
  <2>4. QED BY <1>4, <2>1, <2>2, <2>3 DEF IInv, OneCheck
<1>8. reconnectPromise # l => healthPromise' = healthPromise
  BY <1>4 DEF IInv, OneCheck
<1>9. QED BY <1>1, <1>2, <1>3, <1>4, <1>5, <1>6, <1>7, <1>8

-----------------------------------------------------------------------------
(* The invariant                                                           *)

\* A new client has no activity and no websocket.
LEMMA InitInv == Init => IInv
<1> SUFFICES ASSUME Init PROVE IInv
  OBVIOUS
<1>1. ClientTypeOK
  BY ClientAssumption DEF Init, ClientTypeOK
<1>2. OneSocket /\ DisconnectHolds /\ ProbeHasSocket
  BY ClientAssumption DEF Init, OneSocket, NoOrphanSocket, DisconnectHolds, ProbeHasSocket
<1>3. LoopsWait /\ OneLoop /\ OneCheck
  BY ClientAssumption DEF Init, LoopsWait, OneLoop, ReconnectIsSingleFlight, OneCheck
<1>4. OpenedIsWatched /\ Watched
  BY DEF Init, OpenedIsWatched, Watched, OpenSocketIsWatched, SocketIsOpen
<1>5. QED BY <1>1, <1>2, <1>3, <1>4 DEF IInv

\* Without a websocket, nothing is asked of what watches it.
LEMMA NothingToWatch ==
  ASSUME ~SocketIsOpen'
  PROVE  OpenedIsWatched' /\ Watched'
BY DEF OpenedIsWatched, Watched, OpenSocketIsWatched

\* connect and disconnect leave no activity wanted but the attempt of connect.
LEMMA connectInv ==
  ASSUME IInv, NEW a \in Attempts, connect(a)
  PROVE  IInv'
<1>1. attempt \in AttemptsTyped /\ loop \in LoopsTyped /\ check \in ChecksTyped
  BY TypesAre DEF IInv
<1>2. opening \in Attempts \cup {None} /\ reconnectTimer \in Loops \cup {None}
  BY TypesAre DEF IInv
<1>3. /\ attempt' \in AttemptsTyped
      /\ attempt'[a] = [pc |-> "fetching", by |-> User, fresh |-> TRUE]
      /\ \A b \in Attempts \ {a} :
           /\ attempt'[b].by = attempt[b].by
           /\ attempt'[b].pc = IF opening = b THEN "failed" ELSE attempt[b].pc
  BY <1>1, <1>2, RejectedAttempts, BegunAttempts DEF connect
<1>4. /\ loop' \in LoopsTyped
      /\ \A l \in Loops :
           /\ ~loop'[l].fresh
           /\ loop'[l].pc = IF reconnectTimer = l THEN "woken" ELSE loop[l].pc
  <2>1. /\ Outdated(loop) \in LoopsTyped
        /\ \A l \in Loops : /\ Outdated(loop)[l].pc = loop[l].pc
                            /\ Outdated(loop)[l].fresh = FALSE
    BY <1>1, OutdatedLoops
  <2>2. loop' = TimerCleared(Outdated(loop))
    BY DEF connect
  <2>3. QED BY <1>2, <2>1, <2>2, ClearedTimer
<1>5. /\ check' \in ChecksTyped
      /\ \A h \in Checks : ~check'[h].fresh /\ check'[h].pc # "probing"
  <2>1. /\ Outdated(check) \in ChecksTyped
        /\ \A h \in Checks : Outdated(check)[h].fresh = FALSE
    BY <1>1, OutdatedChecks
  <2>2. check' = ProbesRejected(Outdated(check))
    BY DEF connect
  <2>3. QED BY <2>1, <2>2, RejectedProbes
<1>6. /\ sock' \in SocksTyped /\ (\A b \in Attempts : sock'[b] = "closed")
      /\ socket' = None /\ opening' = None /\ heartbeat' = FALSE
  BY ClosedSocket DEF connect, NoSocket, IInv, OneSocket
<1>7. /\ reconnectPromise' = None /\ reconnectTimer' = None /\ healthPromise' = None
      /\ explicit' = FALSE /\ used' = TRUE
  BY DEF connect
<1>8. ClientTypeOK'
  BY <1>3, <1>4, <1>5, <1>6, <1>7, TypesAreNew
<1>9. OneSocket'
  BY <1>3, <1>6, ClientAssumption DEF IInv, OneSocket, NoOrphanSocket
<1>10. LoopsWait'
  <2>1. ASSUME NEW b \in Attempts, attempt'[b].by # User
        PROVE  /\ attempt'[b].by = attempt[b].by /\ attempt'[b].pc # "none"
               /\ attempt[b].by \in Loops /\ loop[attempt[b].by].pc = "connecting"
    BY <1>1, <1>3, <2>1 DEF IInv, LoopsWait, AttemptsTyped
  <2>2. \A l \in Loops : loop[l].pc = "connecting" => loop'[l].pc = "connecting"
    BY <1>4 DEF IInv, OneLoop
  <2>3. QED BY <2>1, <2>2 DEF IInv, LoopsWait
<1>11. OneLoop'
  BY <1>4, <1>7, ClientAssumption DEF IInv, OneLoop, ReconnectIsSingleFlight
<1>12. OneCheck' /\ DisconnectHolds' /\ ProbeHasSocket'
  BY <1>5, <1>7 DEF OneCheck, DisconnectHolds, ProbeHasSocket
<1>13. OpenedIsWatched' /\ Watched'
  BY <1>6, NoneOpen, NothingToWatch
<1>14. QED BY <1>8, <1>9, <1>10, <1>11, <1>12, <1>13 DEF IInv

\* So does disconnect, which leaves no attempt wanted either.
LEMMA disconnectInv ==
  ASSUME IInv, disconnect
  PROVE  IInv'
<1>1. attempt \in AttemptsTyped /\ loop \in LoopsTyped /\ check \in ChecksTyped
  BY TypesAre DEF IInv
<1>2. /\ opening \in Attempts \cup {None} /\ reconnectTimer \in Loops \cup {None}
      /\ reconnectPromise \in Loops \cup {None} /\ used \in BOOLEAN
  BY TypesAre DEF IInv
<1>3. /\ attempt' \in AttemptsTyped
      /\ \A b \in Attempts :
           /\ attempt'[b].by = attempt[b].by
           /\ attempt'[b].pc = IF opening = b THEN "failed" ELSE attempt[b].pc
  <2>1. /\ Outdated(attempt) \in AttemptsTyped
        /\ \A b \in Attempts : /\ Outdated(attempt)[b].by = attempt[b].by
                               /\ Outdated(attempt)[b].pc = attempt[b].pc
    BY <1>1, OutdatedAttempts
  <2>2. attempt' = OpeningRejected(Outdated(attempt))
    BY DEF disconnect
  <2>3. QED BY <1>2, <2>1, <2>2, RejectedAttempts
<1>4. /\ loop' \in LoopsTyped
      /\ \A l \in Loops : loop'[l].pc = IF reconnectTimer = l THEN "woken" ELSE loop[l].pc
  <2>1. /\ Outdated(loop) \in LoopsTyped
        /\ \A l \in Loops : /\ Outdated(loop)[l].pc = loop[l].pc
                            /\ Outdated(loop)[l].fresh = FALSE
    BY <1>1, OutdatedLoops
  <2>2. loop' = TimerCleared(Outdated(loop))
    BY DEF disconnect
  <2>3. QED BY <1>2, <2>1, <2>2, ClearedTimer
<1>5. /\ check' \in ChecksTyped
      /\ \A h \in Checks : ~check'[h].fresh /\ check'[h].pc # "probing"
  <2>1. /\ Outdated(check) \in ChecksTyped
        /\ \A h \in Checks : Outdated(check)[h].fresh = FALSE
    BY <1>1, OutdatedChecks
  <2>2. check' = ProbesRejected(Outdated(check))
    BY DEF disconnect
  <2>3. QED BY <2>1, <2>2, RejectedProbes
<1>6. /\ sock' \in SocksTyped /\ (\A b \in Attempts : sock'[b] = "closed")
      /\ socket' = None /\ opening' = None /\ heartbeat' = FALSE
  BY ClosedSocket DEF disconnect, NoSocket, IInv, OneSocket
<1>7. /\ reconnectPromise' = reconnectPromise /\ reconnectTimer' = None
      /\ healthPromise' = None /\ explicit' = TRUE /\ used' = used
  BY DEF disconnect
<1>8. ClientTypeOK'
  BY <1>2, <1>3, <1>4, <1>5, <1>6, <1>7, TypesAreNew
<1>9. OneSocket'
  BY <1>3, <1>6, ClientAssumption DEF IInv, OneSocket, NoOrphanSocket
<1>10. LoopsWait'
  <2>1. \A b \in Attempts : attempt[b].by # User => attempt[b].by \in Loops
    BY <1>1 DEF AttemptsTyped
  <2>2. \A l \in Loops : loop[l].pc = "connecting" => loop'[l].pc = "connecting"
    BY <1>4 DEF IInv, OneLoop
  <2>3. QED BY <1>3, <2>1, <2>2 DEF IInv, LoopsWait
<1>11. OneLoop'
  BY <1>2, <1>4, <1>7, ClientAssumption DEF IInv, OneLoop, ReconnectIsSingleFlight
<1>12. OneCheck' /\ DisconnectHolds' /\ ProbeHasSocket'
  BY <1>5, <1>6, <1>7 DEF OneCheck, DisconnectHolds, ProbeHasSocket
<1>13. OpenedIsWatched' /\ Watched'
  BY <1>6, NoneOpen, NothingToWatch
<1>14. QED BY <1>8, <1>9, <1>10, <1>11, <1>12, <1>13 DEF IInv

-----------------------------------------------------------------------------
(* connectInternal and its websocket                                       *)

\* A step that only moves an attempt, which still has no websocket, or ends it
\* with one, leaves the loops and the checks alone.
LEMMA OnlyAttempts ==
  ASSUME IInv, attempt' \in AttemptsTyped, \A a \in Attempts : attempt'[a].by = attempt[a].by,
         \A a \in Attempts : attempt[a].pc # "none" => attempt'[a].pc # "none",
         UNCHANGED <<loopVars, check, healthPromise, explicit, used>>
  PROVE  LoopsWait' /\ OneLoop' /\ OneCheck'
BY DEF IInv, LoopsWait, OneLoop, ReconnectIsSingleFlight, OneCheck, loopVars

\* A POST that fails ends its attempt, which had no websocket.
LEMMA FetchFailsInv ==
  ASSUME IInv, NEW a \in Attempts, FetchFails(a)
  PROVE  IInv'
<1>1. attempt \in AttemptsTyped /\ attempt[a].pc = "fetching"
  BY TypesAre DEF IInv, FetchFails
<1>2. /\ attempt' \in AttemptsTyped
      /\ \A b \in Attempts : /\ attempt'[b].by = attempt[b].by
                             /\ attempt'[b].pc = IF b = a THEN "failed" ELSE attempt[b].pc
  BY <1>1 DEF FetchFails, AttemptsTyped
<1>3. UNCHANGED <<socketVars, loopVars, check, healthPromise, explicit, used>>
  BY DEF FetchFails
<1>4. ClientTypeOK'
  BY <1>2, <1>3, TypesAre, TypesAreNew DEF IInv, socketVars, loopVars
<1>5. OneSocket'
  BY <1>1, <1>2, <1>3 DEF IInv, OneSocket, NoOrphanSocket, socketVars
<1>6. LoopsWait' /\ OneLoop' /\ OneCheck'
  BY <1>1, <1>2, <1>3, OnlyAttempts
<1>7. SocketIsOpen' = SocketIsOpen
  BY <1>3 DEF SocketIsOpen, socketVars
<1>8. DisconnectHolds' /\ ProbeHasSocket'
  BY <1>3, <1>7 DEF IInv, DisconnectHolds, ProbeHasSocket, socketVars
<1>9. OpenedIsWatched' /\ Watched'
  BY <1>2, <1>3, <1>7
     DEF IInv, OpenedIsWatched, Watched, OpenSocketIsWatched, socketVars, loopVars
<1>10. QED BY <1>4, <1>5, <1>6, <1>8, <1>9 DEF IInv

\* A POST that is answered closes the websocket there was, then makes its own; an
\* outdated attempt makes none.
LEMMA FetchOkInv ==
  ASSUME IInv, NEW a \in Attempts, FetchOk(a)
  PROVE  IInv'
<1>1. /\ attempt \in AttemptsTyped /\ attempt[a].pc = "fetching" /\ check \in ChecksTyped
      /\ opening \in Attempts \cup {None}
      /\ UNCHANGED <<loopVars, healthPromise, explicit, used>>
  BY TypesAre DEF IInv, FetchOk
<1>2. CASE StillWanted(a)
  <2>1. /\ attempt' \in AttemptsTyped
        /\ \A b \in Attempts : /\ attempt'[b].by = attempt[b].by
                               /\ attempt'[b].pc = IF b = a THEN "opening"
                                                   ELSE IF opening = b THEN "failed"
                                                   ELSE attempt[b].pc
    <3>1. attempt' = [OpeningRejected(attempt) EXCEPT ![a].pc = "opening"]
      BY <1>2 DEF FetchOk
    <3>2. QED BY <1>1, <3>1, RejectedAttempts DEF AttemptsTyped
  <2>2. /\ check' \in ChecksTyped
        /\ \A h \in Checks : /\ check'[h].on = check[h].on /\ check'[h].fresh = check[h].fresh
                             /\ check'[h].pc # "probing"
                             /\ check'[h].pc = "none" <=> check[h].pc = "none"
                             /\ check'[h].pc = "recovering" <=> check[h].pc = "recovering"
    BY <1>1, <1>2, RejectedProbes DEF FetchOk
  <2>3. /\ sock' \in SocksTyped /\ sock'[a] = "connecting"
        /\ \A b \in Attempts \ {a} : sock'[b] = "closed"
    BY <1>2, ClosedSocket DEF FetchOk, IInv, OneSocket, SocksTyped
  <2>4. socket' = a /\ opening' = a /\ heartbeat' = FALSE /\ ~explicit
    BY <1>2 DEF FetchOk, StillWanted
  <2>5. ClientTypeOK'
    BY <1>1, <2>1, <2>2, <2>3, <2>4, TypesAre, TypesAreNew DEF IInv, loopVars
  <2>6. OneSocket'
    BY <1>1, <2>1, <2>3, <2>4 DEF IInv, OneSocket, NoOrphanSocket
  <2>7. LoopsWait' /\ OneLoop'
    BY <1>1, <2>1 DEF IInv, LoopsWait, OneLoop, ReconnectIsSingleFlight, loopVars
  <2>8. OneCheck'
    BY <1>1, <2>2, TypesAre, ClientAssumption DEF IInv, OneCheck, loopVars
  <2>9. DisconnectHolds' /\ ProbeHasSocket'
    BY <1>1, <2>2, <2>4 DEF DisconnectHolds, ProbeHasSocket
  <2>10. ~SocketIsOpen'
    BY <2>3, <2>4 DEF SocketIsOpen
  <2>11. QED BY <2>5, <2>6, <2>7, <2>8, <2>9, <2>10, NothingToWatch DEF IInv
<1>3. CASE ~StillWanted(a)
  BY <1>1, <1>3, FetchFailsInv DEF FetchOk, FetchFails
<1>4. QED BY <1>2, <1>3

\* The websocket of the attempt opens and is watched from then on.
LEMMA SocketOpensInv ==
  ASSUME IInv, NEW a \in Attempts, SocketOpens(a)
  PROVE  IInv'
<1>1. /\ attempt \in AttemptsTyped /\ sock \in SocksTyped /\ socket = a
      /\ sock[a] = "connecting" /\ opening = a /\ attempt[a].pc = "opening"
      /\ opening' = None /\ heartbeat' = TRUE
      /\ UNCHANGED <<socket, loopVars, check, healthPromise, explicit, used>>
  BY TypesAre DEF IInv, OneSocket, SocketOpens
<1>2. /\ attempt' \in AttemptsTyped
      /\ \A b \in Attempts : /\ attempt'[b].by = attempt[b].by
                             /\ attempt'[b].pc = IF b = a THEN "opened" ELSE attempt[b].pc
  BY <1>1 DEF SocketOpens, AttemptsTyped
<1>3. sock' \in SocksTyped /\ \A b \in Attempts : sock'[b] = IF b = a THEN "open" ELSE sock[b]
  BY <1>1 DEF SocketOpens, SocksTyped
<1>4. ClientTypeOK'
  BY <1>1, <1>2, <1>3, TypesAre, TypesAreNew DEF IInv, loopVars
<1>5. OneSocket'
  BY <1>1, <1>2, <1>3, ClientAssumption DEF IInv, OneSocket, NoOrphanSocket
<1>6. LoopsWait' /\ OneLoop' /\ OneCheck'
  BY <1>1, <1>2, OnlyAttempts
<1>7. DisconnectHolds' /\ ProbeHasSocket'
  BY <1>1, <1>3 DEF IInv, DisconnectHolds, ProbeHasSocket, SocketIsOpen
<1>8. OpenedIsWatched' /\ Watched'
  BY <1>1 DEF OpenedIsWatched, Watched, OpenSocketIsWatched
<1>9. QED BY <1>4, <1>5, <1>6, <1>7, <1>8 DEF IInv

\* A websocket that does not open is closed and forgotten.
LEMMA SocketFailsToOpenInv ==
  ASSUME IInv, NEW a \in Attempts, SocketFailsToOpen(a)
  PROVE  IInv'
<1>1. /\ attempt \in AttemptsTyped /\ sock \in SocksTyped /\ socket = a
      /\ sock[a] = "connecting" /\ opening = a /\ attempt[a].pc = "opening"
      /\ socket' = None /\ opening' = None
      /\ UNCHANGED <<heartbeat, loopVars, check, healthPromise, explicit, used>>
  BY TypesAre DEF IInv, OneSocket, SocketFailsToOpen
<1>2. /\ attempt' \in AttemptsTyped
      /\ \A b \in Attempts : /\ attempt'[b].by = attempt[b].by
                             /\ attempt'[b].pc = IF b = a THEN "failed" ELSE attempt[b].pc
  BY <1>1 DEF SocketFailsToOpen, AttemptsTyped
<1>3. sock' \in SocksTyped /\ \A b \in Attempts : sock'[b] = IF b = a THEN "closed" ELSE sock[b]
  BY <1>1 DEF SocketFailsToOpen, SocksTyped
<1>4. ClientTypeOK'
  BY <1>1, <1>2, <1>3, TypesAre, TypesAreNew DEF IInv, loopVars
<1>5. OneSocket'
  BY <1>1, <1>2, <1>3, ClientAssumption DEF IInv, OneSocket, NoOrphanSocket
<1>6. LoopsWait' /\ OneLoop' /\ OneCheck'
  BY <1>1, <1>2, OnlyAttempts
<1>7. DisconnectHolds' /\ ProbeHasSocket'
  BY <1>1 DEF IInv, DisconnectHolds, ProbeHasSocket, SocketIsOpen
<1>8. OpenedIsWatched' /\ Watched'
  BY <1>1, NoneOpen, NothingToWatch
<1>9. QED BY <1>4, <1>5, <1>6, <1>7, <1>8 DEF IInv

\* Nothing looks different to the client.
LEMMA GoesHalfOpenInv ==
  ASSUME IInv, NEW a \in Attempts, GoesHalfOpen(a)
  PROVE  IInv'
<1>1. /\ sock \in SocksTyped /\ sock[a] = "open"
      /\ UNCHANGED <<attempt, socket, opening, heartbeat, loopVars, check, healthPromise,
                     explicit, used>>
  BY TypesAre DEF IInv, GoesHalfOpen
<1>2. sock' \in SocksTyped /\ \A b \in Attempts : sock'[b] = IF b = a THEN "halfOpen" ELSE sock[b]
  BY <1>1 DEF GoesHalfOpen, SocksTyped
<1>3. ClientTypeOK'
  BY <1>1, <1>2, TypesAre, TypesAreNew DEF IInv, loopVars
<1>4. OneSocket'
  BY <1>1, <1>2 DEF IInv, OneSocket, NoOrphanSocket
<1>5. LoopsWait' /\ OneLoop' /\ OneCheck'
  BY <1>1, OnlyAttempts, TypesAre DEF IInv
<1>6. SocketIsOpen' = SocketIsOpen
  BY <1>1, <1>2 DEF SocketIsOpen
<1>7. DisconnectHolds' /\ ProbeHasSocket' /\ OpenedIsWatched' /\ Watched'
  BY <1>1, <1>6 DEF IInv, DisconnectHolds, ProbeHasSocket, OpenedIsWatched, Watched,
                    OpenSocketIsWatched, loopVars
<1>8. QED BY <1>3, <1>4, <1>5, <1>7 DEF IInv

\* An event postpones the heartbeat and nothing else.
LEMMA InboundInv ==
  ASSUME IInv, NEW a \in Attempts, Inbound(a)
  PROVE  IInv'
<1>1. /\ UNCHANGED <<attempt, sock, socket, opening, loopVars, check, healthPromise,
                     explicit, used>>
      /\ heartbeat' = TRUE
  BY DEF Inbound
<1>2. ClientTypeOK' /\ OneSocket'
  BY <1>1, TypesAre, TypesAreNew DEF IInv, OneSocket, NoOrphanSocket, loopVars
<1>3. LoopsWait' /\ OneLoop' /\ OneCheck'
  BY <1>1, OnlyAttempts, TypesAre DEF IInv
<1>4. DisconnectHolds' /\ ProbeHasSocket' /\ OpenedIsWatched' /\ Watched'
  BY <1>1 DEF IInv, DisconnectHolds, ProbeHasSocket, SocketIsOpen, OpenedIsWatched, Watched,
              OpenSocketIsWatched
<1>5. QED BY <1>2, <1>3, <1>4 DEF IInv

\* The close event: probes fail, and one loop reconnects.
LEMMA SocketClosesInv ==
  ASSUME IInv, NEW a \in Attempts, SocketCloses(a)
  PROVE  IInv'
<1>1. /\ check \in ChecksTyped /\ attempt \in AttemptsTyped /\ healthPromise \in Checks \cup {None}
      /\ socket = a /\ sock[a] \in {"open", "halfOpen"}
      /\ UNCHANGED <<attempt, healthPromise, explicit, used>>
  BY TypesAre DEF IInv, SocketCloses
<1>2. /\ sock' \in SocksTyped /\ (\A b \in Attempts : sock'[b] = "closed")
      /\ socket' = None /\ opening' = None /\ heartbeat' = FALSE
  BY ClosedSocket DEF SocketCloses, NoSocket, IInv, OneSocket
<1>3. PICK r \in Loops \cup {None} : Reconnect(loop, r)
  BY DEF SocketCloses
<1>4. /\ loop' \in LoopsTyped /\ reconnectTimer' \in Loops \cup {None}
      /\ LoopsWait' /\ OneLoop' /\ reconnectPromise' = r
      /\ reconnectPromise # None => r = reconnectPromise
  BY <1>1, <1>3, ReconnectKeeps
<1>5. /\ check' \in ChecksTyped
      /\ \A h \in Checks : /\ check'[h].on = check[h].on /\ check'[h].fresh = check[h].fresh
                           /\ check'[h].pc # "probing"
                           /\ check'[h].pc = "none" <=> check[h].pc = "none"
                           /\ check'[h].pc = "recovering" <=> check[h].pc = "recovering"
  BY <1>1, RejectedProbes DEF SocketCloses
<1>6. ClientTypeOK'
  BY <1>1, <1>2, <1>4, <1>5, TypesAre, TypesAreNew DEF IInv
<1>7. OneSocket'
  BY <1>1, <1>2, ClientAssumption DEF IInv, OneSocket, NoOrphanSocket
<1>8. OneCheck'
  BY <1>1, <1>4, <1>5 DEF IInv, OneCheck
<1>9. DisconnectHolds' /\ ProbeHasSocket'
  BY <1>2, <1>5 DEF DisconnectHolds, ProbeHasSocket
<1>10. OpenedIsWatched' /\ Watched'
  BY <1>2, NoneOpen, NothingToWatch
<1>11. QED BY <1>4, <1>6, <1>7, <1>8, <1>9, <1>10 DEF IInv

-----------------------------------------------------------------------------
(* The reconnect loop                                                      *)

\* What neither the attempts nor the websocket notice.
LEMMA SocketUntouched ==
  ASSUME IInv, UNCHANGED <<attempt, sock, socket, opening, explicit>>,
         \A h \in Checks : check'[h].pc = "probing" => check[h].pc = "probing"
  PROVE  OneSocket' /\ DisconnectHolds' /\ ProbeHasSocket' /\ SocketIsOpen' = SocketIsOpen
<1>1. SocketIsOpen' = SocketIsOpen
  BY DEF SocketIsOpen
<1>2. OneSocket' /\ DisconnectHolds'
  BY DEF IInv, OneSocket, NoOrphanSocket, DisconnectHolds
<1>3. ProbeHasSocket'
  BY <1>1 DEF IInv, ProbeHasSocket
<1>4. QED BY <1>1, <1>2, <1>3

\* The loop whose delay is over is woken and no longer has the timer.
LEMMA DelayOverInv ==
  ASSUME IInv, NEW l \in Loops, DelayOver(l)
  PROVE  IInv'
<1>1. /\ loop \in LoopsTyped /\ loop[l].pc = "delaying" /\ reconnectTimer' = None
      /\ reconnectTimer = l
      /\ UNCHANGED <<attempt, socketVars, reconnectPromise, check, healthPromise, explicit, used>>
  BY TypesAre DEF IInv, OneLoop, DelayOver
<1>2. /\ loop' \in LoopsTyped
      /\ \A k \in Loops : /\ loop'[k].fresh = loop[k].fresh
                          /\ loop'[k].pc = IF k = l THEN "woken" ELSE loop[k].pc
  BY <1>1 DEF DelayOver, LoopsTyped
<1>3. ClientTypeOK'
  BY <1>1, <1>2, TypesAre, TypesAreNew DEF IInv, socketVars
<1>4. LoopsWait'
  <2>1. \A a \in Attempts : attempt[a].by # User => attempt[a].by \in Loops
    BY TypesAre DEF IInv, AttemptsTyped
  <2>2. QED BY <1>1, <1>2, <2>1 DEF IInv, LoopsWait
<1>5. OneLoop'
  <2>1. reconnectPromise \in Loops \cup {None}
    BY TypesAre DEF IInv
  <2>2. QED BY <1>1, <1>2, <2>1, ClientAssumption DEF IInv, OneLoop, ReconnectIsSingleFlight
<1>6. OneSocket' /\ DisconnectHolds' /\ ProbeHasSocket' /\ SocketIsOpen' = SocketIsOpen
  BY <1>1, SocketUntouched DEF socketVars
<1>7. OneCheck' /\ OpenedIsWatched' /\ Watched'
  BY <1>1, <1>6 DEF IInv, OneCheck, OpenedIsWatched, Watched, OpenSocketIsWatched, socketVars
<1>8. QED BY <1>3, <1>4, <1>5, <1>6, <1>7 DEF IInv

\* A loop that is still wanted connects; its attempt outdates the others.
LEMMA LoopWakesInv ==
  ASSUME IInv, NEW l \in Loops, NEW a \in Attempts, LoopWakes(l, a)
  PROVE  IInv'
<1>1. /\ loop \in LoopsTyped /\ attempt \in AttemptsTyped
      /\ loop[l].pc = "woken" /\ loop[l].fresh /\ ~explicit
      /\ attempt[a].pc = "none" /\ sock[a] = "closed"
      /\ UNCHANGED <<socketVars, reconnectPromise, reconnectTimer, check, healthPromise>>
      /\ explicit' = FALSE /\ used' = TRUE
  BY TypesAre DEF IInv, LoopWakes, LoopIsWanted, Free
<1>2. /\ loop' \in LoopsTyped
      /\ \A k \in Loops : /\ loop'[k].fresh = loop[k].fresh
                          /\ loop'[k].pc = IF k = l THEN "connecting" ELSE loop[k].pc
  BY <1>1 DEF LoopWakes, LoopsTyped
<1>3. /\ attempt' \in AttemptsTyped
      /\ attempt'[a] = [pc |-> "fetching", by |-> l, fresh |-> TRUE]
      /\ \A b \in Attempts \ {a} : /\ attempt'[b].by = attempt[b].by
                                   /\ attempt'[b].pc = attempt[b].pc
  BY <1>1, BegunAttempts DEF LoopWakes
<1>4. ClientTypeOK'
  BY <1>1, <1>2, <1>3, TypesAre, TypesAreNew DEF IInv, socketVars
<1>5. OneSocket'
  BY <1>1, <1>3 DEF IInv, OneSocket, NoOrphanSocket, socketVars
<1>6. LoopsWait'
  <2>1. \A b \in Attempts : attempt[b].by # User =>
          attempt[b].by \in Loops /\ attempt[b].pc # "none" /\ attempt[b].by # l
    BY <1>1 DEF IInv, LoopsWait, AttemptsTyped
  <2>2. QED BY <1>2, <1>3, <2>1 DEF IInv, LoopsWait
<1>7. OneLoop'
  <2>1. reconnectPromise \in Loops \cup {None} /\ reconnectTimer # l
    BY <1>1, TypesAre DEF IInv, OneLoop
  <2>2. QED BY <1>1, <1>2, <2>1, ClientAssumption DEF IInv, OneLoop, ReconnectIsSingleFlight
<1>8. OneCheck' /\ DisconnectHolds'
  BY <1>1 DEF IInv, OneCheck, DisconnectHolds
<1>9. SocketIsOpen' = SocketIsOpen
  BY <1>1 DEF SocketIsOpen, socketVars
<1>10. ProbeHasSocket' /\ OpenedIsWatched' /\ Watched'
  BY <1>1, <1>3, <1>9
     DEF IInv, ProbeHasSocket, OpenedIsWatched, Watched, OpenSocketIsWatched, socketVars
<1>11. QED BY <1>4, <1>5, <1>6, <1>7, <1>8, <1>10 DEF IInv

\* A woken loop that is not wanted any more ends.
LEMMA LoopGivesUpInv ==
  ASSUME IInv, NEW l \in Loops, LoopGivesUp(l)
  PROVE  IInv'
<1>1. /\ LoopEnds(l) /\ loop[l].pc = "woken" /\ ~(loop[l].fresh /\ ~explicit)
      /\ UNCHANGED <<attempt, socketVars, explicit, used>>
  BY DEF LoopGivesUp, LoopIsWanted
<1>2. \A a \in Attempts : attempt'[a].by = User
                          \/ (attempt'[a].by # l /\ attempt'[a] = attempt[a])
  BY <1>1 DEF IInv, LoopsWait
<1>3. /\ loop' \in LoopsTyped /\ check' \in ChecksTyped
      /\ reconnectPromise' \in Loops \cup {None} /\ reconnectTimer' \in Loops \cup {None}
      /\ healthPromise' \in Checks \cup {None}
      /\ LoopsWait' /\ OneLoop' /\ OneCheck'
      /\ \A h \in Checks : check'[h].pc = "probing" => check[h].pc = "probing"
      /\ reconnectPromise # l =>
           reconnectPromise' = reconnectPromise /\ healthPromise' = healthPromise
  BY <1>1, <1>2, LoopEndsKeeps
<1>4. ClientTypeOK'
  BY <1>1, <1>3, TypesAre, TypesAreNew DEF IInv, socketVars
<1>5. OneSocket' /\ DisconnectHolds' /\ ProbeHasSocket' /\ SocketIsOpen' = SocketIsOpen
  BY <1>1, <1>3, SocketUntouched DEF socketVars
<1>6. OpenedIsWatched'
  BY <1>1, <1>5 DEF IInv, OpenedIsWatched, socketVars
<1>7. Watched'
  <2>1. SocketIsOpen => ~explicit
    BY ClientAssumption DEF IInv, DisconnectHolds, SocketIsOpen
  <2>2. SocketIsOpen => reconnectPromise # l
    BY <1>1, <2>1, ClientAssumption DEF IInv, OneLoop
  <2>3. QED BY <1>1, <1>3, <1>5, <2>2 DEF IInv, Watched, OpenSocketIsWatched, socketVars
<1>8. QED BY <1>3, <1>4, <1>5, <1>6, <1>7 DEF IInv

\* The end of an attempt: its loop ends or tries again.
LEMMA AttemptEndsInv ==
  ASSUME IInv, NEW a \in Attempts, AttemptEnds(a)
  PROVE  IInv'
<1> DEFINE l == attempt[a].by
<1>1. /\ attempt \in AttemptsTyped /\ loop \in LoopsTyped /\ l \in Loops \cup {User}
      /\ attempt[a].pc \in {"opened", "failed"}
      /\ UNCHANGED <<socketVars, explicit, used>>
  BY TypesAre DEF IInv, AttemptEnds, AttemptsTyped
<1>2. /\ attempt' \in AttemptsTyped /\ attempt'[a].by = User /\ attempt'[a].pc = "none"
      /\ \A b \in Attempts \ {a} : attempt'[b] = attempt[b]
  BY <1>1 DEF AttemptEnds, AttemptsTyped
<1>3. l # User => /\ l \in Loops /\ loop[l].pc = "connecting"
                  /\ \A b \in Attempts \ {a} : attempt[b].by # l
  BY <1>1 DEF IInv, LoopsWait
<1>4. OneSocket'
  BY <1>1, <1>2 DEF IInv, OneSocket, NoOrphanSocket, socketVars
<1>5. DisconnectHolds' /\ SocketIsOpen' = SocketIsOpen
  BY <1>1 DEF IInv, DisconnectHolds, SocketIsOpen, socketVars
<1>6. OpenedIsWatched'
  BY <1>1, <1>2, <1>5 DEF IInv, OpenedIsWatched, socketVars
<1>7. CASE l = User /\ UNCHANGED <<loopVars, check, healthPromise>>
  <2>1. ClientTypeOK'
    BY <1>1, <1>2, <1>7, TypesAre, TypesAreNew DEF IInv, socketVars, loopVars
  <2>2. LoopsWait' /\ OneLoop' /\ OneCheck'
    BY <1>1, <1>2, <1>7 DEF IInv, LoopsWait, OneLoop, ReconnectIsSingleFlight, OneCheck, loopVars
  <2>3. ProbeHasSocket' /\ Watched'
    BY <1>1, <1>5, <1>7
       DEF IInv, ProbeHasSocket, Watched, OpenSocketIsWatched, socketVars, loopVars
  <2>4. QED BY <1>4, <1>5, <1>6, <2>1, <2>2, <2>3 DEF IInv
<1>8. CASE l # User /\ ~TriesAgain(a) /\ LoopEnds(l)
  <2>1. /\ loop' \in LoopsTyped /\ check' \in ChecksTyped
        /\ reconnectPromise' \in Loops \cup {None} /\ reconnectTimer' \in Loops \cup {None}
        /\ healthPromise' \in Checks \cup {None}
        /\ LoopsWait' /\ OneLoop' /\ OneCheck'
        /\ \A h \in Checks : check'[h].pc = "probing" => check[h].pc = "probing"
        /\ reconnectPromise # l =>
             reconnectPromise' = reconnectPromise /\ healthPromise' = healthPromise
    <3>1. \A b \in Attempts : attempt'[b].by = User
                              \/ (attempt'[b].by # l /\ attempt'[b] = attempt[b])
      BY <1>2, <1>3, <1>8
    <3>2. QED BY <1>1, <1>3, <1>8, <3>1, LoopEndsKeeps
  <2>2. ClientTypeOK'
    BY <1>1, <1>2, <2>1, TypesAre, TypesAreNew DEF IInv, socketVars
  <2>3. ProbeHasSocket'
    BY <1>5, <2>1 DEF IInv, ProbeHasSocket
  <2>4. Watched'
    <3>1. SocketIsOpen => ~explicit
      BY ClientAssumption DEF IInv, DisconnectHolds, SocketIsOpen
    <3>2. SocketIsOpen /\ reconnectPromise = l => attempt[a].pc = "opened"
      BY <1>1, <1>3, <1>8, <3>1, ClientAssumption DEF IInv, OneLoop, TriesAgain, LoopIsWanted
    <3>3. SocketIsOpen /\ reconnectPromise = l => heartbeat
      BY <3>2 DEF IInv, OpenedIsWatched
    <3>4. QED BY <1>1, <1>5, <2>1, <3>3 DEF IInv, Watched, OpenSocketIsWatched, socketVars
  <2>5. QED BY <1>4, <1>5, <1>6, <2>1, <2>2, <2>3, <2>4 DEF IInv
<1>9. CASE /\ l # User /\ TriesAgain(a)
           /\ loop' = [loop EXCEPT ![l].pc = "delaying"]
           /\ reconnectTimer' = l
           /\ UNCHANGED <<reconnectPromise, check, healthPromise>>
  <2>1. /\ loop' \in LoopsTyped
        /\ \A k \in Loops : /\ loop'[k].fresh = loop[k].fresh
                            /\ loop'[k].pc = IF k = l THEN "delaying" ELSE loop[k].pc
    BY <1>1, <1>3, <1>9 DEF LoopsTyped
  <2>2. loop[l].fresh /\ ~explicit /\ reconnectPromise = l
    BY <1>3, <1>9 DEF TriesAgain, LoopIsWanted, IInv, OneLoop, ReconnectIsSingleFlight
  <2>3. ClientTypeOK'
    BY <1>1, <1>2, <1>3, <1>9, <2>1, TypesAre, TypesAreNew DEF IInv, socketVars
  <2>4. LoopsWait'
    <3>1. \A b \in Attempts \ {a} : attempt[b].by # User =>
            attempt[b].by \in Loops /\ attempt[b].by # l
      BY <1>1, <1>3, <1>9 DEF AttemptsTyped
    <3>2. QED BY <1>2, <2>1, <3>1 DEF IInv, LoopsWait
  <2>5. OneLoop'
    <3>1. \A k \in Loops \ {l} : loop[k].pc # "delaying"
      BY <2>2 DEF IInv, OneLoop, ReconnectIsSingleFlight
    <3>2. QED BY <1>1, <1>3, <1>9, <2>1, <2>2, <3>1
             DEF IInv, OneLoop, ReconnectIsSingleFlight
  <2>6. OneCheck' /\ ProbeHasSocket' /\ Watched'
    BY <1>1, <1>5, <1>9
       DEF IInv, OneCheck, ProbeHasSocket, Watched, OpenSocketIsWatched, socketVars
  <2>7. QED BY <1>4, <1>5, <1>6, <2>3, <2>4, <2>5, <2>6 DEF IInv
<1>10. QED BY <1>7, <1>8, <1>9 DEF AttemptEnds

-----------------------------------------------------------------------------
(* The health check                                                        *)

\* ensureHealthy begins a check only if none is under way, with a probe only on
\* an open websocket.
LEMMA EnsureHealthyKeeps ==
  ASSUME IInv, healthPromise = None, NEW stale \in BOOLEAN, EnsureHealthy(stale),
         UNCHANGED <<attempt, sock, socket, opening, explicit, used>>, heartbeat' \in BOOLEAN
  PROVE  /\ ClientTypeOK'
         /\ OneSocket' /\ LoopsWait' /\ OneLoop' /\ OneCheck'
         /\ DisconnectHolds' /\ ProbeHasSocket' /\ SocketIsOpen' = SocketIsOpen
         /\ SocketIsOpen => /\ reconnectPromise' = reconnectPromise
                            /\ stale => healthPromise' # None
<1>1. /\ check \in ChecksTyped /\ loop \in LoopsTyped /\ attempt \in AttemptsTyped
      /\ \A h \in Checks : check[h].pc = "none" \/ ~check[h].fresh
  BY TypesAre, ClientAssumption DEF IInv, OneCheck
<1>2. SocketIsOpen' = SocketIsOpen
  BY DEF SocketIsOpen
<1>3. OneSocket' /\ DisconnectHolds'
  BY DEF IInv, OneSocket, NoOrphanSocket, DisconnectHolds
<1>4. CASE SocketIsOpen /\ ~stale /\ UNCHANGED <<loopVars, check, healthPromise>>
  <2>1. ClientTypeOK'
    BY <1>4, TypesAre, TypesAreNew DEF IInv, loopVars
  <2>2. LoopsWait' /\ OneLoop' /\ OneCheck'
    BY <1>4, OnlyAttempts, <1>1
  <2>3. QED BY <1>2, <1>3, <1>4, <2>1, <2>2 DEF IInv, ProbeHasSocket, loopVars
<1>5. CASE /\ SocketIsOpen /\ stale /\ UNCHANGED loopVars
           /\ \E h \in Checks :
                /\ check[h].pc = "none"
                /\ check' = [check EXCEPT ![h] = [pc |-> "probing", on |-> None, fresh |-> TRUE]]
                /\ healthPromise' = h
  <2>1. PICK h \in Checks :
          /\ check[h].pc = "none"
          /\ check' = [check EXCEPT ![h] = [pc |-> "probing", on |-> None, fresh |-> TRUE]]
          /\ healthPromise' = h
    BY <1>5
  <2>2. /\ check' \in ChecksTyped /\ check'[h] = [pc |-> "probing", on |-> None, fresh |-> TRUE]
        /\ \A g \in Checks \ {h} : check'[g] = check[g]
    BY <1>1, <2>1 DEF ChecksTyped
  <2>3. ClientTypeOK'
    BY <1>5, <2>1, <2>2, TypesAre, TypesAreNew DEF IInv, loopVars
  <2>4. LoopsWait' /\ OneLoop'
    BY <1>5 DEF IInv, LoopsWait, OneLoop, ReconnectIsSingleFlight, loopVars
  <2>5. OneCheck' /\ ProbeHasSocket'
    BY <1>1, <1>2, <1>5, <2>1, <2>2 DEF OneCheck, ProbeHasSocket
  <2>6. h # None
    BY ClientAssumption
  <2>7. QED BY <1>2, <1>3, <1>5, <2>1, <2>3, <2>4, <2>5, <2>6 DEF loopVars
<1>6. CASE /\ ~SocketIsOpen
           /\ \E r \in Loops \cup {None}, h \in Checks :
                /\ Reconnect(loop, r)
                /\ check[h].pc = "none"
                /\ IF r = None
                   THEN UNCHANGED <<check, healthPromise>>
                   ELSE /\ check' = [check EXCEPT ![h] =
                                       [pc |-> "recovering", on |-> r, fresh |-> TRUE]]
                        /\ healthPromise' = h
  <2>1. PICK r \in Loops \cup {None}, h \in Checks :
          /\ Reconnect(loop, r)
          /\ check[h].pc = "none"
          /\ IF r = None
             THEN UNCHANGED <<check, healthPromise>>
             ELSE /\ check' = [check EXCEPT ![h] =
                                 [pc |-> "recovering", on |-> r, fresh |-> TRUE]]
                  /\ healthPromise' = h
    BY <1>6
  <2>2. /\ loop' \in LoopsTyped /\ reconnectTimer' \in Loops \cup {None}
        /\ LoopsWait' /\ OneLoop' /\ reconnectPromise' = r
    BY <2>1, ReconnectKeeps
  <2>3. /\ check' \in ChecksTyped /\ healthPromise' \in Checks \cup {None}
        /\ \A g \in Checks : check'[g].pc = "probing" => check[g].pc = "probing"
    <3>1. CASE r = None
      <4>1. check' = check /\ healthPromise' = None
        BY <2>1, <3>1
      <4>2. QED BY <1>1, <4>1
    <3>2. CASE r # None
      <4>1. /\ check' = [check EXCEPT ![h] = [pc |-> "recovering", on |-> r, fresh |-> TRUE]]
            /\ healthPromise' = h
        BY <2>1, <3>2
      <4>2. QED BY <1>1, <4>1 DEF ChecksTyped
    <3>3. QED BY <3>1, <3>2
  <2>4. ClientTypeOK'
    BY <2>2, <2>3, TypesAre, TypesAreNew DEF IInv
  <2>5. OneCheck'
    <3>1. CASE r = None
      BY <1>1, <2>1, <3>1 DEF OneCheck
    <3>2. CASE r # None
      <4>1. /\ check'[h] = [pc |-> "recovering", on |-> r, fresh |-> TRUE] /\ healthPromise' = h
            /\ \A g \in Checks \ {h} : check'[g] = check[g]
        BY <1>1, <2>1, <3>2 DEF ChecksTyped
      <4>2. QED BY <1>1, <2>2, <3>2, <4>1 DEF OneCheck
    <3>3. QED BY <3>1, <3>2
  <2>6. ProbeHasSocket'
    BY <1>2, <2>3 DEF IInv, ProbeHasSocket
  <2>7. QED BY <1>2, <1>3, <1>6, <2>2, <2>4, <2>5, <2>6
<1>7. QED BY <1>4, <1>5, <1>6 DEF EnsureHealthy

\* The heartbeat begins a check, for its timer fires only when the last event is
\* as old as ensureHealthy asks for.
LEMMA HeartbeatDueInv ==
  ASSUME IInv, HeartbeatDue
  PROVE  IInv'
<1>1. Idle /\ heartbeat' = FALSE /\ UNCHANGED <<attempt, sock, socket, opening, explicit, used>>
  BY DEF HeartbeatDue
<1>2. OpenedIsWatched'
  BY <1>1 DEF OpenedIsWatched, Idle
<1>3. CASE healthPromise # None /\ UNCHANGED <<loopVars, check, healthPromise>>
  <2>1. ClientTypeOK'
    BY <1>1, <1>3, TypesAre, TypesAreNew DEF IInv, loopVars
  <2>2. LoopsWait' /\ OneLoop' /\ OneCheck'
    BY <1>1, <1>3, OnlyAttempts, TypesAre DEF IInv
  <2>3. OneSocket' /\ DisconnectHolds' /\ ProbeHasSocket'
    BY <1>1, <1>3, SocketUntouched
  <2>4. Watched'
    BY <1>3 DEF Watched, OpenSocketIsWatched
  <2>5. QED BY <1>2, <2>1, <2>2, <2>3, <2>4 DEF IInv
<1>4. CASE healthPromise = None /\ \E stale \in {TRUE, ~EarlyTimers} : EnsureHealthy(stale)
  <2>1. PICK stale \in {TRUE, ~EarlyTimers} : EnsureHealthy(stale)
    BY <1>4
  <2>2. stale \in BOOLEAN /\ (~EarlyTimers => stale)
    BY <2>1, ClientAssumption
  <2>3. /\ ClientTypeOK'
        /\ OneSocket' /\ LoopsWait' /\ OneLoop' /\ OneCheck'
        /\ DisconnectHolds' /\ ProbeHasSocket' /\ SocketIsOpen' = SocketIsOpen
        /\ SocketIsOpen => (stale => healthPromise' # None)
    BY <1>1, <1>4, <2>1, <2>2, EnsureHealthyKeeps
  <2>4. Watched'
    BY <2>2, <2>3 DEF Watched, OpenSocketIsWatched
  <2>5. QED BY <1>2, <2>3, <2>4 DEF IInv
<1>5. QED BY <1>3, <1>4 DEF HeartbeatDue

\* A tool action only asks for a check.
LEMMA ToolActionInv ==
  ASSUME IInv, ToolAction
  PROVE  IInv'
<1>1. Idle /\ healthPromise = None /\ UNCHANGED <<attempt, socketVars, explicit, used>>
  BY DEF ToolAction
<1>2. PICK stale \in BOOLEAN : EnsureHealthy(stale)
  BY DEF ToolAction
<1>3. heartbeat' \in BOOLEAN
  BY <1>1, TypesAre DEF IInv, socketVars
<1>4. /\ ClientTypeOK'
      /\ OneSocket' /\ LoopsWait' /\ OneLoop' /\ OneCheck'
      /\ DisconnectHolds' /\ ProbeHasSocket' /\ SocketIsOpen' = SocketIsOpen
      /\ SocketIsOpen => reconnectPromise' = reconnectPromise
  BY <1>1, <1>2, <1>3, EnsureHealthyKeeps DEF socketVars
<1>5. OpenedIsWatched' /\ Watched'
  BY <1>1, <1>4 DEF IInv, OpenedIsWatched, Idle, Watched, OpenSocketIsWatched, socketVars
<1>6. QED BY <1>4, <1>5 DEF IInv

\* A check that ends; h is no longer handed out.
LEMMA CheckEndsKeeps ==
  ASSUME IInv, NEW h \in Checks, check' = [check EXCEPT ![h].pc = "none"],
         healthPromise' = (IF healthPromise = h THEN None ELSE healthPromise),
         UNCHANGED <<attempt, sock, socket, opening, loopVars, explicit, used>>,
         heartbeat' \in BOOLEAN
  PROVE  /\ ClientTypeOK'
         /\ OneSocket' /\ LoopsWait' /\ OneLoop' /\ OneCheck'
         /\ DisconnectHolds' /\ ProbeHasSocket' /\ SocketIsOpen' = SocketIsOpen
<1>1. /\ check \in ChecksTyped /\ attempt \in AttemptsTyped
      /\ healthPromise \in Checks \cup {None}
  BY TypesAre DEF IInv
<1>2. /\ check' \in ChecksTyped /\ check'[h].pc = "none"
      /\ \A g \in Checks \ {h} : check'[g] = check[g]
  BY <1>1 DEF ChecksTyped
<1>3. ClientTypeOK'
  BY <1>1, <1>2, TypesAre, TypesAreNew DEF IInv, loopVars
<1>4. LoopsWait' /\ OneLoop'
  BY DEF IInv, LoopsWait, OneLoop, ReconnectIsSingleFlight, loopVars
<1>5. OneCheck'
  BY <1>1, <1>2, ClientAssumption DEF IInv, OneCheck, loopVars
<1>6. OneSocket' /\ DisconnectHolds' /\ ProbeHasSocket' /\ SocketIsOpen' = SocketIsOpen
  BY <1>2, SocketUntouched
<1>7. QED BY <1>3, <1>4, <1>5, <1>6

\* The answer to a probe ends its check, and the heartbeat is armed again.
LEMMA ProbeAnsweredInv ==
  ASSUME IInv, NEW h \in Checks, ProbeAnswered(h)
  PROVE  IInv'
<1>1. heartbeat' = TRUE
  BY DEF ProbeAnswered
<1>2. /\ ClientTypeOK'
      /\ OneSocket' /\ LoopsWait' /\ OneLoop' /\ OneCheck'
      /\ DisconnectHolds' /\ ProbeHasSocket'
  BY <1>1, CheckEndsKeeps DEF ProbeAnswered
<1>3. OpenedIsWatched' /\ Watched'
  BY <1>1 DEF OpenedIsWatched, Watched, OpenSocketIsWatched
<1>4. QED BY <1>2, <1>3 DEF IInv

\* A probe that times out fails; its check then sees to the websocket.
LEMMA ProbeTimesOutInv ==
  ASSUME IInv, NEW h \in Checks, ProbeTimesOut(h)
  PROVE  IInv'
<1>1. /\ check \in ChecksTyped /\ attempt \in AttemptsTyped /\ check[h].pc = "probing"
      /\ UNCHANGED <<attempt, socketVars, loopVars, healthPromise, explicit, used>>
  BY TypesAre DEF IInv, ProbeTimesOut
<1>2. /\ check' \in ChecksTyped
      /\ \A g \in Checks : /\ check'[g].on = check[g].on /\ check'[g].fresh = check[g].fresh
                           /\ check'[g].pc = IF g = h THEN "probeFailed" ELSE check[g].pc
  BY <1>1 DEF ProbeTimesOut, ChecksTyped
<1>3. ClientTypeOK'
  BY <1>1, <1>2, TypesAre, TypesAreNew DEF IInv, loopVars, socketVars
<1>4. LoopsWait' /\ OneLoop'
  BY <1>1 DEF IInv, LoopsWait, OneLoop, ReconnectIsSingleFlight, loopVars
<1>5. OneCheck'
  BY <1>1, <1>2, TypesAre DEF IInv, OneCheck, loopVars
<1>6. OneSocket' /\ DisconnectHolds' /\ ProbeHasSocket' /\ SocketIsOpen' = SocketIsOpen
  BY <1>1, <1>2, SocketUntouched DEF socketVars
<1>7. OpenedIsWatched' /\ Watched'
  BY <1>1, <1>6
     DEF IInv, OpenedIsWatched, Watched, OpenSocketIsWatched, socketVars, loopVars
<1>8. QED BY <1>3, <1>4, <1>5, <1>6, <1>7 DEF IInv

\* A failed probe: the websocket goes and one loop reconnects, unless the check
\* is outdated.
LEMMA ProbeFailsInv ==
  ASSUME IInv, NEW h \in Checks, ProbeFails(h)
  PROVE  IInv'
<1>1. /\ check \in ChecksTyped /\ attempt \in AttemptsTyped /\ check[h].pc = "probeFailed"
      /\ opening \in Attempts \cup {None} /\ heartbeat \in BOOLEAN
      /\ UNCHANGED <<explicit, used>>
  BY TypesAre DEF IInv, ProbeFails
<1>2. CASE check[h].fresh /\ ~explicit
  <2>1. /\ sock' = SocketClosed /\ NoSocket /\ attempt' = OpeningRejected(attempt)
        /\ healthPromise' = healthPromise
    BY <1>2 DEF ProbeFails
  <2>2. PICK r \in Loops :
          /\ Reconnect(loop, r)
          /\ check' = [ProbesRejected(check) EXCEPT ![h].pc = "recovering", ![h].on = r]
    BY <1>2 DEF ProbeFails
  <2>3. /\ sock' \in SocksTyped /\ (\A b \in Attempts : sock'[b] = "closed")
        /\ socket' = None /\ opening' = None /\ heartbeat' = FALSE
    BY <2>1, ClosedSocket DEF NoSocket, IInv, OneSocket
  <2>4. /\ attempt' \in AttemptsTyped
        /\ \A b \in Attempts : /\ attempt'[b].by = attempt[b].by
                               /\ attempt'[b].pc = IF opening = b THEN "failed" ELSE attempt[b].pc
    BY <1>1, <2>1, RejectedAttempts
  <2>5. /\ check' \in ChecksTyped /\ check'[h].pc = "recovering" /\ check'[h].on = r
        /\ check'[h].fresh = check[h].fresh
        /\ \A g \in Checks \ {h} : /\ check'[g].on = check[g].on
                                   /\ check'[g].fresh = check[g].fresh
                                   /\ check'[g].pc # "probing"
                                   /\ check'[g].pc = "none" <=> check[g].pc = "none"
    <3>1. /\ ProbesRejected(check) \in ChecksTyped
          /\ \A g \in Checks :
               /\ ProbesRejected(check)[g].on = check[g].on
               /\ ProbesRejected(check)[g].fresh = check[g].fresh
               /\ ProbesRejected(check)[g].pc =
                    IF check[g].pc = "probing" THEN "probeFailed" ELSE check[g].pc
      BY <1>1, RejectedProbes
    <3>2. QED BY <2>2, <3>1 DEF ChecksTyped
  <2>6. /\ loop' \in LoopsTyped /\ reconnectTimer' \in Loops \cup {None}
        /\ OneLoop' /\ reconnectPromise' = r
        /\ \A l \in Loops : loop[l].pc = "connecting" => loop'[l].pc = "connecting"
    BY <1>1, <2>2, ReconnectKeeps
  <2>7. healthPromise = h /\ h # None /\ r # None
    BY <1>1, <1>2, ClientAssumption DEF IInv, OneCheck
  <2>8. ClientTypeOK'
    BY <1>1, <2>1, <2>3, <2>4, <2>5, <2>6, TypesAre, TypesAreNew DEF IInv
  <2>9. OneSocket'
    BY <1>1, <2>3, <2>4, ClientAssumption DEF IInv, OneSocket, NoOrphanSocket
  <2>10. LoopsWait'
    <3>1. \A b \in Attempts : attempt[b].by # User => attempt[b].by \in Loops
      BY <1>1 DEF AttemptsTyped
    <3>2. QED BY <2>4, <2>6, <3>1 DEF IInv, LoopsWait
  <2>11. OneCheck'
    BY <1>2, <2>1, <2>5, <2>6, <2>7 DEF IInv, OneCheck
  <2>12. DisconnectHolds' /\ ProbeHasSocket'
    BY <2>3, <2>5 DEF DisconnectHolds, ProbeHasSocket
  <2>13. QED BY <2>3, <2>6, <2>8, <2>9, <2>10, <2>11, <2>12, NoneOpen, NothingToWatch DEF IInv
<1>3. CASE ~(check[h].fresh /\ ~explicit)
  <2>1. /\ check' = [check EXCEPT ![h].pc = "none"]
        /\ healthPromise' = IF healthPromise = h THEN None ELSE healthPromise
        /\ UNCHANGED <<attempt, socketVars, loopVars>>
    BY <1>3 DEF ProbeFails
  <2>2. /\ ClientTypeOK'
        /\ OneSocket' /\ LoopsWait' /\ OneLoop' /\ OneCheck'
        /\ DisconnectHolds' /\ ProbeHasSocket' /\ SocketIsOpen' = SocketIsOpen
    BY <1>1, <2>1, CheckEndsKeeps DEF socketVars
  <2>3. SocketIsOpen => ~explicit
    BY ClientAssumption DEF IInv, DisconnectHolds, SocketIsOpen
  <2>4. SocketIsOpen => healthPromise' = healthPromise
    BY <1>3, <2>1, <2>3, ClientAssumption DEF IInv, OneCheck
  <2>5. OpenedIsWatched' /\ Watched'
    BY <2>1, <2>2, <2>4
       DEF IInv, OpenedIsWatched, Watched, OpenSocketIsWatched, socketVars, loopVars
  <2>6. QED BY <2>2, <2>5 DEF IInv
<1>4. QED BY <1>2, <1>3

-----------------------------------------------------------------------------
(* A failed probe and the websocket that comes after                       *)

\* At most one attempt may still open a websocket.  While the user's waits for
\* its answer there is none, and a loop's is wanted no longer than its loop.
OneWanted == \A a, b \in Attempts : attempt[a].fresh /\ attempt[b].fresh => a = b

ConnectMeetsNoSocket ==
  \A a \in Attempts :
    attempt[a].fresh /\ attempt[a].pc = "fetching" /\ attempt[a].by = User => socket = None

AttemptHasItsLoop ==
  \A a \in Attempts : attempt[a].fresh /\ attempt[a].by # User => loop[attempt[a].by].fresh

CheckAwaitsLoop == healthPromise # None /\ check[healthPromise].pc = "recovering"

\* No websocket but that of the loop's own attempt is there or to come.
HasOwnSocket(l) ==
  /\ \A a \in Attempts : attempt[a].fresh /\ attempt[a].by = User => attempt[a].pc # "fetching"
  /\ socket # None => attempt[socket].by = l /\ attempt[socket].pc \in {"opening", "opened"}

\* A loop that may meet another websocket was asked for by a check, and while
\* that check awaits the loop no other one probes.
LoopIsFollowed ==
  \A l \in Loops : loop[l].pc # "none" /\ loop[l].fresh /\ ~explicit
                     => CheckAwaitsLoop \/ HasOwnSocket(l)

ProbeIsWanted == \A h \in Checks : check[h].pc = "probing" => check[h].fresh

Spared == /\ OneWanted /\ ConnectMeetsNoSocket /\ AttemptHasItsLoop
          /\ LoopIsFollowed /\ ProbeIsWanted /\ ProbeSparesNewSocket

\* So no probe is there to be rejected when an attempt makes its websocket.
LEMMA ProbeMeetsNoAttempt ==
  ASSUME IInv, Spared, NEW h \in Checks, check[h].pc = "probing",
         NEW a \in Attempts, attempt[a].pc = "fetching", attempt[a].fresh
  PROVE  FALSE
<1>1. /\ SocketIsOpen /\ socket \in Attempts /\ sock[socket] \in {"open", "halfOpen"}
      /\ ~explicit
  BY ClientAssumption DEF IInv, ProbeHasSocket, SocketIsOpen, DisconnectHolds
<1>2. healthPromise = h
  BY DEF IInv, OneCheck, Spared, ProbeIsWanted
<1>3. attempt[a].by # User
  BY <1>1, ClientAssumption DEF Spared, ConnectMeetsNoSocket
<1>4. PICK l \in Loops : l = attempt[a].by
  BY <1>3, TypesAre DEF IInv, AttemptsTyped
<1>5. loop[l].pc = "connecting" /\ loop[l].fresh
  BY <1>3, <1>4 DEF IInv, LoopsWait, Spared, AttemptHasItsLoop
<1>6. HasOwnSocket(l)
  BY <1>1, <1>2, <1>5 DEF Spared, LoopIsFollowed, CheckAwaitsLoop
<1>7. socket = a
  BY <1>1, <1>3, <1>4, <1>6, ClientAssumption DEF HasOwnSocket, IInv, LoopsWait
<1>8. QED BY <1>1, <1>6, <1>7, ClientAssumption DEF HasOwnSocket

\* The new loop of reconnect meets no attempt of another.
LEMMA ReconnectSpares ==
  ASSUME IInv, Spared, NEW r \in Loops \cup {None}, Reconnect(loop, r),
         UNCHANGED explicit,
         \A a \in Attempts : /\ attempt'[a].by = attempt[a].by
                             /\ attempt'[a].fresh = attempt[a].fresh
  PROVE  /\ AttemptHasItsLoop'
         /\ reconnectPromise # None => loop' = loop
         /\ \A l \in Loops : loop'[l].pc # "none" /\ loop'[l].fresh /\ ~explicit => l = r
<1>1. loop \in LoopsTyped /\ attempt \in AttemptsTyped
  BY TypesAre DEF IInv
<1>2. CASE reconnectPromise # None \/ explicit \/ ~used
  BY <1>1, <1>2 DEF Reconnect, Spared, AttemptHasItsLoop, IInv, OneLoop, ReconnectIsSingleFlight
<1>3. CASE ~(reconnectPromise # None \/ explicit \/ ~used)
  <2>1. /\ r \in Loops
        /\ loop' = [Outdated(loop) EXCEPT ![r] = [pc |-> "delaying", fresh |-> TRUE]]
    BY <1>3 DEF Reconnect
  <2>2. \A l \in Loops \ {r} : ~loop'[l].fresh
    BY <1>1, <2>1, OutdatedLoops DEF LoopsTyped
  <2>3. \A a \in Attempts : attempt[a].by # User => ~attempt[a].fresh
    <3>1. ASSUME NEW a \in Attempts, attempt[a].by # User, attempt[a].fresh
          PROVE  FALSE
      <4>1. /\ attempt[a].by \in Loops /\ loop[attempt[a].by].pc = "connecting"
            /\ loop[attempt[a].by].fresh
        BY <1>1, <3>1 DEF AttemptsTyped, IInv, LoopsWait, Spared, AttemptHasItsLoop
      <4>2. reconnectPromise = attempt[a].by
        BY <1>3, <4>1 DEF IInv, OneLoop, ReconnectIsSingleFlight
      <4>3. QED BY <1>3, <4>1, <4>2, ClientAssumption
    <3>2. QED BY <3>1
  <2>4. QED BY <1>3, <2>1, <2>2, <2>3 DEF AttemptHasItsLoop
<1>4. QED BY <1>2, <1>3

\* The end of a loop leaves the loop that is wanted, and its check.
LEMMA LoopEndsSpares ==
  ASSUME IInv, Spared, NEW l \in Loops, LoopEnds(l), UNCHANGED <<explicit, socket, opening>>,
         \A a \in Attempts : IF attempt[a].by = l THEN ~attempt'[a].fresh
                             ELSE attempt'[a] = attempt[a]
  PROVE  Spared'
<1>1. /\ loop \in LoopsTyped /\ attempt \in AttemptsTyped /\ check \in ChecksTyped
      /\ reconnectPromise \in Loops \cup {None} /\ healthPromise \in Checks \cup {None}
      /\ socket \in Attempts \cup {None}
  BY TypesAre DEF IInv
<1>2. loop'[l].pc = "none" /\ \A k \in Loops \ {l} : loop'[k] = loop[k]
  BY <1>1 DEF LoopEnds, LoopsTyped
<1>3. \A h \in Checks : \/ check[h].pc = "recovering" /\ check[h].on = l /\ check'[h].pc = "none"
                        \/ ~(check[h].pc = "recovering" /\ check[h].on = l)
                           /\ check'[h] = check[h]
  BY <1>1 DEF LoopEnds, ChecksTyped
<1>4. /\ OneWanted' /\ ConnectMeetsNoSocket' /\ ProbeIsWanted' /\ ProbeSparesNewSocket'
  BY <1>3, ClientAssumption
     DEF Spared, OneWanted, ConnectMeetsNoSocket, ProbeIsWanted, ProbeSparesNewSocket
<1>5. AttemptHasItsLoop'
  BY <1>1, <1>2 DEF Spared, AttemptHasItsLoop, AttemptsTyped
<1>6. ASSUME NEW k \in Loops, loop'[k].pc # "none", loop'[k].fresh, ~explicit
      PROVE  CheckAwaitsLoop' \/ HasOwnSocket(k)'
  <2>1. k # l /\ loop[k].pc # "none" /\ loop[k].fresh
    BY <1>2, <1>6
  <2>2. reconnectPromise = k
    BY <1>6, <2>1 DEF IInv, OneLoop, ReconnectIsSingleFlight
  <2>3. CASE CheckAwaitsLoop
    <3>1. check[healthPromise].on = k /\ healthPromise \in Checks
      BY <1>1, <2>2, <2>3 DEF CheckAwaitsLoop, IInv, OneCheck
    <3>2. healthPromise' = healthPromise /\ check'[healthPromise] = check[healthPromise]
      BY <1>3, <2>1, <3>1 DEF LoopEnds
    <3>3. QED BY <2>3, <3>2 DEF CheckAwaitsLoop
  <2>4. CASE HasOwnSocket(k)
    BY <1>1, <2>1, <2>4, ClientAssumption DEF HasOwnSocket
  <2>5. QED BY <1>6, <2>1, <2>3, <2>4 DEF Spared, LoopIsFollowed
<1>7. LoopIsFollowed'
  BY <1>6 DEF LoopIsFollowed
<1>8. QED BY <1>4, <1>5, <1>7 DEF Spared

\* connect and disconnect leave no loop and no check wanted, and no websocket.
LEMMA UserSpares ==
  ASSUME IInv, disconnect \/ \E a \in Attempts : connect(a)
  PROVE  Spared'
<1>1. /\ attempt \in AttemptsTyped /\ loop \in LoopsTyped /\ check \in ChecksTyped
      /\ opening \in Attempts \cup {None} /\ reconnectTimer \in Loops \cup {None}
  BY TypesAre DEF IInv
<1>2. /\ loop' = TimerCleared(Outdated(loop)) /\ check' = ProbesRejected(Outdated(check))
      /\ socket' = None /\ opening' = None
  BY DEF connect, disconnect, NoSocket
<1>3. \A l \in Loops : ~loop'[l].fresh
  <2>1. Outdated(loop) \in LoopsTyped /\ \A l \in Loops : Outdated(loop)[l].fresh = FALSE
    BY <1>1, OutdatedLoops
  <2>2. QED BY <1>1, <1>2, <2>1, ClearedTimer
<1>4. \A h \in Checks : check'[h].pc # "probing"
  <2>1. Outdated(check) \in ChecksTyped
    BY <1>1, OutdatedChecks
  <2>2. QED BY <1>2, <2>1, RejectedProbes
<1>5. LoopIsFollowed' /\ ProbeIsWanted' /\ ProbeSparesNewSocket' /\ ConnectMeetsNoSocket'
  BY <1>2, <1>3, <1>4
     DEF LoopIsFollowed, ProbeIsWanted, ProbeSparesNewSocket, ConnectMeetsNoSocket
<1>6. OneWanted' /\ AttemptHasItsLoop'
  <2>1. CASE disconnect
    <3>1. Outdated(attempt) \in AttemptsTyped
          /\ \A b \in Attempts : Outdated(attempt)[b].fresh = FALSE
      BY <1>1, OutdatedAttempts
    <3>2. \A b \in Attempts : ~attempt'[b].fresh
      BY <1>1, <2>1, <3>1, RejectedAttempts DEF disconnect
    <3>3. QED BY <3>2 DEF OneWanted, AttemptHasItsLoop
  <2>2. ASSUME NEW a \in Attempts, connect(a)
        PROVE  OneWanted' /\ AttemptHasItsLoop'
    <3>1. OpeningRejected(attempt) \in AttemptsTyped
      BY <1>1, RejectedAttempts
    <3>2. attempt' = Begin(a, OpeningRejected(attempt), User)
      BY <2>2 DEF connect
    <3>3. attempt'[a] = [pc |-> "fetching", by |-> User, fresh |-> TRUE]
      BY <3>1, <3>2, BegunAttempts
    <3>4. \A b \in Attempts \ {a} : attempt'[b].fresh = FALSE
      BY <3>1, <3>2, BegunOutdates
    <3>5. QED BY <3>3, <3>4 DEF OneWanted, AttemptHasItsLoop
  <2>3. QED BY <2>1, <2>2
<1>7. QED BY <1>5, <1>6 DEF Spared

\* An attempt that fails, or comes too late, leaves no websocket.
LEMMA AttemptFailsSpares ==
  ASSUME IInv, Spared, NEW a \in Attempts,
         FetchFails(a) \/ (FetchOk(a) /\ ~StillWanted(a)) \/ SocketFailsToOpen(a)
  PROVE  Spared'
<1>1. /\ attempt \in AttemptsTyped /\ socket \in Attempts \cup {None}
  BY TypesAre DEF IInv
<1>2. /\ attempt' = [attempt EXCEPT ![a].pc = "failed"]
      /\ UNCHANGED <<loopVars, check, healthPromise, explicit>>
      /\ \/ attempt[a].pc = "fetching" /\ UNCHANGED <<socket, opening>>
         \/ socket' = None /\ opening' = None
  BY DEF FetchFails, FetchOk, SocketFailsToOpen, socketVars
<1>3. \A b \in Attempts : /\ attempt'[b].by = attempt[b].by
                          /\ attempt'[b].fresh = attempt[b].fresh
                          /\ attempt'[b].pc = IF b = a THEN "failed" ELSE attempt[b].pc
  BY <1>1, <1>2 DEF AttemptsTyped
<1>4. OneWanted' /\ ConnectMeetsNoSocket' /\ AttemptHasItsLoop'
  BY <1>2, <1>3 DEF Spared, OneWanted, ConnectMeetsNoSocket, AttemptHasItsLoop, loopVars
<1>5. ProbeIsWanted' /\ ProbeSparesNewSocket'
  BY <1>2 DEF Spared, ProbeIsWanted, ProbeSparesNewSocket
<1>6. \A l \in Loops : HasOwnSocket(l) => HasOwnSocket(l)'
  BY <1>1, <1>2, <1>3 DEF HasOwnSocket
<1>7. LoopIsFollowed'
  BY <1>2, <1>6 DEF Spared, LoopIsFollowed, CheckAwaitsLoop, loopVars
<1>8. QED BY <1>4, <1>5, <1>7 DEF Spared

\* An attempt that makes its websocket meets no probe: it is the user's, or that
\* of the one loop, which then has its own websocket or is followed by its check.
LEMMA FetchOkSpares ==
  ASSUME IInv, Spared, NEW a \in Attempts, FetchOk(a), StillWanted(a)
  PROVE  Spared'
<1>1. /\ attempt \in AttemptsTyped /\ check \in ChecksTyped
      /\ opening \in Attempts \cup {None} /\ healthPromise \in Checks \cup {None}
  BY TypesAre DEF IInv
<1>2. /\ attempt[a].pc = "fetching" /\ attempt[a].fresh /\ ~explicit
      /\ attempt' = [OpeningRejected(attempt) EXCEPT ![a].pc = "opening"]
      /\ check' = ProbesRejected(check)
      /\ socket' = a /\ opening' = a
      /\ UNCHANGED <<loopVars, healthPromise, explicit>>
      /\ \A h \in Checks : check[h].pc # "probeFailed"
  BY DEF FetchOk, StillWanted, Idle
<1>3. \A b \in Attempts : /\ attempt'[b].by = attempt[b].by
                          /\ attempt'[b].fresh = attempt[b].fresh
                          /\ attempt'[b].pc = IF b = a THEN "opening"
                                              ELSE IF opening = b THEN "failed"
                                              ELSE attempt[b].pc
  BY <1>1, <1>2, RejectedAttempts DEF AttemptsTyped
<1>4. \A h \in Checks : check'[h].pc = check[h].pc /\ check[h].pc # "probing"
  BY <1>1, <1>2, ProbeMeetsNoAttempt, RejectedProbes
<1>5. OneWanted' /\ ConnectMeetsNoSocket' /\ AttemptHasItsLoop'
  BY <1>2, <1>3
     DEF Spared, OneWanted, ConnectMeetsNoSocket, AttemptHasItsLoop, loopVars
<1>6. ProbeIsWanted' /\ ProbeSparesNewSocket'
  BY <1>2, <1>4 DEF ProbeIsWanted, ProbeSparesNewSocket
<1>7. ASSUME NEW l \in Loops, loop[l].pc # "none", loop[l].fresh, ~explicit
      PROVE  CheckAwaitsLoop' \/ HasOwnSocket(l)'
  <2>1. CASE CheckAwaitsLoop
    BY <1>1, <1>2, <1>4, <2>1 DEF CheckAwaitsLoop
  <2>2. CASE HasOwnSocket(l)
    <3>1. attempt[a].by \in Loops
      BY <1>1, <1>2, <2>2 DEF HasOwnSocket, AttemptsTyped
    <3>2. loop[attempt[a].by].pc = "connecting" /\ loop[attempt[a].by].fresh
      BY <1>2, <3>1, ClientAssumption DEF IInv, LoopsWait, Spared, AttemptHasItsLoop
    <3>3. attempt[a].by = l
      BY <1>7, <3>1, <3>2 DEF IInv, OneLoop, ReconnectIsSingleFlight
    <3>4. QED BY <1>2, <1>3, <2>2, <3>3 DEF HasOwnSocket
  <2>3. QED BY <1>7, <2>1, <2>2 DEF Spared, LoopIsFollowed
<1>8. LoopIsFollowed'
  BY <1>2, <1>7 DEF LoopIsFollowed, loopVars
<1>9. QED BY <1>5, <1>6, <1>8 DEF Spared

\* A websocket that opens, falls silent or brings an event stays its attempt's.
LEMMA SocketSpares ==
  ASSUME IInv, Spared, NEW a \in Attempts, SocketOpens(a) \/ GoesHalfOpen(a) \/ Inbound(a)
  PROVE  Spared'
<1>1. /\ attempt \in AttemptsTyped /\ socket \in Attempts \cup {None}
  BY TypesAre DEF IInv
<1>2. /\ UNCHANGED <<socket, loopVars, check, healthPromise, explicit>>
      /\ opening' \in {opening, None}
      /\ \/ UNCHANGED attempt
         \/ socket = a /\ attempt' = [attempt EXCEPT ![a].pc = "opened"]
  BY DEF SocketOpens, GoesHalfOpen, Inbound
<1>3. \A b \in Attempts : /\ attempt'[b].by = attempt[b].by
                          /\ attempt'[b].fresh = attempt[b].fresh
                          /\ attempt'[b].pc \in {attempt[b].pc, "opened"}
  BY <1>1, <1>2 DEF AttemptsTyped
<1>4. OneWanted' /\ ConnectMeetsNoSocket' /\ AttemptHasItsLoop'
  BY <1>2, <1>3 DEF Spared, OneWanted, ConnectMeetsNoSocket, AttemptHasItsLoop, loopVars
<1>5. ProbeIsWanted' /\ ProbeSparesNewSocket'
  BY <1>2 DEF Spared, ProbeIsWanted, ProbeSparesNewSocket
<1>6. \A l \in Loops : HasOwnSocket(l) => HasOwnSocket(l)'
  BY <1>1, <1>2, <1>3, ClientAssumption DEF HasOwnSocket
<1>7. LoopIsFollowed'
  BY <1>2, <1>6 DEF Spared, LoopIsFollowed, CheckAwaitsLoop, loopVars
<1>8. QED BY <1>4, <1>5, <1>7 DEF Spared

\* A websocket that closes leaves no attempt of the user behind it.
LEMMA SocketClosesSpares ==
  ASSUME IInv, Spared, NEW a \in Attempts, SocketCloses(a)
  PROVE  Spared'
<1>1. /\ attempt \in AttemptsTyped /\ check \in ChecksTyped /\ loop \in LoopsTyped
      /\ socket = a /\ socket' = None /\ opening' = None /\ Idle
      /\ check' = ProbesRejected(check)
      /\ UNCHANGED <<attempt, healthPromise, explicit>>
  BY TypesAre DEF IInv, SocketCloses, NoSocket
<1>2. PICK r \in Loops \cup {None} : Reconnect(loop, r)
  BY DEF SocketCloses
<1>3. AttemptHasItsLoop'
  BY <1>1, <1>2, ReconnectSpares
<1>4. \A h \in Checks : /\ check'[h].pc # "probing"
                        /\ check[h].pc = "recovering" => check'[h].pc = "recovering"
  BY <1>1, RejectedProbes
<1>5. OneWanted' /\ ConnectMeetsNoSocket' /\ ProbeIsWanted' /\ ProbeSparesNewSocket'
  BY <1>1, <1>4
     DEF Spared, OneWanted, ConnectMeetsNoSocket, ProbeIsWanted, ProbeSparesNewSocket
<1>6. \A b \in Attempts : attempt[b].fresh /\ attempt[b].by = User => attempt[b].pc # "fetching"
  BY <1>1, ClientAssumption DEF Spared, ConnectMeetsNoSocket
<1>7. LoopIsFollowed'
  BY <1>1, <1>6 DEF LoopIsFollowed, HasOwnSocket
<1>8. QED BY <1>3, <1>5, <1>7 DEF Spared

\* The attempt of a loop outdates all others.
LEMMA LoopStepSpares ==
  ASSUME IInv, Spared, NEW l \in Loops,
         DelayOver(l) \/ LoopGivesUp(l) \/ \E a \in Attempts : LoopWakes(l, a)
  PROVE  Spared'
<1>1. /\ loop \in LoopsTyped /\ attempt \in AttemptsTyped
      /\ socket \in Attempts \cup {None}
  BY TypesAre DEF IInv
<1>2. CASE DelayOver(l)
  <2>1. \A k \in Loops : /\ loop'[k].fresh = loop[k].fresh
                         /\ loop'[k].pc = IF k = l THEN "woken" ELSE loop[k].pc
    BY <1>1, <1>2 DEF DelayOver, LoopsTyped
  <2>2. loop[l].pc = "delaying"
    BY <1>2 DEF DelayOver, IInv, OneLoop
  <2>3. UNCHANGED <<attempt, socket, opening, check, healthPromise, explicit>>
    BY <1>2 DEF DelayOver, socketVars
  <2>4. AttemptHasItsLoop'
    BY <1>1, <2>1, <2>3 DEF Spared, AttemptHasItsLoop, AttemptsTyped
  <2>5. LoopIsFollowed'
    BY <2>1, <2>2, <2>3 DEF Spared, LoopIsFollowed, CheckAwaitsLoop, HasOwnSocket
  <2>6. QED BY <2>3, <2>4, <2>5
            DEF Spared, OneWanted, ConnectMeetsNoSocket, ProbeIsWanted, ProbeSparesNewSocket
<1>3. CASE LoopGivesUp(l)
  <2>1. \A a \in Attempts : attempt[a].by # l
    BY <1>3, ClientAssumption DEF LoopGivesUp, IInv, LoopsWait
  <2>2. QED BY <1>3, <2>1, LoopEndsSpares DEF LoopGivesUp, socketVars
<1>4. ASSUME NEW a \in Attempts, LoopWakes(l, a)
      PROVE  Spared'
  <2>1. /\ loop[l].pc = "woken" /\ loop[l].fresh /\ ~explicit /\ ~explicit'
        /\ attempt[a].pc = "none"
        /\ UNCHANGED <<socket, opening, check, healthPromise>>
    BY <1>4 DEF LoopWakes, LoopIsWanted, Free, socketVars
  <2>2. \A k \in Loops : /\ loop'[k].fresh = loop[k].fresh
                         /\ loop'[k].pc = IF k = l THEN "connecting" ELSE loop[k].pc
    BY <1>1, <1>4 DEF LoopWakes, LoopsTyped
  <2>3. /\ attempt'[a] = [pc |-> "fetching", by |-> l, fresh |-> TRUE]
        /\ \A b \in Attempts \ {a} : /\ attempt'[b].by = attempt[b].by
                                     /\ attempt'[b].pc = attempt[b].pc
                                     /\ attempt'[b].fresh = FALSE
    <3>1. attempt' = Begin(a, attempt, l)
      BY <1>4 DEF LoopWakes
    <3>2. l \in Loops \cup {User}
      OBVIOUS
    <3>3. /\ attempt'[a] = [pc |-> "fetching", by |-> l, fresh |-> TRUE]
          /\ \A b \in Attempts \ {a} : /\ attempt'[b].by = attempt[b].by
                                       /\ attempt'[b].pc = attempt[b].pc
      BY <1>1, <3>1, <3>2, BegunAttempts
    <3>4. \A b \in Attempts \ {a} : attempt'[b].fresh = FALSE
      BY <1>1, <3>1, <3>2, BegunOutdates
    <3>5. QED BY <3>3, <3>4
  <2>4. l # User
    BY ClientAssumption
  <2>5. OneWanted' /\ ConnectMeetsNoSocket' /\ AttemptHasItsLoop'
    BY <2>1, <2>2, <2>3, <2>4 DEF OneWanted, ConnectMeetsNoSocket, AttemptHasItsLoop
  <2>6. ProbeIsWanted' /\ ProbeSparesNewSocket'
    BY <2>1 DEF Spared, ProbeIsWanted, ProbeSparesNewSocket
  <2>7. ASSUME NEW k \in Loops, HasOwnSocket(k)
        PROVE  HasOwnSocket(k)'
    <3>1. socket # a
      BY <2>1, <2>7, ClientAssumption DEF HasOwnSocket
    <3>2. QED BY <1>1, <2>1, <2>3, <2>4, <2>7, <3>1 DEF HasOwnSocket
  <2>8. LoopIsFollowed'
    BY <2>1, <2>2, <2>7 DEF Spared, LoopIsFollowed, CheckAwaitsLoop
  <2>9. QED BY <2>5, <2>6, <2>8 DEF Spared
<1>5. QED BY <1>2, <1>3, <1>4

\* The end of an attempt: its loop ends or tries again.
LEMMA AttemptEndsSpares ==
  ASSUME IInv, Spared, NEW a \in Attempts, AttemptEnds(a)
  PROVE  Spared'
<1> DEFINE l == attempt[a].by
<1>1. /\ attempt \in AttemptsTyped /\ loop \in LoopsTyped /\ l \in Loops \cup {User}
      /\ socket \in Attempts \cup {None}
      /\ attempt[a].pc \in {"opened", "failed"}
      /\ UNCHANGED <<socket, opening, explicit>>
  BY TypesAre DEF IInv, AttemptEnds, AttemptsTyped, socketVars
<1>2. /\ attempt'[a].by = User /\ ~attempt'[a].fresh
      /\ \A b \in Attempts \ {a} : attempt'[b] = attempt[b]
  BY <1>1 DEF AttemptEnds, AttemptsTyped
<1>3. l # User => /\ l \in Loops /\ loop[l].pc = "connecting"
                  /\ \A b \in Attempts \ {a} : attempt[b].by # l
  BY <1>1 DEF IInv, LoopsWait
<1>4. OneWanted' /\ ConnectMeetsNoSocket'
  BY <1>1, <1>2 DEF Spared, OneWanted, ConnectMeetsNoSocket
<1>5. CASE l = User /\ UNCHANGED <<loopVars, check, healthPromise>>
  <2>1. AttemptHasItsLoop' /\ ProbeIsWanted' /\ ProbeSparesNewSocket'
    BY <1>1, <1>2, <1>5
       DEF Spared, AttemptHasItsLoop, ProbeIsWanted, ProbeSparesNewSocket, loopVars
  <2>2. ASSUME NEW k \in Loops, HasOwnSocket(k)
        PROVE  HasOwnSocket(k)'
    <3>1. socket # a
      BY <1>5, <2>2, ClientAssumption DEF HasOwnSocket
    <3>2. QED BY <1>1, <1>2, <2>2, <3>1 DEF HasOwnSocket
  <2>3. LoopIsFollowed'
    BY <1>1, <1>5, <2>2 DEF Spared, LoopIsFollowed, CheckAwaitsLoop, loopVars
  <2>4. QED BY <1>4, <2>1, <2>3 DEF Spared
<1>6. CASE l # User /\ LoopEnds(l)
  BY <1>1, <1>2, <1>3, <1>6, LoopEndsSpares
<1>7. CASE /\ l # User /\ TriesAgain(a)
           /\ loop' = [loop EXCEPT ![l].pc = "delaying"]
           /\ UNCHANGED <<check, healthPromise>>
  <2>1. \A k \in Loops : /\ loop'[k].fresh = loop[k].fresh
                         /\ loop'[k].pc = IF k = l THEN "delaying" ELSE loop[k].pc
    BY <1>1, <1>3, <1>7 DEF LoopsTyped
  <2>2. AttemptHasItsLoop' /\ ProbeIsWanted' /\ ProbeSparesNewSocket'
    BY <1>1, <1>2, <1>7, <2>1
       DEF Spared, AttemptHasItsLoop, ProbeIsWanted, ProbeSparesNewSocket, AttemptsTyped
  <2>3. ASSUME NEW k \in Loops, HasOwnSocket(k)
        PROVE  HasOwnSocket(k)'
    <3>1. socket # a
      BY <1>7, <2>3, ClientAssumption DEF HasOwnSocket, TriesAgain
    <3>2. QED BY <1>1, <1>2, <2>3, <3>1 DEF HasOwnSocket
  <2>4. LoopIsFollowed'
    BY <1>1, <1>3, <1>7, <2>1, <2>3 DEF Spared, LoopIsFollowed, CheckAwaitsLoop
  <2>5. QED BY <1>4, <2>2, <2>4 DEF Spared
<1>8. QED BY <1>5, <1>6, <1>7 DEF AttemptEnds

\* ensureHealthy begins one check, and none while the promise of another is
\* handed out: its probe meets no loop, and its loop is followed by it.
LEMMA EnsureHealthySpares ==
  ASSUME IInv, Spared, Idle, healthPromise = None, NEW stale \in BOOLEAN,
         EnsureHealthy(stale), UNCHANGED <<attempt, sock, socket, opening, explicit, used>>
  PROVE  Spared'
<1>1. /\ check \in ChecksTyped /\ loop \in LoopsTyped /\ attempt \in AttemptsTyped
      /\ socket \in Attempts \cup {None}
  BY TypesAre DEF IInv
<1>2. OneWanted' /\ ConnectMeetsNoSocket'
  BY DEF Spared, OneWanted, ConnectMeetsNoSocket
<1>3. CASE SocketIsOpen /\ ~stale /\ UNCHANGED <<loopVars, check, healthPromise>>
  BY <1>2, <1>3
     DEF Spared, AttemptHasItsLoop, LoopIsFollowed, CheckAwaitsLoop, HasOwnSocket,
         ProbeIsWanted, ProbeSparesNewSocket, loopVars
<1>4. CASE /\ SocketIsOpen /\ stale /\ UNCHANGED loopVars
           /\ \E h \in Checks :
                /\ check[h].pc = "none"
                /\ check' = [check EXCEPT ![h] = [pc |-> "probing", on |-> None, fresh |-> TRUE]]
                /\ healthPromise' = h
  <2>1. PICK h \in Checks :
          check' = [check EXCEPT ![h] = [pc |-> "probing", on |-> None, fresh |-> TRUE]]
    BY <1>4
  <2>2. /\ check'[h] = [pc |-> "probing", on |-> None, fresh |-> TRUE]
        /\ \A g \in Checks \ {h} : check'[g] = check[g]
    BY <1>1, <2>1 DEF ChecksTyped
  <2>3. AttemptHasItsLoop' /\ ProbeIsWanted' /\ ProbeSparesNewSocket'
    BY <1>4, <2>2 DEF Spared, AttemptHasItsLoop, ProbeIsWanted, ProbeSparesNewSocket, loopVars
  <2>4. \A l \in Loops : HasOwnSocket(l)' = HasOwnSocket(l)
    BY DEF HasOwnSocket
  <2>5. LoopIsFollowed'
    BY <1>4, <2>4 DEF Spared, LoopIsFollowed, CheckAwaitsLoop, loopVars
  <2>6. QED BY <1>2, <2>3, <2>5 DEF Spared
<1>5. CASE /\ ~SocketIsOpen
           /\ \E r \in Loops \cup {None}, h \in Checks :
                /\ Reconnect(loop, r)
                /\ check[h].pc = "none"
                /\ IF r = None
                   THEN UNCHANGED <<check, healthPromise>>
                   ELSE /\ check' = [check EXCEPT ![h] =
                                       [pc |-> "recovering", on |-> r, fresh |-> TRUE]]
                        /\ healthPromise' = h
  <2>1. PICK r \in Loops \cup {None}, h \in Checks :
          /\ Reconnect(loop, r)
          /\ IF r = None
             THEN UNCHANGED <<check, healthPromise>>
             ELSE /\ check' = [check EXCEPT ![h] =
                                 [pc |-> "recovering", on |-> r, fresh |-> TRUE]]
                  /\ healthPromise' = h
    BY <1>5
  <2>2. /\ AttemptHasItsLoop'
        /\ \A l \in Loops : loop'[l].pc # "none" /\ loop'[l].fresh /\ ~explicit => l = r
    BY <2>1, ReconnectSpares
  <2>3. CASE r = None
    <3>1. check' = check
      BY <2>1, <2>3
    <3>2. LoopIsFollowed'
      BY <2>2, <2>3, ClientAssumption DEF LoopIsFollowed
    <3>3. QED BY <1>2, <2>2, <3>1, <3>2 DEF Spared, ProbeIsWanted, ProbeSparesNewSocket
  <2>4. CASE r # None
    <3>1. /\ check'[h] = [pc |-> "recovering", on |-> r, fresh |-> TRUE] /\ healthPromise' = h
          /\ \A g \in Checks \ {h} : check'[g] = check[g]
      BY <1>1, <2>1, <2>4 DEF ChecksTyped
    <3>2. CheckAwaitsLoop'
      BY <3>1, ClientAssumption DEF CheckAwaitsLoop
    <3>3. LoopIsFollowed' /\ ProbeIsWanted' /\ ProbeSparesNewSocket'
      BY <3>1, <3>2 DEF Spared, LoopIsFollowed, ProbeIsWanted, ProbeSparesNewSocket
    <3>4. QED BY <1>2, <2>2, <3>3 DEF Spared
  <2>5. QED BY <2>3, <2>4
<1>6. QED BY <1>3, <1>4, <1>5 DEF EnsureHealthy

\* A probe ends when no websocket is about to open; the loop that a check begins
\* when its probe has failed is the one that check awaits.
LEMMA ProbeSpares ==
  ASSUME IInv, Spared, NEW h \in Checks, ProbeAnswered(h) \/ ProbeTimesOut(h) \/ ProbeFails(h)
  PROVE  Spared'
<1>1. /\ check \in ChecksTyped /\ attempt \in AttemptsTyped
      /\ opening \in Attempts \cup {None} /\ socket \in Attempts \cup {None}
  BY TypesAre DEF IInv
<1>2. CASE check[h].pc = "probing" /\ ProbeTimesOut(h)
  <2>1. \A g \in Checks : /\ check'[g].fresh = check[g].fresh
                          /\ check'[g].pc = IF g = h THEN "probeFailed" ELSE check[g].pc
    BY <1>1, <1>2 DEF ProbeTimesOut, ChecksTyped
  <2>2. UNCHANGED <<attempt, socket, opening, loop, healthPromise, explicit>>
    BY <1>2 DEF ProbeTimesOut, socketVars, loopVars
  <2>3. opening = None
    BY <1>2, ClientAssumption, TypesAre DEF IInv, ProbeHasSocket, SocketIsOpen, OneSocket
  <2>4. OneWanted' /\ ConnectMeetsNoSocket' /\ AttemptHasItsLoop'
    BY <2>2 DEF Spared, OneWanted, ConnectMeetsNoSocket, AttemptHasItsLoop
  <2>5. ProbeIsWanted' /\ ProbeSparesNewSocket'
    BY <2>1, <2>2, <2>3 DEF Spared, ProbeIsWanted, ProbeSparesNewSocket
  <2>6. CheckAwaitsLoop => CheckAwaitsLoop'
    BY <1>2, <2>1, <2>2, TypesAre DEF CheckAwaitsLoop, IInv
  <2>7. LoopIsFollowed'
    BY <2>2, <2>6 DEF Spared, LoopIsFollowed, HasOwnSocket
  <2>8. QED BY <2>4, <2>5, <2>7 DEF Spared
<1>3. CASE /\ check[h].pc \in {"probing", "probeFailed"}
           /\ check' = [check EXCEPT ![h].pc = "none"]
           /\ healthPromise' = IF healthPromise = h THEN None ELSE healthPromise
           /\ UNCHANGED <<attempt, socket, opening, loopVars, explicit>>
  <2>1. check'[h].pc = "none" /\ \A g \in Checks \ {h} : check'[g] = check[g]
    BY <1>1, <1>3 DEF ChecksTyped
  <2>2. OneWanted' /\ ConnectMeetsNoSocket' /\ AttemptHasItsLoop'
    BY <1>3 DEF Spared, OneWanted, ConnectMeetsNoSocket, AttemptHasItsLoop, loopVars
  <2>3. ProbeIsWanted' /\ ProbeSparesNewSocket'
    BY <1>3, <2>1 DEF Spared, ProbeIsWanted, ProbeSparesNewSocket
  <2>4. CheckAwaitsLoop => CheckAwaitsLoop'
    BY <1>3, <2>1, TypesAre DEF CheckAwaitsLoop, IInv
  <2>5. LoopIsFollowed'
    BY <1>3, <2>4 DEF Spared, LoopIsFollowed, HasOwnSocket, loopVars
  <2>6. QED BY <2>2, <2>3, <2>5 DEF Spared
<1>4. CASE check[h].pc = "probeFailed" /\ check[h].fresh /\ ~explicit /\ ProbeFails(h)
  <2>1. /\ socket' = None /\ opening' = None /\ attempt' = OpeningRejected(attempt)
        /\ UNCHANGED <<healthPromise, explicit>>
    BY <1>4 DEF ProbeFails, NoSocket
  <2>2. PICK r \in Loops :
          /\ Reconnect(loop, r)
          /\ check' = [ProbesRejected(check) EXCEPT ![h].pc = "recovering", ![h].on = r]
    BY <1>4 DEF ProbeFails
  <2>3. \A b \in Attempts : /\ attempt'[b].by = attempt[b].by
                            /\ attempt'[b].fresh = attempt[b].fresh
    BY <1>1, <2>1, RejectedAttempts
  <2>4. /\ check'[h].pc = "recovering"
        /\ \A g \in Checks : check'[g].pc # "probing"
    <3>1. /\ ProbesRejected(check) \in ChecksTyped
          /\ \A g \in Checks : ProbesRejected(check)[g].pc =
                                 IF check[g].pc = "probing" THEN "probeFailed" ELSE check[g].pc
      BY <1>1, RejectedProbes
    <3>2. QED BY <2>2, <3>1 DEF ChecksTyped
  <2>5. AttemptHasItsLoop'
    BY <2>1, <2>2, <2>3, ReconnectSpares
  <2>6. healthPromise' = h
    BY <1>4, <2>1 DEF IInv, OneCheck
  <2>7. OneWanted' /\ ConnectMeetsNoSocket' /\ ProbeIsWanted' /\ ProbeSparesNewSocket'
    BY <2>1, <2>3, <2>4
       DEF Spared, OneWanted, ConnectMeetsNoSocket, ProbeIsWanted, ProbeSparesNewSocket
  <2>8. LoopIsFollowed'
    BY <2>4, <2>6, ClientAssumption DEF LoopIsFollowed, CheckAwaitsLoop
  <2>9. QED BY <2>5, <2>7, <2>8 DEF Spared
<1>5. QED BY <1>2, <1>3, <1>4 DEF ProbeAnswered, ProbeTimesOut, ProbeFails, socketVars, loopVars

\* Every step keeps all this.
LEMMA NextSpares == IInv /\ Spared /\ [Next]_vars => Spared'
<1> SUFFICES ASSUME IInv, Spared, [Next]_vars PROVE Spared'
  OBVIOUS
<1>1. CASE disconnect \/ \E a \in Attempts : connect(a)
  BY <1>1, UserSpares
<1>2. CASE HeartbeatDue
  <2>1. CASE healthPromise # None
    <3>1. UNCHANGED <<attempt, socket, opening, loop, check, healthPromise, explicit>>
      BY <1>2, <2>1 DEF HeartbeatDue, loopVars
    <3>2. QED
      BY <3>1 DEF Spared, OneWanted, ConnectMeetsNoSocket, AttemptHasItsLoop, LoopIsFollowed,
                  CheckAwaitsLoop, HasOwnSocket, ProbeIsWanted, ProbeSparesNewSocket
  <2>2. CASE healthPromise = None
    BY <1>2, <2>2, EnsureHealthySpares, ClientAssumption DEF HeartbeatDue
  <2>3. QED BY <2>1, <2>2
<1>3. CASE ToolAction
  BY <1>3, EnsureHealthySpares DEF ToolAction, socketVars
<1>4. ASSUME NEW a \in Attempts,
             \/ FetchFails(a) \/ FetchOk(a)
             \/ SocketOpens(a) \/ SocketFailsToOpen(a) \/ GoesHalfOpen(a) \/ SocketCloses(a)
             \/ Inbound(a) \/ AttemptEnds(a)
      PROVE  Spared'
  BY <1>4, AttemptFailsSpares, FetchOkSpares, SocketSpares, SocketClosesSpares,
     AttemptEndsSpares
<1>5. ASSUME NEW l \in Loops,
             DelayOver(l) \/ LoopGivesUp(l) \/ \E a \in Attempts : LoopWakes(l, a)
      PROVE  Spared'
  BY <1>5, LoopStepSpares
<1>6. ASSUME NEW h \in Checks, ProbeAnswered(h) \/ ProbeTimesOut(h) \/ ProbeFails(h)
      PROVE  Spared'
  BY <1>6, ProbeSpares
<1>7. CASE UNCHANGED vars
  BY <1>7 DEF vars, socketVars, loopVars, Spared, OneWanted, ConnectMeetsNoSocket,
              AttemptHasItsLoop, LoopIsFollowed, CheckAwaitsLoop, HasOwnSocket,
              ProbeIsWanted, ProbeSparesNewSocket
<1>8. QED BY <1>1, <1>2, <1>3, <1>4, <1>5, <1>6, <1>7 DEF Next

-----------------------------------------------------------------------------
(* The theorems                                                            *)

\* Every step keeps the invariant.
LEMMA NextInv == IInv /\ [Next]_vars => IInv'
<1> SUFFICES ASSUME IInv, [Next]_vars PROVE IInv'
  OBVIOUS
<1>1. CASE disconnect \/ HeartbeatDue \/ ToolAction
  BY <1>1, disconnectInv, HeartbeatDueInv, ToolActionInv
<1>2. ASSUME NEW a \in Attempts,
             \/ connect(a) \/ FetchFails(a) \/ FetchOk(a)
             \/ SocketOpens(a) \/ SocketFailsToOpen(a) \/ GoesHalfOpen(a) \/ SocketCloses(a)
             \/ Inbound(a) \/ AttemptEnds(a)
      PROVE  IInv'
  BY <1>2, connectInv, FetchFailsInv, FetchOkInv, SocketOpensInv, SocketFailsToOpenInv,
     GoesHalfOpenInv, SocketClosesInv, InboundInv, AttemptEndsInv
<1>3. ASSUME NEW l \in Loops,
             DelayOver(l) \/ LoopGivesUp(l) \/ \E a \in Attempts : LoopWakes(l, a)
      PROVE  IInv'
  BY <1>3, DelayOverInv, LoopGivesUpInv, LoopWakesInv
<1>4. ASSUME NEW h \in Checks, ProbeAnswered(h) \/ ProbeTimesOut(h) \/ ProbeFails(h)
      PROVE  IInv'
  BY <1>4, ProbeAnsweredInv, ProbeTimesOutInv, ProbeFailsInv
<1>5. CASE UNCHANGED vars
  <2>1. UNCHANGED <<attempt, sock, socket, opening, heartbeat, loopVars, check, healthPromise,
                    explicit, used>>
    BY <1>5 DEF vars, socketVars
  <2>2. ClientTypeOK'
    BY <2>1, TypesAre, TypesAreNew DEF IInv, loopVars
  <2>3. OneSocket' /\ DisconnectHolds' /\ ProbeHasSocket' /\ SocketIsOpen' = SocketIsOpen
    BY <2>1, SocketUntouched
  <2>4. LoopsWait' /\ OneLoop' /\ OneCheck'
    BY <2>1, OnlyAttempts, TypesAre DEF IInv
  <2>5. OpenedIsWatched' /\ Watched'
    BY <2>1, <2>3 DEF IInv, OpenedIsWatched, Watched, OpenSocketIsWatched, loopVars
  <2>6. QED BY <2>2, <2>3, <2>4, <2>5 DEF IInv
<1>6. QED BY <1>1, <1>2, <1>3, <1>4, <1>5 DEF Next

\* The invariant holds throughout.
LEMMA Invariant == Spec => []IInv
BY InitInv, NextInv, PTL DEF Spec

\* An activity that awaits something awaits a loop or a websocket that exists.
THEOREM ClientTypeCorrect == Spec => []ClientTypeOK
<1>1. IInv => ClientTypeOK
  BY DEF IInv
<1>2. QED BY <1>1, Invariant, PTL

\* However connect, disconnect, the reconnect loop and failed probes interleave,
\* no websocket stays behind: closeCurrentSocket comes before each new one.
THEOREM NoSocketIsLeft == Spec => []NoOrphanSocket
<1>1. IInv => NoOrphanSocket
  BY DEF IInv, OneSocket
<1>2. QED BY <1>1, Invariant, PTL

\* Reconnect is single-flight: of all the loops that still run, at most the one
\* that reconnectPromise names goes on to connect, and at most one has the timer.
THEOREM OneReconnect == Spec => []ReconnectIsSingleFlight
<1>1. IInv => ReconnectIsSingleFlight
  BY DEF IInv, OneLoop
<1>2. QED BY <1>1, Invariant, PTL

\* A probe waits on the websocket that is current and open: whatever closes it
\* rejects the response waiters in the same callback.
THEOREM ProbesAreOnOpenSocket == Spec => []ProbeHasSocket
<1>1. IInv => ProbeHasSocket
  BY DEF IInv
<1>2. QED BY <1>1, Invariant, PTL

\* A failed probe closes no websocket that has come since, although it closes
\* whatever is current: the check is single-flight and awaits the loop, so no
\* other one probes while an attempt may open a websocket, and an outdated
\* check begins no loop.
THEOREM NewSocketsAreSpared == Spec => []ProbeSparesNewSocket
<1>1. Init => Spared
  BY ClientAssumption
     DEF Init, Spared, OneWanted, ConnectMeetsNoSocket, AttemptHasItsLoop, LoopIsFollowed,
         ProbeIsWanted, ProbeSparesNewSocket
<1>2. Spared => ProbeSparesNewSocket
  BY DEF Spared
<1>3. QED BY <1>1, <1>2, NextSpares, Invariant, PTL DEF Spec

\* On a platform whose timers do not fire early by Date.now(), a websocket that
\* opened is always watched, by its heartbeat, a check or the reconnect loop.
THEOREM OpenSocketsAreWatched ==
  ASSUME EarlyTimers = FALSE
  PROVE  Spec => []OpenSocketIsWatched
<1>1. IInv => OpenSocketIsWatched
  BY DEF IInv, Watched
<1>2. QED BY <1>1, Invariant, PTL

\* Explicit disconnect remains disconnected: until the user connects, no timer,
\* late answer or loop connects or opens a websocket.
THEOREM DisconnectStays == Spec => DisconnectIsFinal
<1> DEFINE Final == explicit /\ ~(\E a \in Attempts : connect(a)) => explicit' /\ socket' = None
<1>1. IInv /\ IInv' /\ [Next]_vars => [Final]_vars
  <2> SUFFICES ASSUME IInv, IInv', Next, explicit, ~(\E a \in Attempts : connect(a))
               PROVE  explicit'
    BY DEF IInv, DisconnectHolds
  <2>1. CASE disconnect \/ HeartbeatDue \/ ToolAction
    BY <2>1 DEF disconnect, HeartbeatDue, ToolAction
  <2>2. ASSUME NEW a \in Attempts,
               \/ FetchFails(a) \/ FetchOk(a) \/ SocketOpens(a) \/ SocketFailsToOpen(a)
               \/ GoesHalfOpen(a) \/ SocketCloses(a) \/ Inbound(a) \/ AttemptEnds(a)
        PROVE  explicit'
    BY <2>2 DEF FetchFails, FetchOk, SocketOpens, SocketFailsToOpen, GoesHalfOpen,
                SocketCloses, Inbound, AttemptEnds
  <2>3. ASSUME NEW l \in Loops,
               DelayOver(l) \/ LoopGivesUp(l) \/ \E a \in Attempts : LoopWakes(l, a)
        PROVE  explicit'
    BY <2>3 DEF DelayOver, LoopGivesUp, LoopWakes, LoopIsWanted
  <2>4. ASSUME NEW h \in Checks, ProbeAnswered(h) \/ ProbeTimesOut(h) \/ ProbeFails(h)
        PROVE  explicit'
    BY <2>4 DEF ProbeAnswered, ProbeTimesOut, ProbeFails
  <2>5. QED BY <2>1, <2>2, <2>3, <2>4 DEF Next
<1>2. QED BY <1>1, Invariant, PTL DEF DisconnectIsFinal, Spec
=============================================================================
