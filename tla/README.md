# Remote intercom: a TLA+ development

Remote intercom lets coding agents on different machines talk through a small
relay. This directory models its control logic in TLA+, checks it with TLC on
small instances and proves its central facts with TLAPS. `PROJECT.json` maps
every definition to the lines it stands for and lists runs, mutants, findings,
hazards and theorems. Paths below are relative to the repository.

## 1. Inventory

| part | state it keeps | operations | who talks to it |
|---|---|---|---|
| Channel registry `relay/internal/channel/registry.go` | channels by ID and by key, members (priority, online), pending joins, owner, join sequence number; all under `r.mu` | Connect, Approve(ByOwner), Deny(ByOwner), SetOnline, ExpireOfflineMember, snapshots | hub and HTTP handler, by calls |
| WebSocket hub `relay/internal/ws/hub.go` | current connection of each member and each pending join, offline timers; under `h.mu`; role of a connection under `c.mu` | ServeHTTP (register, read loop, unregister), handleEvent, handleJoinDecision, offline expiry, routing of messages | one goroutine per connection, timer callbacks; writes to other connections |
| HTTP server `relay/internal/httpapi/server.go` | none of its own | POST /channels/connect; health; installer | clients; calls registry and hub |
| Token manager `relay/internal/auth/tokens.go` | a secret | issue, verify | HTTP server, hub |
| Relay client `extension/src/client/relay-client.ts` | websocket, opening attempt, reconnect loop and timer, heartbeat timer, health check, three generation counters, waiters for responses, reply targets | connect, disconnect, reconnect, health check, requests | event loop callbacks; tool; relay |
| Intercom tool `extension/src/tools/intercom-tool.ts`, `extension/src/state/pending.ts` | pending asks, join requests, inbox | tool actions, handlers of relay events | host agent; client |
| Entry point, configuration, wire types, main, deployment | no protocol state | | |

What is hard in it:

* **Two locks, many goroutines.** A handler takes `h.mu`, releases it, takes
  `r.mu`, releases it, looks again. Between any two of these, another device
  connects, leaves, is approved or expires. Only one path (offline expiry)
  holds both.
* **Timers that cannot be taken back.** `Stop` does not recall a callback that
  waits for the lock.
* **Stale connections.** A device reconnects before its old connection has
  ended; both goroutines go on.
* **Promises in JavaScript.** connect, the reconnect loop, the heartbeat and
  tool actions interleave at every `await`; counters decide which of them is
  still wanted.
* **Half-open connections.** Nothing tells the client that its peer is gone.

What makes each part correct:

* registry: one owner, the most senior member online; a strict order of
  seniority; one standing per device; limits; a channel dies only when nobody
  is left online;
* hub: what it believes of connections and what the registry believes of
  members agree whenever nothing is under way; the owner hears of every device
  that waits; a request is decided once, and the decision reaches the connection
  that made it; every ownerless channel ends;
* client: one reconnect loop, no socket left behind, disconnect is final,
  a dead connection is found, a lost one comes back;
* requests: an operation is carried out at most once, and what the agent is told
  of it (done, refused, unknown) is true; it is sent in the channel it was meant
  for, no waiter outlives its websocket, and none waits for nothing;
* tool: what others ask of the agent stays before it until its answer is
  acknowledged, and it sees nothing pending that belongs to another channel.

The hazards behind these, each at its line, are in `PROJECT.json`.

## 2. Modules

    LiveRoom            what a channel promises
       ^ refines (TLC and TLAPS)
    Registry            registry.go       <- RegistryProofs, RoomProofs
       ^ EXTENDS; RelaySpec => Spec (TLAPS)
    Relay               hub.go, handleConnect   <- RelayProofs <- HubProofs <- DecisionProofs
    Client              relay-client.ts (connection)   <- ClientProofs

    Courier             what the agent may believe of an operation
       ^ refines (TLC and TLAPS)
    Tool                intercom-tool.ts, pending.ts, index.ts
       | EXTENDS                               <- ToolProofs <- CourierProofs
    Delivery            relay-client.ts (requests), hub.go (handleMessageSend)

`MCRegistry`, `MCRelay`, `MCClient` and `MCTool` are the modules TLC is started on.

### Registry

`channels`, `priority`, `online`, `pendingJoins`, `owner` and `joinSeq` are the
fields of `Registry` and `Channel`, indexed by the channel's key. A key stands
for a normalised name and a PIN. The channel ID is a function of the key, so a
channel that is deleted and created again is the same one to old tokens and
connections. A device with priority 0 is no member (the code's priorities start
at 1). Names are left out. Each exported operation holds `r.mu` throughout and
is one action; `Connect` has one action for each outcome that changes state. An
operation that returns an error is a stuttering step.

### LiveRoom

The abstract specification: rooms with guests that open, ask, are admitted or
refused, enter and leave. Instead of priorities it keeps the order of admission;
there are no request IDs. Its host is the present guest admitted first, and
`Close` needs that at most one guest, the one leaving, is present. `Registry!Room`
is the refinement mapping.

### Relay

Adds the hub and the connect handler. `conn[c]` is a connection object together
with where its goroutine is (`pc`, explained at the top of the module);
`memberConn`, `pendingConn` and `timer` are `h.members`, `h.pending` and
`h.offlineTimers`; `jobs` is what other goroutines have taken on: scheduling the
expiry of a new channel, closing pending sockets, telling a new owner.

An action is one critical section or one write to a peer. So `handleJoinDecision`
is `ReceiveDecision`, `DecideApprove`/`DecideDeny`/`DecisionFails`,
`LookUpPending`, `PromotePending`, `GoOnlinePromoted` or `PromotedIsGone` and
`RollBack`, then the announcements; `connectionCanSend` is split where it leaves
one lock and takes the other. `expireOfflineMember` is one action, because the
code holds both locks there. `knows` is what a connection has been sent: the
join requests; `overtaken` is a history variable that only `OwnerKnowsJoins`
reads: the connection was promoted when its device already owned the channel. A timer is armed; `due` counts callbacks that fired and wait for
`h.mu`; `loose` counts timers that are armed but were dropped from the table by
a late callback. Time is abstracted: an armed timer may fire at any moment.

Tokens are left out. `validateClaims` looks at the registry only, so a
connection is accepted exactly when the registry lists its member or request;
signature and expiry are outside.

### Client

An action is one event-loop callback or one continuation; callbacks wait while a
continuation is ready (`Idle`). `attempt` holds the activations of
`connectInternal`, each with its websocket; `loop` those of
`reconnectUntilOpen`; `check` those of `ensureHealthy`. The generation counters
are compared only with the value an activity started with, so each activity has
a flag `fresh`, cleared when a newer one begins. `sock[a] = "halfOpen"` is an
open websocket whose peer is gone. The close event of a socket from which the
client has taken its listeners is no action, as no handler runs.

`EarlyTimers` names an assumption about the platform: whether a `setTimeout` of
25 s can fire when `Date.now()` shows less than 25 s. See finding 4.

### Delivery

One device, its connection and the relay at the other end. `op[o]` is an
operation of the tool (send, ask, reply, approve, deny; list and status go the
same way): `checking` awaits the health check, `held` awaits what an outdated
check awaited, `ready` runs next, `waiting` has a response waiter; then it is
`ok`, `failed` or `unknown` (`delivery_unknown`, `decision_unknown`). `up[c]` and
`down[c]` are the two directions of a websocket, `acking[c]` is what the relay's
goroutine has carried out and not acknowledged yet. Nothing on a websocket is
reordered; what is written to a websocket that nobody reads is lost.

The connection is that of Client with less detail: `posting` and `opening` say
for whom the latest `connectInternal` awaits its POST or its websocket, `loop` is
the reconnect loop, `health` what the health check awaits. An outdated attempt or
loop does nothing but end, and only the operations that wait for it tell the
difference (`held`, and `loop = "ending"` for the loop whose promise survives
`disconnect`). The properties of these activities themselves are Client's.

`CarriesOut` is the successful write to the target or the registry's decision,
`Refuses` every error that comes back, `Acknowledges` the second write. `Refuses`
is one action for all error paths of the relay's handlers: that each of them ends with
`sendError` is read from the code and taken for granted by `WaiterWillHear`. The one
that does not, the silent close of `connectionCanSend`, is `Closes` at the client and
`Drops` at the relay. A write
that fails although the target received all of it is left out: the relay calls
it `target_unreachable`. `ReplyOvertakes` is the target's answer to an ask,
which its own goroutine in the relay may write before the acknowledgement.

### Tool

Adds what the tool keeps: `pending` is the two maps of `PendingState` with the
channel each entry came from, `channelName` is `context.channelName`. `heard`
says of a request that came whether it is "kept" or the user's connect or disconnect
has "cleared" it, and with the channel it came from is what the reply targets are
made of; `join` is
the relay's list of join requests. `joins` chooses, once, which requests are join
requests; the others are asks. `returning` marks the time between the opening of
the user's websocket and the continuation of `connect` in the tool; events may be
handled in between. A channel is a pair of name and PIN: the tool compares names,
the client and the relay see both. The device owns its channels, so the relay
announces join requests to it; their expiry with the channel is one of the
refusals.

### Courier

The abstract specification. An operation is carried out at most once; `ok` may be
reported when it has been, `failed` only when it has not and never will be;
`unknown` is always honest. `Tool!Promise` is the refinement mapping.

## 3. Runs

| run | instance | distinct states | shows |
|---|---|---|---|
| registry | 1 key, 4 devices (symmetric), 3 places, 2 requests at a time, 6 in all | 437 (up to symmetry) | type, election, seniority, standing, limits, ownership, no request comes back, `ImplementsLiveRoom` |
| relay | 2 devices, 2 connections, 1 request, 1 callback | 2 155 506 (up to symmetry) | hub and registry agree; owner is told; pending entries are served, and who waits has one; `OneDecisionPerRequest` |
| reconnect | 2 devices, 3 connections, 2 requests, no expiry | 691 130 (up to symmetry) | the owner is told although both sides supersede their connections; `PendingIsServed`; `DecisionMeetsItsRequest` |
| alone | 1 device, 3 connections, 2 callbacks, fair | 344 628 | an ownerless channel is owned again or ends |
| client | 3 attempts, 2 loops, 2 checks, fair | 17 478 | the client's safety and liveness; what a failed probe may close |
| tool | 2 operations, 2 websockets, 2 channels, 1 request | 1 960 534 | `ImplementsCourier`; waiters and what is under way for them, channels and pending state |
| disconnect, admitted, grace, client_early, client_compete | as above | | findings of section 5 |
| tool_channel | 1 operation, 1 name with 2 PINs | | a finding of section 5 |

**Bounds.** `MaxJoinSeq`, `MaxCallbacks`, the number of connections and the
slots of the client bound the state space. Their effect:

* Four devices for three places: the last place is contested, and a limit of two
  requests is reached while a third device asks. Six requests let every device
  ask again after a denial or a deletion. One key is enough for the registry:
  operations on different channels touch different entries and share only
  `joinSeq`.
* Two connections of two devices give every race of one device with another,
  and of a device with its own old connection while the other is away; the
  reconnect run has both at once. A connection object is reused only when
  nothing refers to it, so the bound does not hide a stale pointer.
* One callback under way is enough for a late callback, two for a loose timer
  (run alone, where `FireLoose` is taken).
* In the client, `RoomToConnect` stops the user from connecting while the model
  lacks free slots. No other action is ever blocked for want of a slot: this was
  checked by asserting that a slot is free wherever an action takes one, for
  these and for larger bounds (4 attempts, 3 loops, 3 checks).

Symmetry is used in safety runs only (registry, relay, reconnect and disconnect); the registry's temporal properties are a refinement and an action
property, both without fairness and invariant under renaming devices. Deadlock is
checked everywhere. In an idle relay a member may always post its connect request
again, which only redoes the election; a disconnected client may disconnect again.

* Two operations in Tool: one can repeat the other after its time-out, await the
  same check, or be answered on a connection while the other is under way. Two
  websockets: one the client's, one that the relay still works off. A websocket
  is used again only when neither side refers to it. One request of either kind:
  asks and join requests are kept apart by their IDs and never meet.
* Not a bound but a choice among equals: the first channel, the next free
  websocket and the next unused operation are taken in a fixed order.

**Mutants.** Each property has a seeded fault next to the definition it would
replace (comments say "Seeded fault"), listed under `mutants`.

## 4. Fairness

* Relay: weak fairness for what a goroutine does next (it is runnable, and
  writes have a deadline), for timers that run out and for callbacks and jobs.
  `RejectEvent` is fair because the extension's heartbeat sends an event on
  every connection each 25 s, and the relay then looks at it. Connecting, leaving
  and deciding are not fair: devices do as they like.
* Client: weak fairness for timers, continuations and ends of requests. Strong
  fairness for `FetchOk` and `SocketOpens` says that a relay which is asked again
  and again does answer; without it `ReconnectSucceeds` says nothing, as a relay
  that is down for good keeps the loop going for ever. So does
  `HealthCheckEnds`, for a check that awaits the loop. `HalfOpenIsDetected` needs
  only the timers and the probes' time-out. The run `client` takes
  `EarlyTimers = FALSE`: it shows detection under the assumption that a timer
  does not fire before its delay by the wall clock. The run `client_early`
  shows that the assumption is needed.

## 5. Findings

Each is a violation run: the code breaks a sentence of the repository's own
documents. Sources, lines and quotations are in `PROJECT.json`.

1. `disconnect`: a pending device that leaves between the look-up of its
   connection and its promotion is promoted all the same. The hub holds a dead
   connection, no grace runs, and the device is online for ever.
2. `admitted`: a pending device registers after the approval looked for it. It
   remains a pending connection of a member, is allowed to stay, and is not told.
3. `grace`: an expiry callback that `Stop` could not recall ends the grace of the
   next disconnect.
4. `client_early`: the heartbeat's timer and its staleness test use different
   clocks; when they disagree once, the heartbeat stops until the next event.
5. `client_compete`: a tool action during the user's connect starts a loop that
   replaces the healthy connection or cancels the connect.
6. `tool_channel`: the tool clears what is pending when the channel's name changes,
   not when its PIN does, and only if connect succeeds. With two names and one PIN
   the same run finds the second case: connect fails, and the reconnect loop of a
   tool action brings the device to the new channel.

## 6. What is proved

Every safety invariant, every action property and both refinements that the
passing runs check are also proved, for all values of the constants.

Assumptions. Registry and relay: `None` is no device and no connection,
`Devices` is finite, both limits are at least one (`SetLimits` ignores other
values), and `MaxJoinSeq` and `MaxCallbacks` are natural numbers. Client: `None` is
no attempt, loop or check, and the user is no loop (`ClientAssumption`). Tool: `MaxOps` is a natural number, `Requests` is finite
(the relay writes the waiting ones into a new connection one by one), and `None`
is no request, websocket, operation, name, channel or caller of `connectInternal`.
`MaxCallbacks` is in no theorem more than a natural number: what is proved of the
relay holds however many late callbacks are under way.

* `RegistryProofs`: `TypeCorrect`, `SeniorityCorrect`, `OwnerCorrect`,
  `AdmissionCorrect`, `LimitsCorrect`, `OwnerStable`, `RequestsDecidedOnce`. `OwnerIsMostSenior` is not
  inductive: an election gives the one most senior member only if priorities are
  distinct, and `nextPriority` keeps them distinct only if they are exactly 1..n
  for n members. It is 1..n because no operation removes one member: they go
  together with the channel. The inductive `Inv` is `TypeOK`,
  `SeniorityIsStrict`, `OwnerIsMostSenior`, `OneStandingPerDevice` and
  `WithinLimits`. There is a lemma for each operation; the operations that only
  redo an election share `ReelectionInv`, those that only change requests share
  `RequestsInv`. `OwnerStable` adds that no operation rewrites the priority of an
  online member. `RequestsDecidedOnce` rests on one fact of each operation: it adds
  no request to any list but one with the next number of `joinSeq`
  (`RequestsGrow`), whatever becomes of the channel and its key.
* `RoomProofs`: `RegistryImplementsRoom`. Under `Inv` each operation is one step
  of `LiveRoom` or leaves the mapped variables alone. An approval is `Admit`
  because the new priority is above all others; a denial is `Refuse` because the
  device had one request.
* `RelayProofs`: `RelayImplementsRegistry`. Every critical section of the relay is
  one operation of the registry, or none. From it `RelayOwnerCorrect` and
  `RelayAdmissionCorrect` carry the registry's facts over to all interleavings of
  goroutines and timers.
* `HubProofs`: `HubTypeCorrect`, `ConnectedMembersOnline`, `OwnersAreTold`. They
  speak of moments when nothing is under way, so none is inductive; `HubInv` says what holds in between. `Served`, `PendingServed`,
  `MemberServed` and `TargetServed` say that the hub's maps and a decision under
  way name a connection only under the key, device and join it was accepted with,
  which needs that two requests never have one number (`JoinsNumbered`).
  `OnlineOnceSetUp` says that a member is online from the moment its goroutine, or
  the one that admits it, has told the registry: the later steps that take a
  device offline look for its connection in the same critical section.
  `ToldOrWillBe` says that the owner's connection knows a join or that somebody is
  about to tell it: its own goroutine, an announcement, or a job of another one.
  The attempt to prove it without an exception failed for a good reason: with
  three devices and four connections a requester may come back as a member, and
  become the owner, between the look-up of its older connection and the promotion
  of that connection; the promotion then displaces the owner's connection without
  a change of owner, and nobody repeats the requests made meanwhile. That is
  `overtaken`, a hazard of `PROJECT.json`; the instances of section 3 are too small
  for it, and the theorem shows that there is no other exception.
* `DecisionProofs`: `DecisionsAreSingle`, `DecisionsMeetTheirRequests`,
  `RelayDecidesOnce`, `PendingServedCorrect`. `OneDecisionPerRequest` is not inductive: a goroutine that
  takes a decision must know that none of those already carrying one out has this
  request. The strengthening is `AnsweredIsGone`: a request that is being answered
  is off the list and numbered no higher than `joinSeq`. It stays off the list by
  `RequestsDecidedOnce`, and a decision finds its request on the list.
  `DecisionMeetsItsRequest` follows from `TargetServed` of `HubInv`: the look-up
  took the connection out of the entry of that request, a promotion takes the entry
  away, and a connection that is replaced or used again is gone first.
  `PendingIsServed` has two directions. That an entry is a served connection of its
  join is `PendingServed` of `HubInv`. That a waiting connection has its entry is
  `WaitingAreListed`: an open pending connection whose request is on the list is the
  entry of its join unless a newer one, still in `register`, has displaced it. An entry
  goes with its own connection only (`unregister` and `removePending` compare), or is
  taken by a promotion or a refusal, and then `AnsweredIsGone` says that the request
  is off the list and nobody waits for it.
* `ClientProofs`: `ClientTypeCorrect`, `NoSocketIsLeft`, `OneReconnect`,
  `ProbesAreOnOpenSocket`, `NewSocketsAreSpared`, `OpenSocketsAreWatched`,
  `DisconnectStays`, for any
  number of attempts, loops and checks. Of each kind of activity at most one is
  wanted, and the field that the code keeps for it names that one; the inductive
  `IInv` adds how activities await one another (an attempt that a loop made is
  the only one the loop awaits, a check that recovers awaits the loop whose promise
  is handed out), that the websocket that opens belongs to the attempt whose
  rejection is kept, and that there is no websocket after `disconnect`.
  `OpenSocketsAreWatched` has the hypothesis `~EarlyTimers`, as the run has; finding 4
  shows that it is needed. `DisconnectStays` follows from the last of
  these and from who may reset `explicitDisconnect`: the user's connect alone.
  `NewSocketsAreSpared` needs more, because the catch clause of a failed probe closes
  whatever websocket is current and `openSocket` rejects probes just before it makes
  a new one. The strengthening is `Spared`: while the user's connect waits for its
  POST there is no websocket to probe, and a loop that may meet a websocket which is
  not its own was asked for by a check (`LoopIsFollowed`). As `healthCheckPromise` is
  handed out while that check awaits the loop, no other check probes. So no probe
  waits when an attempt makes its websocket (`ProbeMeetsNoAttempt`).
* `ToolProofs`: `WaitersCorrect` and `ChannelKept`. `OperationKeepsChannel` is not
  inductive. It is promised to every operation but the late ones: an operation that
  is held until the POST of an outdated loop ends (`HeldRuns`) is sent in whatever
  channel is current by then, and neither the run nor the theorem says otherwise. An
  operation is sent in `channelId`, was issued for
  `lastConnectArgs`, and in between it awaits a check. The inductive `IInv` adds
  that an operation that awaits a check was issued for the present
  `lastConnectArgs` (connect lets everyone go when it changes them), that a
  websocket is one of `lastConnectArgs`, and that an operation that is ready while
  a websocket is open was issued for it: it runs before any callback could bring
  another. Every way to lose the websocket rejects the waiters in the same step
  (`EveryoneLeaves`, `WaitersLeave`, `PostedInv`), but for a websocket that has not
  opened, and that one has none (`OpenFailsInv`).
* `CourierProofs`: `ToolTypeCorrect`, `NothingMissed`, `WaitersWillHear`,
  `DeliveryImplementsCourier`.
  `CourierInv` has three parts. `Typed` adds to `IInv` the types and that before the
  first connect there is nothing, so that what comes on a websocket comes from
  a channel. `Kept` says that an operation is in one place: asked for by at most
  one event on all websockets together (`UpOnce`), and then neither carried out
  nor refused (`UpFresh`); acknowledgements under way tell of what is done, errors
  of what is not done and not under way any more (`EventsAreTrue`). Steps at which
  nobody is sent, carried out, refused or answered are handled once, by `QuietStep`;
  the others have a lemma each. `Noted` is `NothingIsMissed` by another name of its
  parts: what was kept is pending or answered. No loss of a connection touches it; a
  disconnect, and a connect to another name that returns, clear it as a whole and say
  so in `heard` (`Cleared`), requests of the new channel that came early included. A step is then one of Courier's
  (`Report`, or `CarryOut` for `CarriesOut`). `WaiterWillHear` is inductive together
  with `CourierInv`: that a waiter is on the websocket in use makes every loss of
  that websocket harmless, quiet steps only add to what is under way (`QuietHears`),
  and what the relay takes from `up` it puts into `acking` or `down` in the same
  step (`RelayHears`).

Only model-checked: liveness (`OwnerlessChannelEnds`, `HalfOpenIsDetected`,
`ReconnectSucceeds`, `HealthCheckEnds`), which the prover cannot reason about
under fairness. TLC also checked the parts of `HubInv` and `CourierInv` as invariants
of the instances of runs relay, reconnect and tool before they were proved, and `AnsweredIsGone` in those of
relay and reconnect.

## 7. What is not modelled, and why

`OwnerlessChannelEnds` is claimed for one device, where nobody is promoted: with
two, a channel that expires and is created again while one goroutine rolls a
promotion back (hub.go, 350 to 353) has nothing that would end it.
`NothingIsMissed` excepts what the user clears, by `disconnect` or by a connect to
a channel of another name, and with it what the new channel's websocket delivers
before that connect returns; `OperationKeepsChannel` excepts what an outdated POST of
the loop held. Both are listed as hazards. `OwnerKnowsJoins` excepts an owner's connection
that was promoted when its device already owned the channel (section 6).
`MaxCallbacks` bounds what TLC explores and is no part of the type.

`promotePending` sets `c.role` after it has released `h.mu`; the model sets it in the
same step. In between `isMember` says no and `connectionCanSend` lets the connection
send all the same, as its device is a member and it is the current connection. The
goroutine of a connection that is promoted between its `register` and its first reads
of `c.role` reads it without the lock; the model has the value from before or after.
`LiveRoom!Close` lets one guest who is still present leave with the room, as the
registry takes a device offline and deletes the channel in one operation.
`ProbeHasSocket` says only that whoever loses the websocket rejects its probes; that a
rejected probe then closes no websocket that came since is `ProbeSparesNewSocket`.

Broadcasts are sent by no action of the tool. The inbox only grows until it is
cleared, and nothing is decided from it. Which of several targets of one name gets
a message is data. Validation of the tool's inputs changes no state. Tokens, configuration, the HTTP
server's pages, the entry point, main and deployment hold no protocol state.
Owner and presence broadcasts change nothing in the relay. Lengths of delays,
back-off and payloads are abstracted. `joinSeq` is a `uint64`; a wrap after 2^64
requests is out of reach and not modelled.

## 8. Plan

Done: Registry with LiveRoom, Relay, Client, Delivery, Tool with Courier; their
runs; the proofs of section 6.

1. `Intercom`: devices with an abstract client (connected, waiting, away) against
   Relay, with restarts of the relay, denied devices that ask again, and the order
   of owner.changed events.
2. Properties for the hazards that have only a note in `PROJECT.json`.
