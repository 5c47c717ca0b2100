----------------------------- MODULE HubProofs ------------------------------
(***************************************************************************)
(* The hub's own invariants, for all devices, connections and channels.    *)
(*                                                                         *)
(* None is inductive.  What the hub's maps say of a connection is true     *)
(* because register, promotePending, removeMember and unregister move a    *)
(* connection only under the key, device and join it was accepted with:    *)
(* Served, PendingServed, MemberServed and TargetServed.  A connected      *)
(* member is online from the moment its goroutine, or that of the decision *)
(* that admits it, has told the registry: OnlineOnceSetUp.  And the owner  *)
(* hears of a join because, at any moment, it has or somebody is about to  *)
(* tell it: ToldOrWillBe.                                                  *)
(***************************************************************************)
EXTENDS RelayProofs

\* A connection whose goroutine has let the registry know of it.
SetUp == Pcs \ {"gone", "accepted", "registered", "leaving"}

Connections ==
  [pc : Pcs, key : Keys \cup {None}, device : Devices \cup {None},
   role : {"member", "pending", None}, join : Joins \cup {NoJoin},
   open : BOOLEAN, prev : Conns \cup {None}, tell : SUBSET Joins,
   tellTo : Devices \cup {None}, knows : SUBSET Joins,
   answering : Joins \cup {NoJoin}, target : Conns \cup {None}, overtaken : BOOLEAN]

Jobs == [task : {"schedule", "closePending", "tell"}, key : Keys,
         device : Devices, joins : SUBSET Joins]

Timers == [armed : {"no", "created", "left"}, loose : Nat, due : Nat]

\* RelayTypeOK without the registry's types.
HubTyped ==
  /\ conn \in [Conns -> Connections]
  /\ memberConn \in [Keys -> [Devices -> Conns \cup {None}]]
  /\ pendingConn \in [Keys -> [Joins -> Conns \cup {None}]]
  /\ timer \in [Keys -> [Devices -> Timers]]
  /\ jobs \subseteq Jobs

\* A connection that is served is that of a device in a channel; one that answers
\* a join knows which, and from the look-up on also the connection.
ServedRightly(x) ==
  /\ x.pc \in {"promoting", "refusing", "promoted", "rollback", "announcing"} \/ x.target = None
  /\ x.pc # "gone" =>
       /\ x.key \in Keys /\ x.device \in Devices /\ x.role \in {"member", "pending"}
       /\ x.role = "pending" => x.join # NoJoin
       /\ x.join # NoJoin => x.join.device = x.device /\ x.join.seq <= joinSeq
       /\ x.pc \in {"approved", "denied", "promoting", "refusing", "promoted", "rollback"} =>
            x.answering # NoJoin
       /\ x.pc \in {"promoting", "refusing", "promoted", "rollback"} => x.target # None

Served == \A c \in Conns : ServedRightly(conn[c])

\* Requests are numbered in the order in which they were made.
JoinsNumbered == \A k \in Keys : \A j \in pendingJoins[k] : j.seq <= joinSeq

\* The hub's entry of a join is a connection that waits for it: it is being served
\* and was neither promoted nor not yet registered.
PendingServed ==
  \A k \in Keys, j \in Joins, p \in Conns :
    pendingConn[k][j] = p =>
      /\ conn[p].pc \notin {"gone", "accepted"} /\ conn[p].role = "pending"
      /\ conn[p].key = k /\ conn[p].join = j

\* The connection of a member is its own, unless it ended before it was promoted.
MemberServed ==
  \A k \in Keys, d \in Devices, c \in Conns :
    memberConn[k][d] = c /\ conn[c].pc # "gone" =>
      /\ conn[c].pc # "accepted" /\ conn[c].role = "member"
      /\ conn[c].key = k /\ conn[c].device = d

\* A decision is carried out on a connection of the join it is about.
TargetServed ==
  \A e, t \in Conns :
    conn[e].target = t /\ conn[t].pc # "gone" =>
      /\ conn[t].pc # "accepted"
      /\ conn[t].key = conn[e].key /\ conn[t].join = conn[e].answering

\* No decision is under way that would yet put c online, or take it away again.
Decided(c) == \A e \in Conns : conn[e].target = c => conn[e].pc = "announcing"

OnlineOnceSetUp ==
  \A k \in Keys, d \in Devices, c \in Conns :
    memberConn[k][d] = c /\ conn[c].pc \in SetUp /\ conn[c].open /\ Decided(c) =>
      d \in online[k]

\* Somebody is about to tell the owner d of channel k, on connection c, of join j.
WillBeTold(k, d, c, j) ==
  \/ conn[c].pc = "registered"
  \/ \E e \in Conns : /\ conn[e].pc = "announcing" /\ conn[e].key = k
                      /\ conn[e].tellTo = d /\ j \in conn[e].tell
  \/ \E job \in jobs : /\ job.task = "tell" /\ job.key = k
                       /\ job.device = d /\ j \in job.joins

ToldOrWillBe ==
  \A k \in Keys, d \in Devices, j \in Joins, c, p \in Conns :
    /\ owner[k] = d /\ j \in pendingJoins[k]
    /\ memberConn[k][d] = c /\ conn[c].pc # "gone" /\ ~conn[c].overtaken
    /\ pendingConn[k][j] = p /\ conn[p].pc # "registered"
    => j \in conn[c].knows \/ WillBeTold(k, d, c, j)

HubInv ==
  /\ Inv /\ HubTyped
  /\ Served /\ JoinsNumbered
  /\ PendingServed /\ MemberServed /\ TargetServed
  /\ OnlineOnceSetUp /\ ToldOrWillBe

-----------------------------------------------------------------------------
(* What others do to a connection, and the frame that most steps leave     *)

\* Others close a connection or write to it, and change nothing else of it.
Touched(x, y) ==
  /\ y.pc = x.pc /\ y.key = x.key /\ y.device = x.device /\ y.role = x.role
  /\ y.join = x.join /\ y.prev = x.prev /\ y.tell = x.tell /\ y.tellTo = x.tellTo
  /\ y.answering = x.answering /\ y.target = x.target /\ y.overtaken = x.overtaken
  /\ y.open => x.open
  /\ x.knows \subseteq y.knows

\* A connection that is closed, or moves to another place of its loop, is still one.
LEMMA ClosedIsConnection ==
  ASSUME NEW x \in Connections, NEW b \in BOOLEAN
  PROVE  [x EXCEPT !.open = b] \in Connections
BY DEF Connections

LEMMA MovedIsConnection ==
  ASSUME NEW x \in Connections, NEW pc \in Pcs
  PROVE  [x EXCEPT !.pc = pc] \in Connections
BY DEF Connections

\* A connection that is closed, if there is one, is touched, and so are the others.
LEMMA ClosingTouches ==
  ASSUME NEW cs \in [Conns -> Connections], NEW c \in Conns \cup {None}
  PROVE  /\ Closing(cs, c) \in [Conns -> Connections]
         /\ \A x \in Conns : Touched(cs[x], Closing(cs, c)[x])
<1>1. CASE c = None
  BY <1>1 DEF Closing, Touched
<1>2. CASE c \in Conns /\ c # None
  <2>1. Closing(cs, c) = [cs EXCEPT ![c] = [cs[c] EXCEPT !.open = FALSE]]
    BY <1>2 DEF Closing
  <2>2. [cs[c] EXCEPT !.open = FALSE] \in Connections
    BY <1>2, ClosedIsConnection
  <2>3. Touched(cs[c], [cs[c] EXCEPT !.open = FALSE])
    BY <1>2 DEF Connections, Touched
  <2>4. \A x \in Conns : Touched(cs[x], cs[x])
    BY DEF Touched
  <2>5. QED BY <1>2, <2>1, <2>2, <2>3, <2>4
<1>3. QED BY <1>1, <1>2

\* So is one that is told of a join, and it knows of it then.
LEMMA TellingTouches ==
  ASSUME NEW cs \in [Conns -> Connections], NEW c \in Conns \cup {None}, NEW j \in Joins
  PROVE  /\ Telling(cs, c, j) \in [Conns -> Connections]
         /\ \A x \in Conns : Touched(cs[x], Telling(cs, c, j)[x])
         /\ c # None => j \in Telling(cs, c, j)[c].knows
<1>1. CASE c = None
  BY <1>1 DEF Telling, Touched
<1>2. CASE c \in Conns /\ c # None
  <2> DEFINE y == [cs[c] EXCEPT !.knows = @ \cup {j}]
  <2>1. Telling(cs, c, j) = [cs EXCEPT ![c] = y]
    BY <1>2 DEF Telling
  <2>2. y \in Connections
    BY <1>2 DEF Connections
  <2>3. Touched(cs[c], y) /\ j \in y.knows
    BY <1>2 DEF Connections, Touched
  <2>4. \A x \in Conns : Touched(cs[x], cs[x])
    BY DEF Touched
  <2>5. QED BY <1>2, <2>1, <2>2, <2>3, <2>4
<1>3. QED BY <1>1, <1>2

\* A step within a connection's time in the registry: whose it is stays, and it is
\* neither opened nor made to forget.
Goes(x, y) ==
  /\ y.key = x.key /\ y.device = x.device /\ y.role = x.role /\ y.join = x.join
  /\ y.overtaken = x.overtaken
  /\ y.open => x.open
  /\ x.knows \subseteq y.knows
  /\ y.pc = x.pc \/ {x.pc, y.pc} \subseteq SetUp

\* No device comes or goes, no owner changes and nobody asks to join.
Calm ==
  /\ owner' = owner /\ online' = online /\ joinSeq' = joinSeq
  /\ \A k \in Keys : pendingJoins'[k] \subseteq pendingJoins[k]

\* The hub's maps lose entries at most.
Shrinks ==
  \A k \in Keys : /\ \A d \in Devices : memberConn'[k][d] \in {memberConn[k][d], None}
                  /\ \A j \in Joins : pendingConn'[k][j] \in {pendingConn[k][j], None}

TargetsKept ==
  \A e \in Conns : \/ conn'[e].target = None
                   \/ /\ conn'[e].target = conn[e].target
                      /\ conn'[e].answering = conn[e].answering

\* Whichever member's connection nobody decides about now, was not decided about.
DecidedKept ==
  \A k \in Keys, d \in Devices, c \in Conns :
    memberConn'[k][d] = c /\ conn'[c].pc # "gone" /\ conn'[c].open /\ Decided(c)' =>
      Decided(c)

\* What was about to be told is told, or still about to be.
TellsGoOn ==
  \A k \in Keys, d \in Devices, c \in Conns, j \in Joins :
    memberConn[k][d] = c /\ WillBeTold(k, d, c, j) =>
      j \in conn'[c].knows \/ WillBeTold(k, d, c, j)'

\* Most steps leave that frame; what they must see to themselves is the rest.
LEMMA FrameKeeps ==
  ASSUME HubInv, Inv', HubTyped', Calm, Shrinks,
         \A c \in Conns : Goes(conn[c], conn'[c]),
         Served', TargetServed', DecidedKept, TellsGoOn
  PROVE  HubInv'
<1>1. JoinsNumbered'
  BY DEF HubInv, JoinsNumbered, Calm
<1>2. PendingServed'
  <2> SUFFICES ASSUME NEW k \in Keys, NEW j \in Joins, NEW p \in Conns, pendingConn'[k][j] = p
               PROVE  /\ conn'[p].pc \notin {"gone", "accepted"} /\ conn'[p].role = "pending"
                      /\ conn'[p].key = k /\ conn'[p].join = j
    BY DEF PendingServed
  <2>1. pendingConn[k][j] = p
    BY ConnsAssumption DEF Shrinks
  <2>2. /\ conn[p].pc \notin {"gone", "accepted"} /\ conn[p].role = "pending"
        /\ conn[p].key = k /\ conn[p].join = j
    BY <2>1 DEF HubInv, PendingServed
  <2>3. QED BY <2>2 DEF Goes, SetUp
<1>3. MemberServed'
  <2> SUFFICES ASSUME NEW k \in Keys, NEW d \in Devices, NEW c \in Conns,
                      memberConn'[k][d] = c, conn'[c].pc # "gone"
               PROVE  /\ conn'[c].pc # "accepted" /\ conn'[c].role = "member"
                      /\ conn'[c].key = k /\ conn'[c].device = d
    BY DEF MemberServed
  <2>1. memberConn[k][d] = c /\ conn[c].pc # "gone"
    BY ConnsAssumption DEF Shrinks, Goes, SetUp
  <2>2. /\ conn[c].pc # "accepted" /\ conn[c].role = "member"
        /\ conn[c].key = k /\ conn[c].device = d
    BY <2>1 DEF HubInv, MemberServed
  <2>3. QED BY <2>2 DEF Goes, SetUp
<1>4. OnlineOnceSetUp'
  <2> SUFFICES ASSUME NEW k \in Keys, NEW d \in Devices, NEW c \in Conns,
                      memberConn'[k][d] = c, conn'[c].pc \in SetUp, conn'[c].open,
                      Decided(c)'
               PROVE  d \in online'[k]
    BY DEF OnlineOnceSetUp
  <2>1. memberConn[k][d] = c
    BY ConnsAssumption DEF Shrinks
  <2>2. conn[c].pc \in SetUp /\ conn[c].open
    BY DEF Goes
  <2>3. Decided(c)
    BY DEF DecidedKept, SetUp
  <2>4. QED BY <2>1, <2>2, <2>3 DEF HubInv, OnlineOnceSetUp, Calm
<1>5. ToldOrWillBe'
  <2> SUFFICES ASSUME NEW k \in Keys, NEW d \in Devices, NEW j \in Joins,
                      NEW c \in Conns, NEW p \in Conns,
                      owner'[k] = d, j \in pendingJoins'[k],
                      memberConn'[k][d] = c, conn'[c].pc # "gone", ~conn'[c].overtaken,
                      pendingConn'[k][j] = p, conn'[p].pc # "registered"
               PROVE  j \in conn'[c].knows \/ WillBeTold(k, d, c, j)'
    BY DEF ToldOrWillBe
  <2>1. memberConn[k][d] = c /\ pendingConn[k][j] = p
    BY ConnsAssumption DEF Shrinks
  <2>2. owner[k] = d /\ j \in pendingJoins[k]
    BY DEF Calm
  <2>3. conn[c].pc # "gone" /\ ~conn[c].overtaken /\ conn[p].pc # "registered"
    BY DEF Goes, SetUp
  <2>4. j \in conn[c].knows \/ WillBeTold(k, d, c, j)
    BY <2>1, <2>2, <2>3 DEF HubInv, ToldOrWillBe
  <2>5. j \in conn[c].knows => j \in conn'[c].knows
    BY DEF Goes
  <2>6. QED BY <2>1, <2>4, <2>5 DEF TellsGoOn
<1>6. QED BY <1>1, <1>2, <1>3, <1>4, <1>5 DEF HubInv

\* No decision ends but by announcing what it decided.
LEMMA DecisionsGoOn ==
  ASSUME \A e \in Conns : conn[e].target \in Conns /\ conn[e].pc # "announcing" =>
                            conn'[e].target = conn[e].target /\ conn'[e].pc # "announcing"
  PROVE  DecidedKept
BY DEF DecidedKept, Decided

\* Who has joins to tell of goes on, and no connection is less registered.
LEMMA TellersGoOn ==
  ASSUME \A e \in Conns : conn[e].pc = "announcing" /\ conn[e].tell # {} =>
           /\ conn'[e].pc = "announcing" /\ conn'[e].key = conn[e].key
           /\ conn'[e].tell = conn[e].tell /\ conn'[e].tellTo = conn[e].tellTo,
         \A e \in Conns : conn[e].pc = "registered" => conn'[e].pc = "registered",
         \A job \in jobs : job.task = "tell" => job \in jobs'
  PROVE  TellsGoOn
<1> SUFFICES ASSUME NEW k \in Keys, NEW d \in Devices, NEW c \in Conns, NEW j \in Joins,
                    WillBeTold(k, d, c, j)
             PROVE  WillBeTold(k, d, c, j)'
  BY DEF TellsGoOn
<1>1. CASE conn[c].pc = "registered"
  BY <1>1 DEF WillBeTold
<1>2. ASSUME NEW e \in Conns, conn[e].pc = "announcing", conn[e].key = k,
             conn[e].tellTo = d, j \in conn[e].tell
      PROVE  WillBeTold(k, d, c, j)'
  BY <1>2 DEF WillBeTold
<1>3. ASSUME NEW job \in jobs, job.task = "tell", job.key = k, job.device = d, j \in job.joins
      PROVE  WillBeTold(k, d, c, j)'
  BY <1>3 DEF WillBeTold
<1>4. QED BY <1>1, <1>2, <1>3 DEF WillBeTold

\* The goroutine of c moves on: c becomes y, and the others are touched at most.
LEMMA MoveKeeps ==
  ASSUME HubInv, Inv', HubTyped', Calm, Shrinks, NEW c \in Conns, NEW y,
         \A x \in Conns \ {c} : Touched(conn[x], conn'[x]),
         conn'[c] = y, Goes(conn[c], y), conn[c].pc \in SetUp, ServedRightly(y),
         \A t \in Conns : y.target = t =>
           \/ conn[c].target = t /\ y.answering = conn[c].answering
           \/ y.answering \in Joins /\ pendingConn[y.key][y.answering] = t,
         DecidedKept, TellsGoOn
  PROVE  HubInv'
<1>1. \A x \in Conns : Goes(conn[x], conn'[x])
  BY DEF Touched, Goes
<1>2. Served'
  <2>1. \A x \in Conns : ServedRightly(conn[x])
    BY DEF HubInv, Served
  <2>2. ASSUME NEW x \in Conns PROVE ServedRightly(conn[x])'
    <3>1. CASE x = c
      BY <3>1 DEF ServedRightly, Calm
    <3>2. CASE x # c
      BY <2>1, <3>2 DEF ServedRightly, Touched, Calm
    <3>3. QED BY <3>1, <3>2
  <2>3. QED BY <2>2 DEF Served
<1>3. TargetServed'
  <2> SUFFICES ASSUME NEW e \in Conns, NEW t \in Conns,
                      conn'[e].target = t, conn'[t].pc # "gone"
               PROVE  /\ conn'[t].pc # "accepted"
                      /\ conn'[t].key = conn'[e].key /\ conn'[t].join = conn'[e].answering
    BY DEF TargetServed
  <2>1. conn[t].pc # "gone" /\ conn'[t].key = conn[t].key /\ conn'[t].join = conn[t].join
    BY <1>1 DEF Goes, SetUp
  <2>2. conn'[e].key = conn[e].key /\ (conn'[t].pc = "accepted" => conn[t].pc = "accepted")
    BY <1>1 DEF Goes, SetUp
  <2>3. CASE conn[e].target = t /\ conn'[e].answering = conn[e].answering
    BY <2>1, <2>2, <2>3 DEF HubInv, TargetServed
  <2>4. CASE e = c /\ y.answering \in Joins /\ pendingConn[y.key][y.answering] = t
    <3>1. y.key \in Keys
      BY DEF ServedRightly, Goes, SetUp
    <3>2. QED BY <2>1, <2>2, <2>4, <3>1 DEF HubInv, PendingServed
  <2>5. CASE e # c
    BY <2>3, <2>5 DEF Touched
  <2>6. QED BY <2>3, <2>4, <2>5
<1>4. QED BY <1>1, <1>2, <1>3, FrameKeeps

-----------------------------------------------------------------------------
(* The steps of a goroutine within that frame                              *)

\* The types that a step of one connection leaves as they are.
LEMMA OthersTyped ==
  ASSUME HubTyped, conn' \in [Conns -> Connections],
         UNCHANGED <<memberConn, pendingConn, timer, jobs>>
  PROVE  HubTyped'
BY DEF HubTyped

\* The registry's part of the invariant stays when the registry does.
LEMMA RegistryKept ==
  ASSUME Inv, UNCHANGED registryVars
  PROVE  Inv' /\ Calm
<1>1. Inv'
  BY NextInv
<1>2. Calm
  BY DEF Calm, registryVars
<1>3. QED BY <1>1, <1>2

\* What is known of a connection that is served.
LEMMA ServedIs ==
  ASSUME HubInv, NEW c \in Conns, conn[c].pc # "gone"
  PROVE  /\ conn[c] \in Connections /\ conn \in [Conns -> Connections]
         /\ conn[c].key \in Keys /\ conn[c].device \in Devices
         /\ conn[c].answering \in Joins \cup {NoJoin} /\ conn[c].prev \in Conns \cup {None}
         /\ conn[c].target \in Conns \cup {None} /\ conn[c].tellTo \in Devices \cup {None}
         /\ ServedRightly(conn[c])
<1>1. conn \in [Conns -> Connections] /\ ServedRightly(conn[c])
  BY DEF HubInv, HubTyped, Served
<1>2. conn[c] \in Connections
  BY <1>1
<1>3. conn[c].key \in Keys /\ conn[c].device \in Devices
  BY <1>1 DEF ServedRightly
<1>4. QED BY <1>1, <1>2, <1>3 DEF Connections

\* A step of the read loop that only moves the goroutine from one place in it to
\* another, and may close the connection.
LEMMA ReadsOnInv ==
  ASSUME HubInv, NEW c \in Conns, NEW pc \in {"reading", "checking", "deciding"},
         NEW open \in BOOLEAN, open => conn[c].open,
         conn[c].pc \in {"reading", "checking", "deciding"},
         conn' = [conn EXCEPT ![c] = [conn[c] EXCEPT !.pc = pc, !.open = open]],
         Shrinks, UNCHANGED <<registryVars, timer, jobs>>,
         memberConn' = memberConn,
         pendingConn' \in [Keys -> [Joins -> Conns \cup {None}]]
  PROVE  HubInv'
<1> DEFINE y == [conn[c] EXCEPT !.pc = pc, !.open = open]
<1>1. conn[c] \in Connections /\ conn \in [Conns -> Connections] /\ ServedRightly(conn[c])
  BY ServedIs
<1>2. y \in Connections
  <2>1. pc \in Pcs
    BY DEF Pcs
  <2>2. [conn[c] EXCEPT !.pc = pc] \in Connections
    BY <1>1, <2>1, MovedIsConnection
  <2>3. [[conn[c] EXCEPT !.pc = pc] EXCEPT !.open = open] \in Connections
    BY <2>2, ClosedIsConnection
  <2>4. QED BY <2>3
<1>3. /\ y.pc = pc /\ y.key = conn[c].key /\ y.device = conn[c].device
      /\ y.role = conn[c].role /\ y.join = conn[c].join /\ y.target = conn[c].target
      /\ y.answering = conn[c].answering /\ y.overtaken = conn[c].overtaken
      /\ y.knows = conn[c].knows /\ y.open = open
  BY <1>1 DEF Connections
<1>4. conn'[c] = y /\ \A x \in Conns \ {c} : conn'[x] = conn[x]
  BY <1>1
<1>5. \A x \in Conns \ {c} : Touched(conn[x], conn'[x])
  BY <1>4 DEF Touched
<1>6. HubTyped'
  BY <1>1, <1>2 DEF HubInv, HubTyped
<1>7. Goes(conn[c], y) /\ conn[c].pc \in SetUp
  BY <1>3 DEF Goes, SetUp, Pcs
<1>8. ServedRightly(y)
  BY <1>1, <1>3 DEF ServedRightly
<1>9. DecidedKept
  BY <1>3, <1>4, DecisionsGoOn
<1>10. TellsGoOn
  BY <1>3, <1>4, TellersGoOn
<1> HIDE DEF y
<1>11. QED BY <1>3, <1>4, <1>5, <1>6, <1>7, <1>8, <1>9, <1>10, MoveKeeps, RegistryKept DEF HubInv

\* Its steps: an event that is rejected, one of a pending device that is looked at
\* twice, a decision that comes in or fails.
LEMMA ReadLoopInv ==
  ASSUME HubInv, NEW c \in Conns,
         \/ RejectEvent(c) \/ CheckPending(c) \/ EndCheck(c)
         \/ ReceiveDecision(c) \/ DecisionFails(c)
  PROVE  HubInv'
<1>1. conn[c].pc \in {"reading", "checking", "deciding"}
  BY DEF RejectEvent, CheckPending, EndCheck, ReceiveDecision, DecisionFails
<1>2. conn[c] \in Connections /\ conn \in [Conns -> Connections]
      /\ conn[c].key \in Keys /\ ServedRightly(conn[c])
  BY <1>1, ServedIs
<1>3. conn[c].open \in BOOLEAN
  BY <1>2 DEF Connections
<1>4. PICK pc \in {"reading", "checking", "deciding"}, open \in BOOLEAN :
        /\ open => conn[c].open
        /\ conn' = [conn EXCEPT ![c] = [conn[c] EXCEPT !.pc = pc, !.open = open]]
  <2>1. CASE RejectEvent(c)
    <3>1. conn' = [conn EXCEPT ![c] = [conn[c] EXCEPT !.pc = "reading", !.open = FALSE]]
      BY <1>2, <2>1 DEF RejectEvent, Connections
    <3>2. QED BY <3>1
  <2>2. CASE CheckPending(c)
    <3>1. conn' = [conn EXCEPT ![c] = [conn[c] EXCEPT !.pc = "checking", !.open = conn[c].open]]
      BY <1>2, <2>2 DEF CheckPending, Connections
    <3>2. QED BY <1>3, <3>1
  <2>3. CASE EndCheck(c)
    <3>1. conn' = [conn EXCEPT ![c] = [conn[c] EXCEPT !.pc = "reading",
                                          !.open = conn[c].open /\ IsCurrentPending(c)]]
      BY <1>2, <2>3 DEF EndCheck, Connections
    <3>2. QED BY <1>3, <3>1 DEF IsCurrentPending
  <2>4. CASE ReceiveDecision(c)
    <3>1. conn' = [conn EXCEPT ![c] = [conn[c] EXCEPT !.pc = "deciding", !.open = conn[c].open]]
      BY <1>2, <2>4 DEF ReceiveDecision, Connections
    <3>2. QED BY <1>3, <3>1
  <2>5. CASE DecisionFails(c)
    <3>1. conn' = [conn EXCEPT ![c] = [conn[c] EXCEPT !.pc = "reading", !.open = conn[c].open]]
      BY <1>2, <2>5 DEF DecisionFails, Connections
    <3>2. QED BY <1>3, <3>1
  <2>6. QED BY <2>1, <2>2, <2>3, <2>4, <2>5
<1>5. UNCHANGED <<registryVars, memberConn, timer, jobs>>
  BY DEF RejectEvent, CheckPending, EndCheck, ReceiveDecision, DecisionFails
<1>6. /\ pendingConn' \in [Keys -> [Joins -> Conns \cup {None}]]
      /\ \A k \in Keys, j \in Joins : pendingConn'[k][j] \in {pendingConn[k][j], None}
  <2>1. pendingConn \in [Keys -> [Joins -> Conns \cup {None}]]
    BY DEF HubInv, HubTyped
  <2>2. CASE pendingConn' = pendingConn
    BY <2>1, <2>2
  <2>3. CASE /\ IsCurrentPending(c)
             /\ pendingConn' = [pendingConn EXCEPT ![conn[c].key][conn[c].join] = None]
    BY <1>2, <2>1, <2>3
  <2>4. QED BY <2>2, <2>3 DEF RejectEvent, CheckPending, EndCheck, ReceiveDecision, DecisionFails
<1>7. Shrinks
  BY <1>5, <1>6 DEF Shrinks
<1>8. QED BY <1>1, <1>4, <1>5, <1>6, <1>7, ReadsOnInv

\* Steps after which the maps are what they were.
LEMMA NothingShrinks ==
  ASSUME UNCHANGED <<memberConn, pendingConn>>
  PROVE  Shrinks
BY DEF Shrinks

\* One join is told: it is off the list, and on what the owner's connection knows.
LEMMA TellOwnerInv ==
  ASSUME HubInv, NEW c \in Conns, NEW j \in Joins, TellOwner(c, j)
  PROVE  HubInv'
<1> DEFINE k == conn[c].key
           o == OwnerConn(k, conn[c].tellTo)
           cs == Telling(conn, o, j)
           y == [cs[c] EXCEPT !.tell = cs[c].tell \ {j}]
<1>1. conn[c].pc = "announcing" /\ j \in conn[c].tell
  BY DEF TellOwner
<1>2. conn[c] \in Connections /\ conn \in [Conns -> Connections]
      /\ k \in Keys /\ ServedRightly(conn[c]) /\ conn[c].tellTo \in Devices \cup {None}
  BY <1>1, ServedIs
<1>3. o \in Conns \cup {None}
  BY <1>2 DEF OwnerConn, HubInv, HubTyped
<1>4. /\ cs \in [Conns -> Connections]
      /\ \A x \in Conns : Touched(conn[x], cs[x])
      /\ o # None => j \in cs[o].knows
  <2> HIDE DEF o
  <2>1. QED BY <1>2, <1>3, TellingTouches
<1>5. conn' = [cs EXCEPT ![c] = y] /\ UNCHANGED <<registryVars, memberConn, pendingConn, timer, jobs>>
  <2>1. conn' = [cs EXCEPT ![c].tell = @ \ {j}]
    BY DEF TellOwner
  <2> HIDE DEF cs
  <2>2. QED BY <1>4, <2>1 DEF TellOwner
<1> HIDE DEF cs
<1>6. y \in Connections
  BY <1>4 DEF Connections
<1>7. /\ y.pc = conn[c].pc /\ y.key = k /\ y.device = conn[c].device
      /\ y.role = conn[c].role /\ y.join = conn[c].join /\ y.target = conn[c].target
      /\ y.answering = conn[c].answering /\ y.overtaken = conn[c].overtaken
      /\ y.knows = cs[c].knows /\ y.open = cs[c].open
      /\ y.tell = conn[c].tell \ {j} /\ y.tellTo = conn[c].tellTo
  <2>1. cs[c] \in Connections /\ Touched(conn[c], cs[c])
    BY <1>4
  <2>2. /\ y.pc = cs[c].pc /\ y.key = cs[c].key /\ y.device = cs[c].device
        /\ y.role = cs[c].role /\ y.join = cs[c].join /\ y.target = cs[c].target
        /\ y.answering = cs[c].answering /\ y.overtaken = cs[c].overtaken
        /\ y.knows = cs[c].knows /\ y.open = cs[c].open
        /\ y.tell = cs[c].tell \ {j} /\ y.tellTo = cs[c].tellTo
    BY <2>1 DEF Connections
  <2>3. QED BY <2>1, <2>2 DEF Touched
<1>8. conn'[c] = y /\ \A x \in Conns \ {c} : conn'[x] = cs[x]
  BY <1>4, <1>5
<1>9. \A x \in Conns \ {c} : Touched(conn[x], conn'[x])
  BY <1>4, <1>8
<1>10. HubTyped'
  BY <1>4, <1>5, <1>6, OthersTyped DEF HubInv
<1>11. Goes(conn[c], y) /\ conn[c].pc \in SetUp
  BY <1>1, <1>4, <1>7 DEF Goes, SetUp, Pcs, Touched
<1>12. ServedRightly(y)
  BY <1>2, <1>7 DEF ServedRightly
<1>13. DecidedKept
  <2>1. ASSUME NEW e \in Conns
        PROVE  conn'[e].target = conn[e].target /\ conn'[e].pc = conn[e].pc
    BY <1>7, <1>8, <1>9 DEF Touched
  <2>2. QED BY <2>1, DecisionsGoOn
<1>14. TellsGoOn
  <2> SUFFICES ASSUME NEW i \in Keys, NEW d \in Devices, NEW n \in Conns, NEW h \in Joins,
                      memberConn[i][d] = n, WillBeTold(i, d, n, h)
               PROVE  h \in conn'[n].knows \/ WillBeTold(i, d, n, h)'
    BY DEF TellsGoOn
  <2>1. CASE conn[n].pc = "registered"
    BY <1>1, <1>9, <2>1 DEF WillBeTold, Touched
  <2>2. ASSUME NEW e \in Conns, conn[e].pc = "announcing", conn[e].key = i,
               conn[e].tellTo = d, h \in conn[e].tell
        PROVE  h \in conn'[n].knows \/ WillBeTold(i, d, n, h)'
    <3>1. CASE e = c /\ h = j
      <4>1. d # None
        BY DevicesAssumption
      <4>2. o = n /\ o # None
        BY <2>2, <3>1, <4>1, ConnsAssumption DEF OwnerConn
      <4>3. h \in cs[n].knows
        BY <1>4, <3>1, <4>2
      <4>4. conn'[n].knows = cs[n].knows
        BY <1>7, <1>8
      <4>5. QED BY <4>3, <4>4
    <3>2. CASE e = c /\ h # j
      BY <1>7, <1>8, <2>2, <3>2 DEF WillBeTold
    <3>3. CASE e # c
      BY <1>9, <2>2, <3>3 DEF WillBeTold, Touched
    <3>4. QED BY <3>1, <3>2, <3>3
  <2>3. ASSUME NEW job \in jobs, job.task = "tell", job.key = i, job.device = d, h \in job.joins
        PROVE  WillBeTold(i, d, n, h)'
    BY <1>5, <2>3 DEF WillBeTold
  <2>4. QED BY <2>1, <2>2, <2>3 DEF WillBeTold
<1>15. Inv' /\ Calm /\ Shrinks
  BY <1>5, RegistryKept, NothingShrinks DEF HubInv
<1> HIDE DEF y
<1>16. QED BY <1>7, <1>8, <1>9, <1>10, <1>11, <1>12, <1>13, <1>14, <1>15, MoveKeeps

\* The end of the announcements: whoever was superseded is closed, and the device
\* that was admitted, by now online, is told.
LEMMA EndAnnouncingInv ==
  ASSUME HubInv, NEW c \in Conns, EndAnnouncing(c)
  PROVE  HubInv'
<1> DEFINE cs == Closing(conn, conn[c].prev)
           y == [cs[c] EXCEPT !.pc = "reading", !.prev = None, !.target = None,
                              !.tellTo = None, !.answering = NoJoin]
<1>1. conn[c].pc = "announcing" /\ conn[c].tell = {}
  BY DEF EndAnnouncing
<1>2. conn[c] \in Connections /\ conn \in [Conns -> Connections]
      /\ ServedRightly(conn[c]) /\ conn[c].prev \in Conns \cup {None}
  BY <1>1, ServedIs
<1>3. cs \in [Conns -> Connections] /\ \A x \in Conns : Touched(conn[x], cs[x])
  BY <1>2, ClosingTouches
<1>4. conn' = [cs EXCEPT ![c] = y] /\ UNCHANGED <<registryVars, memberConn, pendingConn, timer, jobs>>
  <2>1. conn' = [cs EXCEPT ![c].pc = "reading", ![c].prev = None, ![c].target = None,
                           ![c].tellTo = None, ![c].answering = NoJoin]
    BY DEF EndAnnouncing
  <2> HIDE DEF cs
  <2>2. QED BY <1>3, <2>1 DEF EndAnnouncing
<1> HIDE DEF cs
<1>5. y \in Connections
  <2>1. cs[c] \in Connections
    BY <1>3
  <2> DEFINE z == [cs[c] EXCEPT !.pc = "reading", !.prev = None, !.target = None]
  <2>2. z \in Connections
    BY <2>1 DEF Connections, Pcs
  <2>3. y = [z EXCEPT !.tellTo = None, !.answering = NoJoin]
    OBVIOUS
  <2> HIDE DEF z, y
  <2>4. QED BY <2>2, <2>3 DEF Connections
<1>6. /\ y.pc = "reading" /\ y.key = conn[c].key /\ y.device = conn[c].device
      /\ y.role = conn[c].role /\ y.join = conn[c].join /\ y.target = None
      /\ y.overtaken = conn[c].overtaken /\ y.knows = cs[c].knows /\ y.open = cs[c].open
  <2>1. cs[c] \in Connections /\ Touched(conn[c], cs[c])
    BY <1>3
  <2>2. /\ y.pc = "reading" /\ y.key = cs[c].key /\ y.device = cs[c].device
        /\ y.role = cs[c].role /\ y.join = cs[c].join /\ y.target = None
        /\ y.overtaken = cs[c].overtaken /\ y.knows = cs[c].knows /\ y.open = cs[c].open
    BY <2>1 DEF Connections
  <2>3. QED BY <2>1, <2>2 DEF Touched
<1>7. conn'[c] = y /\ \A x \in Conns \ {c} : conn'[x] = cs[x]
  BY <1>3, <1>4
<1>8. \A x \in Conns \ {c} : Touched(conn[x], conn'[x])
  BY <1>3, <1>7
<1>9. HubTyped'
  BY <1>3, <1>4, <1>5, OthersTyped DEF HubInv
<1>10. Goes(conn[c], y) /\ conn[c].pc \in SetUp
  BY <1>1, <1>3, <1>6 DEF Goes, SetUp, Pcs, Touched
<1>11. ServedRightly(y)
  BY <1>1, <1>2, <1>6 DEF ServedRightly
<1>12. DecidedKept
  BY <1>1, <1>8, DecisionsGoOn DEF Touched
<1>13. TellsGoOn
  BY <1>1, <1>4, <1>8, TellersGoOn DEF Touched
<1>14. Inv' /\ Calm /\ Shrinks
  BY <1>4, RegistryKept, NothingShrinks DEF HubInv
<1> HIDE DEF y
<1>15. QED BY <1>6, <1>7, <1>8, <1>9, <1>10, <1>11, <1>12, <1>13, <1>14, ConnsAssumption, MoveKeeps

-----------------------------------------------------------------------------
(* The steps of a decision                                                 *)

\* Who owns a channel depends on who is online, and on the priorities that they
\* keep: an operation that changes neither elects the same owner again.
LEMMA OwnerKept ==
  ASSUME Inv, [Next]_registryVars, NEW k \in Keys, online'[k] = online[k]
  PROVE  owner'[k] = owner[k]
<1>1. Inv'
  BY NextInv
<1>2. online[k] = {} => owner[k] = None /\ owner'[k] = None
  BY <1>1 DEF Inv, OwnerIsMostSenior
<1>3. CASE online[k] # {}
  <2> DEFINE d == owner[k]  e == owner'[k]
  <2>1. d \in online[k] /\ e \in online[k]
    BY <1>1, <1>3 DEF Inv, OwnerIsMostSenior
  <2>2. d # e => priority[k][d] < priority[k][e]
    BY <1>3, <2>1, DevicesAssumption DEF Inv, OwnerIsMostSenior
  <2>3. d # e => priority'[k][e] < priority'[k][d]
    BY <1>1, <1>3, <2>1, DevicesAssumption DEF Inv, OwnerIsMostSenior
  <2>4. priority'[k][d] = priority[k][d] /\ priority'[k][e] = priority[k][e]
    BY <2>1, OnlineKeepPriority
  <2>5. priority[k][d] \in Nat /\ priority[k][e] \in Nat
    BY <2>1 DEF Inv, TypeOK
  <2>6. QED BY <2>2, <2>3, <2>4, <2>5
<1>4. QED BY <1>2, <1>3

\* So operations that leave everybody online or offline are calm, but for requests.
LEMMA OwnersKept ==
  ASSUME Inv, [Next]_registryVars, online' = online
  PROVE  owner' = owner
<1>1. \A k \in Keys : owner'[k] = owner[k]
  BY OwnerKept
<1>2. owner \in [Keys -> Devices \cup {None}] /\ owner' \in [Keys -> Devices \cup {None}]
  BY NextInv DEF Inv, TypeOK
<1>3. QED BY <1>1, <1>2

\* The owner's decision takes requests away and leaves the rest.
LEMMA DecisionsAreCalm ==
  ASSUME Inv, NEW k \in Keys, NEW d, NEW j, ApproveByOwner(k, d, j) \/ DenyByOwner(k, d, j)
  PROVE  Inv' /\ Calm /\ j \in Joins
<1>1. Next
  BY CallsAreOperations DEF Inv
<1>2. UNCHANGED <<online, joinSeq>>
  BY DEF ApproveByOwner, approveLocked, DenyByOwner, denyLocked
<1>3. \A i \in Keys : pendingJoins'[i] \subseteq pendingJoins[i]
  <2>1. pendingJoins \in [Keys -> SUBSET Joins]
    BY DEF Inv, TypeOK
  <2>2. CASE ApproveByOwner(k, d, j)
    BY <2>1, <2>2 DEF ApproveByOwner, approveLocked
  <2>3. CASE DenyByOwner(k, d, j)
    BY <2>1, <2>3 DEF DenyByOwner, denyLocked
  <2>4. QED BY <2>2, <2>3
<1>4. j \in Joins
  <2>1. pendingJoins[k] \subseteq Joins
    BY DEF Inv, TypeOK
  <2>2. j \in pendingJoins[k]
    BY DEF ApproveByOwner, approveLocked, CanAdmit, DenyByOwner, denyLocked
  <2>3. QED BY <2>1, <2>2
<1>5. QED BY <1>1, <1>2, <1>3, <1>4, NextInv, OwnersKept DEF Calm

\* No join is the absence of one.
LEMMA NoJoinIsNone == NoJoin \notin Joins
BY DevicesAssumption DEF NoJoin, Joins

\* The goroutine of c moves on as in MoveKeeps, and touches no other connection.
LEMMA DecidesOnInv ==
  ASSUME HubInv, Inv', Calm, UNCHANGED <<memberConn, pendingConn, timer, jobs>>,
         NEW c \in Conns, NEW pc \in SetUp \ {"announcing"}, NEW j \in Joins \cup {NoJoin},
         NEW t \in Conns \cup {None},
         conn' = [conn EXCEPT ![c] = [conn[c] EXCEPT !.pc = pc, !.answering = j, !.target = t]],
         conn[c].pc \in SetUp \ {"announcing"},
         ServedRightly([conn[c] EXCEPT !.pc = pc, !.answering = j, !.target = t]),
         \/ conn[c].target = t /\ conn[c].answering = j
         \/ conn[c].target = None /\ t = None
         \/ conn[c].target = None /\ j # NoJoin /\ pendingConn[conn[c].key][j] = t
  PROVE  HubInv'
<1> DEFINE y == [conn[c] EXCEPT !.pc = pc, !.answering = j, !.target = t]
<1>1. conn[c] \in Connections /\ conn \in [Conns -> Connections] /\ ServedRightly(conn[c])
  BY ServedIs DEF SetUp
<1>2. y \in Connections
  BY <1>1 DEF Connections, SetUp
<1>3. /\ y.pc = pc /\ y.key = conn[c].key /\ y.device = conn[c].device
      /\ y.role = conn[c].role /\ y.join = conn[c].join /\ y.target = t
      /\ y.answering = j /\ y.overtaken = conn[c].overtaken
      /\ y.knows = conn[c].knows /\ y.open = conn[c].open
  BY <1>1 DEF Connections
<1>4. conn'[c] = y /\ \A x \in Conns \ {c} : conn'[x] = conn[x]
  BY <1>1
<1>5. \A x \in Conns \ {c} : Touched(conn[x], conn'[x])
  BY <1>4 DEF Touched
<1>6. HubTyped'
  BY <1>1, <1>2, OthersTyped DEF HubInv
<1>7. Goes(conn[c], y)
  BY <1>3 DEF Goes
<1>8. DecidedKept
  <2>1. ASSUME NEW e \in Conns, conn[e].target \in Conns, conn[e].pc # "announcing"
        PROVE  conn'[e].target = conn[e].target /\ conn'[e].pc # "announcing"
    BY <1>3, <1>4, <2>1, ConnsAssumption
  <2>2. QED BY <2>1, DecisionsGoOn
<1>9. TellsGoOn
  BY <1>3, <1>4, TellersGoOn DEF SetUp
<1>10. Shrinks
  BY NothingShrinks
<1>11. ASSUME NEW n \in Conns, y.target = n
       PROVE  \/ conn[c].target = n /\ y.answering = conn[c].answering
              \/ y.answering \in Joins /\ pendingConn[y.key][y.answering] = n
  BY <1>3, <1>11, ConnsAssumption
<1> HIDE DEF y
<1>12. QED BY <1>4, <1>5, <1>6, <1>7, <1>8, <1>9, <1>10, <1>11, MoveKeeps DEF y

\* The registry has decided a join, which is one of its requests.
LEMMA DecideInv ==
  ASSUME HubInv, NEW c \in Conns, NEW j \in Joins, DecideApprove(c, j) \/ DecideDeny(c, j)
  PROVE  HubInv'
<1>1. conn[c].pc = "deciding"
  BY DEF DecideApprove, DecideDeny
<1>2. conn[c] \in Connections /\ conn \in [Conns -> Connections]
      /\ conn[c].key \in Keys /\ ServedRightly(conn[c])
  BY <1>1, ServedIs
<1>3. conn[c].target = None
  BY <1>1, <1>2 DEF ServedRightly
<1>4. PICK pc \in {"approved", "denied"} :
        conn' = [conn EXCEPT ![c] = [conn[c] EXCEPT !.pc = pc, !.answering = j, !.target = None]]
  <2>1. [conn[c] EXCEPT !.target = None] = conn[c]
    BY <1>2, <1>3 DEF Connections
  <2>2. CASE DecideApprove(c, j)
    <3>1. conn' = [conn EXCEPT ![c] = [conn[c] EXCEPT !.pc = "approved", !.answering = j]]
      BY <1>2, <2>2 DEF DecideApprove
    <3>2. [conn[c] EXCEPT !.pc = "approved", !.answering = j, !.target = None]
            = [conn[c] EXCEPT !.pc = "approved", !.answering = j]
      BY <1>2, <1>3 DEF Connections
    <3>3. QED BY <3>1, <3>2
  <2>3. CASE DecideDeny(c, j)
    <3>1. conn' = [conn EXCEPT ![c] = [conn[c] EXCEPT !.pc = "denied", !.answering = j]]
      BY <1>2, <2>3 DEF DecideDeny
    <3>2. [conn[c] EXCEPT !.pc = "denied", !.answering = j, !.target = None]
            = [conn[c] EXCEPT !.pc = "denied", !.answering = j]
      BY <1>2, <1>3 DEF Connections
    <3>3. QED BY <3>1, <3>2
  <2>4. QED BY <2>2, <2>3
<1>5. Inv' /\ Calm
  BY <1>2, DecisionsAreCalm DEF DecideApprove, DecideDeny, HubInv
<1>6. UNCHANGED <<memberConn, pendingConn, timer, jobs>>
  BY DEF DecideApprove, DecideDeny
<1>7. ServedRightly([conn[c] EXCEPT !.pc = pc, !.answering = j, !.target = None])
  BY <1>1, <1>2, NoJoinIsNone DEF ServedRightly, Connections
<1>8. pc \in SetUp \ {"announcing"} /\ conn[c].pc \in SetUp \ {"announcing"}
  BY <1>1 DEF SetUp, Pcs
<1>9. QED BY <1>3, <1>4, <1>5, <1>6, <1>7, <1>8, DecidesOnInv

\* The connection that waits for the decision is found, or there is none.
LEMMA LookUpPendingInv ==
  ASSUME HubInv, NEW c \in Conns, LookUpPending(c)
  PROVE  HubInv'
<1> DEFINE j == conn[c].answering
           t == pendingConn[conn[c].key][j]
<1>1. conn[c].pc \in {"approved", "denied"}
  BY DEF LookUpPending
<1>2. conn[c] \in Connections /\ conn \in [Conns -> Connections]
      /\ conn[c].key \in Keys /\ ServedRightly(conn[c]) /\ j \in Joins
  BY <1>1, ServedIs DEF ServedRightly
<1>3. conn[c].target = None /\ t \in Conns \cup {None} /\ j # NoJoin
  BY <1>1, <1>2, NoJoinIsNone DEF ServedRightly, HubInv, HubTyped
<1>4. UNCHANGED <<registryVars, memberConn, pendingConn, timer, jobs>> /\ Inv' /\ Calm
  BY RegistryKept DEF LookUpPending, HubInv
<1>5. conn[c].pc \in SetUp \ {"announcing"}
  BY <1>1 DEF SetUp, Pcs
<1>6. CASE t = None
  <2>1. conn' = [conn EXCEPT ![c] = [conn[c] EXCEPT !.pc = "reading", !.answering = NoJoin]]
    BY <1>2, <1>6 DEF LookUpPending
  <2>2. [conn[c] EXCEPT !.pc = "reading", !.answering = NoJoin, !.target = None]
          = [conn[c] EXCEPT !.pc = "reading", !.answering = NoJoin]
    BY <1>2, <1>3 DEF Connections
  <2>3. ServedRightly([conn[c] EXCEPT !.pc = "reading", !.answering = NoJoin, !.target = None])
    BY <1>1, <1>2 DEF ServedRightly, Connections
  <2>4. "reading" \in SetUp \ {"announcing"}
    BY DEF SetUp, Pcs
  <2>5. QED BY <1>3, <1>4, <1>5, <2>1, <2>2, <2>3, <2>4, DecidesOnInv
<1>7. CASE t # None
  <2>1. PICK pc \in {"promoting", "refusing"} :
          conn' = [conn EXCEPT ![c] = [conn[c] EXCEPT !.target = t, !.pc = pc]]
    <3>1. conn' = [conn EXCEPT ![c] = [conn[c] EXCEPT !.target = t,
                                 !.pc = IF conn[c].pc = "approved" THEN "promoting" ELSE "refusing"]]
      BY <1>2, <1>7 DEF LookUpPending, Connections
    <3>2. QED BY <3>1
  <2>2. [conn[c] EXCEPT !.pc = pc, !.answering = j, !.target = t]
          = [conn[c] EXCEPT !.target = t, !.pc = pc]
    BY <1>2 DEF Connections
  <2>3. ServedRightly([conn[c] EXCEPT !.pc = pc, !.answering = j, !.target = t])
    BY <1>1, <1>2, <1>3, <1>7 DEF ServedRightly, Connections
  <2>4. pc \in SetUp \ {"announcing"}
    BY DEF SetUp, Pcs
  <2>5. QED BY <1>2, <1>3, <1>4, <1>5, <2>1, <2>2, <2>3, <2>4, DecidesOnInv
<1>8. QED BY <1>6, <1>7

\* The device that was promoted is no member any more.
LEMMA PromotedIsGoneInv ==
  ASSUME HubInv, NEW c \in Conns, PromotedIsGone(c)
  PROVE  HubInv'
<1> DEFINE j == conn[c].answering  t == conn[c].target
<1>1. conn[c].pc = "promoted"
  BY DEF PromotedIsGone
<1>2. conn[c] \in Connections /\ conn \in [Conns -> Connections] /\ ServedRightly(conn[c])
      /\ j \in Joins \cup {NoJoin} /\ t \in Conns \cup {None}
  BY <1>1, ServedIs
<1>3. conn' = [conn EXCEPT ![c] = [conn[c] EXCEPT !.pc = "rollback", !.answering = j, !.target = t]]
  <2>1. conn' = [conn EXCEPT ![c] = [conn[c] EXCEPT !.pc = "rollback"]]
    BY <1>2 DEF PromotedIsGone
  <2>2. [conn[c] EXCEPT !.pc = "rollback", !.answering = j, !.target = t]
          = [conn[c] EXCEPT !.pc = "rollback"]
    BY <1>2 DEF Connections
  <2>3. QED BY <2>1, <2>2
<1>4. UNCHANGED <<registryVars, memberConn, pendingConn, timer, jobs>> /\ Inv' /\ Calm
  BY RegistryKept DEF PromotedIsGone, HubInv
<1>5. ServedRightly([conn[c] EXCEPT !.pc = "rollback", !.answering = j, !.target = t])
  BY <1>1, <1>2 DEF ServedRightly, Connections
<1>6. "rollback" \in SetUp \ {"announcing"} /\ conn[c].pc \in SetUp \ {"announcing"}
  BY <1>1 DEF SetUp, Pcs
<1>7. QED BY <1>2, <1>3, <1>4, <1>5, <1>6, DecidesOnInv

\* removeMember takes back what the promotion did, and it is the only entry that
\* the connection can have.
LEMMA RollBackInv ==
  ASSUME HubInv, NEW c \in Conns, RollBack(c)
  PROVE  HubInv'
<1> DEFINE k == conn[c].key
           j == conn[c].answering
           t == conn[c].target
           y == [conn[c] EXCEPT !.pc = "reading", !.answering = NoJoin,
                                !.target = None, !.prev = None]
<1>1. conn[c].pc = "rollback"
  BY DEF RollBack
<1>2. conn[c] \in Connections /\ conn \in [Conns -> Connections] /\ ServedRightly(conn[c])
      /\ k \in Keys /\ j \in Joins /\ t \in Conns
  BY <1>1, ServedIs DEF ServedRightly
<1>3. j.device \in Devices
  BY <1>2 DEF Joins
<1>4. conn' = [conn EXCEPT ![c] = y] /\ UNCHANGED <<registryVars, pendingConn, timer, jobs>>
  BY <1>2 DEF RollBack
<1>5. y \in Connections
  BY <1>2 DEF Connections, Pcs
<1>6. /\ y.pc = "reading" /\ y.key = conn[c].key /\ y.device = conn[c].device
      /\ y.role = conn[c].role /\ y.join = conn[c].join /\ y.target = None
      /\ y.overtaken = conn[c].overtaken /\ y.knows = conn[c].knows /\ y.open = conn[c].open
  BY <1>2 DEF Connections
<1>7. conn'[c] = y /\ \A x \in Conns \ {c} : conn'[x] = conn[x]
  BY <1>2, <1>4
<1> HIDE DEF y
<1>8. \A x \in Conns \ {c} : Touched(conn[x], conn'[x])
  BY <1>7 DEF Touched
<1>9. /\ memberConn' \in [Keys -> [Devices -> Conns \cup {None}]]
      /\ memberConn'[k][j.device] # t
      /\ \A i \in Keys, d \in Devices : memberConn'[i][d] \in {memberConn[i][d], None}
  <2>1. memberConn \in [Keys -> [Devices -> Conns \cup {None}]]
    BY DEF HubInv, HubTyped
  <2>2. CASE memberConn[k][j.device] = t
    <3>1. memberConn' = [memberConn EXCEPT ![k][j.device] = None]
      BY <2>2 DEF RollBack
    <3>2. QED BY <1>2, <1>3, <2>1, <3>1, ConnsAssumption
  <2>3. CASE memberConn[k][j.device] # t
    <3>1. memberConn' = memberConn
      BY <2>3 DEF RollBack
    <3>2. QED BY <2>1, <2>3, <3>1
  <2>4. QED BY <2>2, <2>3
<1>10. HubTyped'
  BY <1>2, <1>4, <1>5, <1>9 DEF HubInv, HubTyped
<1>11. Goes(conn[c], y) /\ conn[c].pc \in SetUp
  BY <1>1, <1>6 DEF Goes, SetUp, Pcs
<1>12. ServedRightly(y)
  BY <1>1, <1>2, <1>6 DEF ServedRightly
<1>13. DecidedKept
  <2> SUFFICES ASSUME NEW i \in Keys, NEW d \in Devices, NEW x \in Conns,
                      memberConn'[i][d] = x, conn'[x].pc # "gone", Decided(x)'
               PROVE  Decided(x)
    BY DEF DecidedKept
  <2>1. CASE x = t
    <3>1. conn[t].pc # "gone" /\ memberConn[i][d] = t
      BY <1>1, <1>7, <1>9, <2>1, ConnsAssumption
    <3>2. conn[t].key = i /\ conn[t].device = d
      BY <1>2, <3>1 DEF HubInv, MemberServed
    <3>3. conn[t].key = k /\ conn[t].join = j
      BY <1>2, <3>1 DEF HubInv, TargetServed
    <3>4. conn[t].device = j.device
      BY <1>2, <3>1, <3>3, NoJoinIsNone DEF HubInv, Served, ServedRightly
    <3>5. QED BY <1>9, <2>1, <3>2, <3>3, <3>4
  <2>2. CASE x # t
    BY <1>7, <2>2 DEF Decided
  <2>3. QED BY <2>1, <2>2
<1>14. TellsGoOn
  <2>1. ASSUME NEW e \in Conns, conn[e].pc \in {"announcing", "registered"}
        PROVE  conn'[e] = conn[e]
    BY <1>1, <1>7, <2>1
  <2>2. QED BY <1>4, <2>1, TellersGoOn
<1>15. Inv' /\ Calm
  BY <1>4, RegistryKept DEF HubInv
<1>16. Shrinks
  BY <1>4, <1>9 DEF Shrinks
<1>17. QED BY <1>6, <1>7, <1>8, <1>10, <1>11, <1>12, <1>13, <1>14, <1>15, <1>16,
              ConnsAssumption, MoveKeeps

\* A denial closes the connection that waited and takes its entry away.
LEMMA RefusePendingInv ==
  ASSUME HubInv, NEW c \in Conns, RefusePending(c)
  PROVE  HubInv'
<1> DEFINE k == conn[c].key
           j == conn[c].answering
           t == conn[c].target
           cs == Closing(conn, t)
           y == [cs[c] EXCEPT !.pc = "reading", !.answering = NoJoin, !.target = None]
<1>1. conn[c].pc = "refusing"
  BY DEF RefusePending
<1>2. conn[c] \in Connections /\ conn \in [Conns -> Connections] /\ ServedRightly(conn[c])
      /\ k \in Keys /\ j \in Joins /\ t \in Conns /\ t # None
  BY <1>1, ServedIs, ConnsAssumption DEF ServedRightly
<1>3. cs \in [Conns -> Connections] /\ \A x \in Conns : Touched(conn[x], cs[x])
  BY <1>2, ClosingTouches
<1>4. cs[t].open = FALSE
  BY <1>2 DEF Closing, Connections
<1>5. conn' = [cs EXCEPT ![c] = y] /\ UNCHANGED <<registryVars, memberConn, timer, jobs>>
  <2>1. cs = [conn EXCEPT ![t].open = FALSE]
    BY <1>2 DEF Closing
  <2>2. conn' = [cs EXCEPT ![c].pc = "reading", ![c].answering = NoJoin, ![c].target = None]
    BY <2>1 DEF RefusePending
  <2> HIDE DEF cs
  <2>3. QED BY <1>3, <2>2 DEF RefusePending
<1> HIDE DEF cs
<1>6. y \in Connections
  <2>1. cs[c] \in Connections
    BY <1>3
  <2>2. QED BY <2>1 DEF Connections, Pcs
<1>7. /\ y.pc = "reading" /\ y.key = k /\ y.device = conn[c].device
      /\ y.role = conn[c].role /\ y.join = conn[c].join /\ y.target = None
      /\ y.overtaken = conn[c].overtaken /\ y.knows = cs[c].knows /\ y.open = cs[c].open
  <2>1. cs[c] \in Connections /\ Touched(conn[c], cs[c])
    BY <1>3
  <2>2. /\ y.pc = "reading" /\ y.key = cs[c].key /\ y.device = cs[c].device
        /\ y.role = cs[c].role /\ y.join = cs[c].join /\ y.target = None
        /\ y.overtaken = cs[c].overtaken /\ y.knows = cs[c].knows /\ y.open = cs[c].open
    BY <2>1 DEF Connections
  <2>3. QED BY <2>1, <2>2 DEF Touched
<1>8. conn'[c] = y /\ \A x \in Conns \ {c} : conn'[x] = cs[x]
  BY <1>3, <1>5
<1> HIDE DEF y
<1>9. \A x \in Conns \ {c} : Touched(conn[x], conn'[x])
  BY <1>3, <1>8
<1>10. /\ pendingConn' \in [Keys -> [Joins -> Conns \cup {None}]]
       /\ \A i \in Keys, h \in Joins : pendingConn'[i][h] \in {pendingConn[i][h], None}
  <2>1. pendingConn \in [Keys -> [Joins -> Conns \cup {None}]]
    BY DEF HubInv, HubTyped
  <2>2. \/ pendingConn' = pendingConn
        \/ pendingConn' = [pendingConn EXCEPT ![k][j] = None]
    BY DEF RefusePending
  <2>3. QED BY <1>2, <2>1, <2>2
<1>11. HubTyped'
  BY <1>3, <1>5, <1>6, <1>10 DEF HubInv, HubTyped
<1>12. Goes(conn[c], y) /\ conn[c].pc \in SetUp
  BY <1>1, <1>3, <1>7 DEF Goes, SetUp, Pcs, Touched
<1>13. ServedRightly(y)
  BY <1>1, <1>2, <1>7 DEF ServedRightly
<1>14. DecidedKept
  <2> SUFFICES ASSUME NEW x \in Conns, conn'[x].open, Decided(x)'
               PROVE  Decided(x)
    BY DEF DecidedKept
  <2>1. x # t
    BY <1>4, <1>7, <1>8
  <2>2. ASSUME NEW e \in Conns, conn[e].target = x PROVE conn[e].pc = "announcing"
    BY <1>9, <2>1, <2>2 DEF Decided, Touched
  <2>3. QED BY <2>2 DEF Decided
<1>15. TellsGoOn
  BY <1>1, <1>5, <1>9, TellersGoOn DEF Touched
<1>16. Inv' /\ Calm
  BY <1>5, RegistryKept DEF HubInv
<1>17. Shrinks
  BY <1>5, <1>10 DEF Shrinks
<1>18. QED BY <1>7, <1>8, <1>9, <1>11, <1>12, <1>13, <1>14, <1>15, <1>16, <1>17,
              ConnsAssumption, MoveKeeps

-----------------------------------------------------------------------------
(* The steps of timers and of the work that goroutines have taken on       *)

\* Connections that are touched at most keep their part of the invariant.
LEMMA TouchKeeps ==
  ASSUME HubInv, Inv', HubTyped', Calm, Shrinks,
         \A x \in Conns : Touched(conn[x], conn'[x]), TellsGoOn
  PROVE  HubInv'
<1>1. \A x \in Conns : Goes(conn[x], conn'[x])
  BY DEF Touched, Goes
<1>2. Served'
  <2>1. \A x \in Conns : ServedRightly(conn[x])
    BY DEF HubInv, Served
  <2>2. ASSUME NEW x \in Conns PROVE ServedRightly(conn[x])'
    BY <2>1 DEF ServedRightly, Touched, Calm
  <2>3. QED BY <2>2 DEF Served
<1>3. TargetServed'
  BY DEF HubInv, TargetServed, Touched
<1>4. DecidedKept
  <2>1. ASSUME NEW e \in Conns
        PROVE  conn'[e].target = conn[e].target /\ conn'[e].pc = conn[e].pc
    BY DEF Touched
  <2>2. QED BY <2>1, DecisionsGoOn
<1>5. QED BY <1>1, <1>2, <1>3, <1>4, FrameKeeps

\* Steps of timers alone.
LEMMA TimerKeeps ==
  ASSUME HubInv, UNCHANGED <<registryVars, conn, memberConn, pendingConn>>,
         jobs' \subseteq jobs, \A job \in jobs : job.task = "tell" => job \in jobs',
         timer' \in [Keys -> [Devices -> Timers]]
  PROVE  HubInv'
<1>1. HubTyped'
  BY DEF HubInv, HubTyped
<1>2. Inv' /\ Calm /\ Shrinks
  BY RegistryKept, NothingShrinks DEF HubInv
<1>3. \A x \in Conns : Touched(conn[x], conn'[x])
  BY DEF Touched
<1>4. TellsGoOn
  BY TellersGoOn
<1>5. QED BY <1>1, <1>2, <1>3, <1>4, TouchKeeps

\* A timer that fires leaves a callback behind.
LEMMA FireInv ==
  ASSUME HubInv, NEW k \in Keys, NEW d \in Devices, Fire(k, d) \/ FireLoose(k, d)
  PROVE  HubInv'
<1> DEFINE old == timer[k][d]
<1>1. timer \in [Keys -> [Devices -> Timers]] /\ old \in Timers
  BY DEF HubInv, HubTyped
<1>2. old.loose \in Nat /\ old.due \in Nat /\ old.due + 1 \in Nat
  BY <1>1 DEF Timers
<1>3. CASE Fire(k, d)
  <2> DEFINE t == [old EXCEPT !.armed = "no", !.due = old.due + 1]
  <2>1. timer' = [timer EXCEPT ![k][d] = t]
    BY <1>1, <1>3 DEF Fire
  <2> HIDE DEF old
  <2>2. t \in Timers
    <3> DEFINE n == old.due + 1
    <3>1. n \in Nat
      BY <1>2
    <3> HIDE DEF n
    <3>2. [old EXCEPT !.armed = "no", !.due = n] \in Timers
      BY <1>1, <3>1 DEF Timers
    <3>3. QED BY <3>2 DEF n
  <2> HIDE DEF t
  <2>3. timer' \in [Keys -> [Devices -> Timers]]
    BY <1>1, <2>1, <2>2
  <2>4. QED BY <1>3, <2>3, TimerKeeps DEF Fire
<1>4. CASE FireLoose(k, d)
  <2> DEFINE t == [old EXCEPT !.loose = old.loose - 1, !.due = old.due + 1]
  <2>1. timer' = [timer EXCEPT ![k][d] = t]
    BY <1>1, <1>4 DEF FireLoose
  <2>2. old.loose > 0
    BY <1>4 DEF FireLoose
  <2> HIDE DEF old
  <2>3. t \in Timers
    <3> DEFINE m == old.loose - 1  n == old.due + 1
    <3>1. m \in Nat /\ n \in Nat
      BY <1>2, <2>2
    <3> HIDE DEF m, n
    <3>2. [old EXCEPT !.loose = m, !.due = n] \in Timers
      BY <1>1, <3>1 DEF Timers
    <3>3. QED BY <3>2 DEF m, n
  <2> HIDE DEF t
  <2>4. timer' \in [Keys -> [Devices -> Timers]]
    BY <1>1, <2>1, <2>3
  <2>5. QED BY <1>4, <2>4, TimerKeeps DEF FireLoose
<1>5. QED BY <1>3, <1>4

\* Starting a timer and cancelling it keep its type.
LEMMA TimersTyped ==
  ASSUME HubTyped, NEW k \in Keys, NEW d \in Devices,
         CancelTimer(k, d) \/ (\E since \in {"created", "left"} : StartTimer(k, d, since))
  PROVE  timer' \in [Keys -> [Devices -> Timers]]
<1>1. timer \in [Keys -> [Devices -> Timers]] /\ timer[k][d] \in Timers
  BY DEF HubTyped
<1>2. PICK since \in {"no", "created", "left"} : timer' = [timer EXCEPT ![k][d].armed = since]
  BY DEF CancelTimer, StartTimer
<1>3. [timer[k][d] EXCEPT !.armed = since] \in Timers
  BY <1>1 DEF Timers
<1>4. timer' = [timer EXCEPT ![k][d] = [timer[k][d] EXCEPT !.armed = since]]
  BY <1>1, <1>2
<1>5. QED BY <1>1, <1>3, <1>4

\* The expiry of a new channel's first member is scheduled.
LEMMA ScheduleInv ==
  ASSUME HubInv, NEW job \in jobs, ScheduleOfflineExpiry(job)
  PROVE  HubInv'
<1>1. job.key \in Keys /\ job.device \in Devices /\ job.task = "schedule"
  BY DEF HubInv, HubTyped, Jobs, ScheduleOfflineExpiry
<1>2. timer' \in [Keys -> [Devices -> Timers]]
  BY <1>1, TimersTyped DEF ScheduleOfflineExpiry, HubInv, HubTyped
<1>3. jobs' \subseteq jobs /\ \A i \in jobs : i.task = "tell" => i \in jobs'
  BY <1>1 DEF ScheduleOfflineExpiry
<1>4. QED BY <1>2, <1>3, TimerKeeps DEF ScheduleOfflineExpiry

\* All who wait in a channel that is gone are closed, and their entries with them.
LEMMA ClosePendingInv ==
  ASSUME HubInv, NEW job \in jobs, closePendingForChannel(job)
  PROVE  HubInv'
<1>1. /\ job.key \in Keys /\ job.task = "closePending"
      /\ conn \in [Conns -> Connections]
      /\ pendingConn \in [Keys -> [Joins -> Conns \cup {None}]]
  BY DEF HubInv, HubTyped, Jobs, closePendingForChannel
<1>2. ASSUME NEW x \in Conns
      PROVE  conn'[x] \in Connections /\ Touched(conn[x], conn'[x])
  <2>1. conn'[x] = conn[x] \/ conn'[x] = [conn[x] EXCEPT !.open = FALSE]
    BY DEF closePendingForChannel
  <2>2. conn[x] \in Connections
    BY <1>1
  <2>3. [conn[x] EXCEPT !.open = FALSE] \in Connections
    BY <2>2 DEF Connections
  <2>4. Touched(conn[x], conn[x]) /\ Touched(conn[x], [conn[x] EXCEPT !.open = FALSE])
    BY <2>2 DEF Touched, Connections
  <2>5. QED BY <2>1, <2>2, <2>3, <2>4
<1>3. conn' \in [Conns -> Connections]
  <2>1. conn' = [x \in Conns |-> conn'[x]]
    BY DEF closePendingForChannel
  <2>2. QED BY <1>2, <2>1
<1>4. /\ pendingConn' \in [Keys -> [Joins -> Conns \cup {None}]]
      /\ \A k \in Keys, j \in Joins : pendingConn'[k][j] \in {pendingConn[k][j], None}
  <2>1. pendingConn' = [pendingConn EXCEPT ![job.key] = [j \in Joins |-> None]]
    BY DEF closePendingForChannel
  <2>2. QED BY <1>1, <2>1
<1>5. jobs' = jobs \ {job} /\ UNCHANGED <<registryVars, memberConn, timer>>
  BY DEF closePendingForChannel
<1>6. HubTyped'
  BY <1>3, <1>4, <1>5 DEF HubInv, HubTyped
<1>7. Inv' /\ Calm /\ Shrinks
  BY <1>4, <1>5, RegistryKept DEF HubInv, Shrinks
<1>8. TellsGoOn
  BY <1>1, <1>2, <1>5, TellersGoOn DEF Touched
<1>9. QED BY <1>2, <1>6, <1>7, <1>8, TouchKeeps

\* The goroutine of an expiry tells the new owner of one join.
LEMMA TellNewOwnerInv ==
  ASSUME HubInv, NEW job \in jobs, NEW j \in Joins, TellNewOwner(job, j)
  PROVE  HubInv'
<1> DEFINE o == OwnerConn(job.key, job.device)
           rest == [job EXCEPT !.joins = @ \ {j}]
<1>1. job \in Jobs /\ j \in job.joins /\ conn \in [Conns -> Connections]
  BY DEF HubInv, HubTyped, TellNewOwner
<1>2. o \in Conns \cup {None} /\ job.device # None
  BY <1>1, DevicesAssumption DEF OwnerConn, HubInv, HubTyped, Jobs
<1>3. /\ conn' \in [Conns -> Connections]
      /\ \A x \in Conns : Touched(conn[x], conn'[x])
      /\ o # None => j \in conn'[o].knows
  <2> HIDE DEF o
  <2>1. conn' = Telling(conn, o, j)
    BY DEF TellNewOwner, o
  <2>2. QED BY <1>1, <1>2, <2>1, TellingTouches
<1>4. rest \in Jobs /\ rest.task = job.task /\ rest.key = job.key /\ rest.device = job.device
      /\ rest.joins = job.joins \ {j}
  BY <1>1 DEF Jobs
<1>5. /\ UNCHANGED <<registryVars, memberConn, pendingConn, timer>>
      /\ jobs' = (jobs \ {job}) \cup IF job.joins = {j} THEN {} ELSE {rest}
  BY DEF TellNewOwner
<1>6. HubTyped'
  BY <1>3, <1>4, <1>5 DEF HubInv, HubTyped
<1>7. Inv' /\ Calm /\ Shrinks
  BY <1>5, RegistryKept, NothingShrinks DEF HubInv
<1>8. TellsGoOn
  <2> SUFFICES ASSUME NEW k \in Keys, NEW d \in Devices, NEW c \in Conns, NEW h \in Joins,
                      memberConn[k][d] = c, WillBeTold(k, d, c, h)
               PROVE  h \in conn'[c].knows \/ WillBeTold(k, d, c, h)'
    BY DEF TellsGoOn
  <2>1. CASE conn[c].pc = "registered"
    BY <1>3, <2>1 DEF WillBeTold, Touched
  <2>2. ASSUME NEW e \in Conns, conn[e].pc = "announcing", conn[e].key = k,
               conn[e].tellTo = d, h \in conn[e].tell
        PROVE  WillBeTold(k, d, c, h)'
    BY <1>3, <2>2 DEF WillBeTold, Touched
  <2>3. ASSUME NEW i \in jobs, i.task = "tell", i.key = k, i.device = d, h \in i.joins
        PROVE  h \in conn'[c].knows \/ WillBeTold(k, d, c, h)'
    <3>1. CASE i # job
      BY <1>5, <2>3, <3>1 DEF WillBeTold
    <3>2. CASE i = job /\ h # j
      <4>1. rest \in jobs' /\ h \in rest.joins
        BY <1>4, <1>5, <2>3, <3>2
      <4> HIDE DEF rest
      <4>2. QED BY <1>4, <2>3, <3>2, <4>1 DEF WillBeTold
    <3>3. CASE i = job /\ h = j
      <4>1. o = c /\ o # None
        BY <1>2, <2>3, <3>3, ConnsAssumption DEF OwnerConn
      <4>2. QED BY <1>3, <3>3, <4>1
    <3>4. QED BY <3>1, <3>2, <3>3
  <2>4. QED BY <2>1, <2>2, <2>3 DEF WillBeTold
<1>9. QED BY <1>3, <1>6, <1>7, <1>8, TouchKeeps

-----------------------------------------------------------------------------
(* The steps that let a connection in                                      *)

\* A connection that nobody refers to is accepted, or enters the map it belongs in.
LEMMA EntersKeeps ==
  ASSUME HubInv, NEW c \in Conns, NEW y \in Connections,
         conn' = [conn EXCEPT ![c] = y], UNCHANGED <<registryVars, jobs>>,
         timer' \in [Keys -> [Devices -> Timers]],
         memberConn' \in [Keys -> [Devices -> Conns \cup {None}]],
         pendingConn' \in [Keys -> [Joins -> Conns \cup {None}]],
         conn[c].pc \in {"gone", "accepted"}, y.pc \in {"accepted", "registered"},
         y.target = None, ServedRightly(y),
         \A k \in Keys, d \in Devices : memberConn[k][d] # c,
         \A k \in Keys, j \in Joins : pendingConn[k][j] # c,
         \A e \in Conns : conn[e].target # c,
         \A k \in Keys, d \in Devices :
           \/ memberConn'[k][d] = memberConn[k][d]
           \/ /\ memberConn'[k][d] = c
              /\ y.pc = "registered" /\ y.role = "member" /\ y.key = k /\ y.device = d,
         \A k \in Keys, j \in Joins :
           \/ pendingConn'[k][j] = pendingConn[k][j]
           \/ /\ pendingConn'[k][j] = c
              /\ y.pc = "registered" /\ y.role = "pending" /\ y.key = k /\ y.join = j
  PROVE  HubInv'
<1>1. conn \in [Conns -> Connections] /\ ServedRightly(conn[c])
  BY DEF HubInv, HubTyped, Served
<1>2. conn'[c] = y /\ \A x \in Conns \ {c} : conn'[x] = conn[x]
  BY <1>1
<1>3. conn[c].target = None
  BY <1>1 DEF ServedRightly
<1>4. HubTyped'
  BY <1>1 DEF HubInv, HubTyped
<1>5. Inv' /\ Calm
  BY RegistryKept DEF HubInv
<1>6. Served'
  <2>1. ASSUME NEW x \in Conns PROVE ServedRightly(conn[x])'
    <3>1. ServedRightly(conn[x]) BY DEF HubInv, Served
    <3>2. QED BY <1>2, <1>5, <3>1 DEF ServedRightly, Calm
  <2>2. QED BY <2>1 DEF Served
<1>7. JoinsNumbered'
  BY <1>5 DEF HubInv, JoinsNumbered, Calm
<1>8. PendingServed'
  <2> SUFFICES ASSUME NEW k \in Keys, NEW j \in Joins, NEW p \in Conns,
                      pendingConn'[k][j] = p
               PROVE  /\ conn'[p].pc \notin {"gone", "accepted"} /\ conn'[p].role = "pending"
                      /\ conn'[p].key = k /\ conn'[p].join = j
    BY DEF PendingServed
  <2>1. CASE pendingConn'[k][j] = pendingConn[k][j]
    <3>1. pendingConn[k][j] = p /\ p # c
      BY <2>1
    <3>2. conn'[p] = conn[p]
      BY <1>2, <3>1
    <3>3. QED BY <3>1, <3>2 DEF HubInv, PendingServed
  <2>2. CASE /\ pendingConn'[k][j] = c
             /\ y.pc = "registered" /\ y.role = "pending" /\ y.key = k /\ y.join = j
    BY <1>2, <2>2
  <2>3. QED BY <2>1, <2>2
<1>9. MemberServed'
  <2> SUFFICES ASSUME NEW k \in Keys, NEW d \in Devices, NEW x \in Conns,
                      memberConn'[k][d] = x, conn'[x].pc # "gone"
               PROVE  /\ conn'[x].pc # "accepted" /\ conn'[x].role = "member"
                      /\ conn'[x].key = k /\ conn'[x].device = d
    BY DEF MemberServed
  <2>1. CASE x = c
    <3>1. memberConn[k][d] # c /\ memberConn'[k][d] = c
      BY <2>1
    <3>2. \/ memberConn'[k][d] = memberConn[k][d]
          \/ y.pc = "registered" /\ y.role = "member" /\ y.key = k /\ y.device = d
      OBVIOUS
    <3>3. y.pc = "registered" /\ y.role = "member" /\ y.key = k /\ y.device = d
      BY <3>1, <3>2
    <3>4. QED BY <1>2, <2>1, <3>3
  <2>2. CASE x # c
    <3>1. memberConn[k][d] = x /\ conn'[x] = conn[x]
      BY <1>2, <2>2
    <3>2. QED BY <3>1 DEF HubInv, MemberServed
  <2>3. QED BY <2>1, <2>2
<1>10. TargetServed'
  BY <1>2, ConnsAssumption DEF HubInv, TargetServed
<1>11. OnlineOnceSetUp'
  <2> SUFFICES ASSUME NEW k \in Keys, NEW d \in Devices, NEW x \in Conns,
                      memberConn'[k][d] = x, conn'[x].pc \in SetUp, conn'[x].open,
                      Decided(x)'
               PROVE  d \in online'[k]
    BY DEF OnlineOnceSetUp
  <2>1. x # c /\ memberConn[k][d] = x
    BY <1>2 DEF SetUp
  <2>2. Decided(x)
    BY <1>2, <1>3, ConnsAssumption DEF Decided
  <2>3. QED BY <1>2, <1>5, <2>1, <2>2 DEF HubInv, OnlineOnceSetUp, Calm
<1>12. ToldOrWillBe'
  <2> SUFFICES ASSUME NEW k \in Keys, NEW d \in Devices, NEW j \in Joins,
                      NEW x \in Conns, NEW p \in Conns,
                      owner'[k] = d, j \in pendingJoins'[k],
                      memberConn'[k][d] = x, conn'[x].pc # "gone", ~conn'[x].overtaken,
                      pendingConn'[k][j] = p, conn'[p].pc # "registered"
               PROVE  j \in conn'[x].knows \/ WillBeTold(k, d, x, j)'
    BY DEF ToldOrWillBe
  <2>1. CASE x = c
    <3>1. y.pc = "registered"
      BY <2>1
    <3>2. conn'[x].pc = "registered"
      BY <1>2, <2>1, <3>1
    <3>3. QED BY <3>2 DEF WillBeTold
  <2>2. CASE x # c
    <3>1. p # c /\ pendingConn[k][j] = p /\ memberConn[k][d] = x
      BY <1>2, <2>2
    <3>2. j \in conn[x].knows \/ WillBeTold(k, d, x, j)
      BY <1>2, <1>5, <2>2, <3>1 DEF HubInv, ToldOrWillBe, Calm
    <3>3. ASSUME NEW e \in Conns, conn[e].pc = "announcing" PROVE conn'[e] = conn[e]
      BY <1>2, <3>3
    <3>4. QED BY <1>2, <2>2, <3>2, <3>3 DEF WillBeTold
  <2>3. QED BY <2>1, <2>2
<1>13. QED BY <1>4, <1>5, <1>6, <1>7, <1>8, <1>9, <1>10, <1>11, <1>12 DEF HubInv

\* The websocket handshake: a connection that is new in every respect.
LEMMA AcceptInv ==
  ASSUME HubInv, NEW c \in Conns, NEW k \in Keys,
         \/ \E d \in Devices : AcceptMember(c, k, d)
         \/ \E j \in Joins : AcceptPending(c, k, j)
  PROVE  HubInv'
<1>1. /\ conn[c].pc = "gone" /\ Unreferenced(c)
      /\ UNCHANGED <<registryVars, memberConn, pendingConn, timer, jobs>>
  BY DEF AcceptMember, AcceptPending
<1>2. PICK y \in Connections :
        /\ conn' = [conn EXCEPT ![c] = y]
        /\ y.pc = "accepted" /\ y.target = None /\ ServedRightly(y)
  <2>1. ASSUME NEW d \in Devices, AcceptMember(c, k, d)
        PROVE  \E y \in Connections :
                 /\ conn' = [conn EXCEPT ![c] = y]
                 /\ y.pc = "accepted" /\ y.target = None /\ ServedRightly(y)
    <3> DEFINE y == [Gone EXCEPT !.pc = "accepted", !.key = k, !.device = d,
                                 !.role = "member", !.open = TRUE]
    <3>1. y \in Connections /\ y.pc = "accepted" /\ y.target = None
      BY DEF Gone, Connections, Pcs
    <3>2. ServedRightly(y)
      BY DEF ServedRightly, Gone
    <3>3. conn' = [conn EXCEPT ![c] = y]
      BY <2>1 DEF AcceptMember
    <3> HIDE DEF y
    <3>4. QED BY <3>1, <3>2, <3>3
  <2>2. ASSUME NEW j \in Joins, AcceptPending(c, k, j)
        PROVE  \E y \in Connections :
                 /\ conn' = [conn EXCEPT ![c] = y]
                 /\ y.pc = "accepted" /\ y.target = None /\ ServedRightly(y)
    <3> DEFINE y == [Gone EXCEPT !.pc = "accepted", !.key = k, !.device = j.device,
                                 !.role = "pending", !.join = j, !.open = TRUE]
    <3>1. j.device \in Devices
      BY DEF Joins
    <3>2. y \in Connections
      BY <3>1 DEF Gone, Connections, Pcs
    <3>3. /\ y.pc = "accepted" /\ y.target = None /\ y.key = k /\ y.device = j.device
          /\ y.role = "pending" /\ y.join = j
      BY DEF Gone
    <3>4. conn' = [conn EXCEPT ![c] = y]
      BY <2>2 DEF AcceptPending
    <3> HIDE DEF y
    <3>5. j.seq <= joinSeq
      BY <2>2 DEF AcceptPending, PendingExists, HubInv, JoinsNumbered
    <3>6. ServedRightly(y)
      BY <3>1, <3>3, <3>5, NoJoinIsNone DEF ServedRightly
    <3>7. QED BY <3>2, <3>3, <3>4, <3>6
  <2>3. QED BY <2>1, <2>2
<1>3. /\ \A i \in Keys, d \in Devices : memberConn[i][d] # c
      /\ \A i \in Keys, j \in Joins : pendingConn[i][j] # c
      /\ \A e \in Conns : conn[e].target # c
  BY <1>1 DEF Unreferenced
<1>4. /\ timer' \in [Keys -> [Devices -> Timers]]
      /\ memberConn' \in [Keys -> [Devices -> Conns \cup {None}]]
      /\ pendingConn' \in [Keys -> [Joins -> Conns \cup {None}]]
  BY <1>1 DEF HubInv, HubTyped
<1>5. /\ \A i \in Keys, d \in Devices : memberConn'[i][d] = memberConn[i][d]
      /\ \A i \in Keys, j \in Joins : pendingConn'[i][j] = pendingConn[i][j]
  BY <1>1
<1>6. QED BY <1>1, <1>2, <1>3, <1>4, <1>5, EntersKeeps

\* register: the connection takes its place in the hub, and whichever had it before
\* is the one to close.
LEMMA RegisterInv ==
  ASSUME HubInv, NEW c \in Conns, RegisterMember(c) \/ RegisterPending(c)
  PROVE  HubInv'
<1> DEFINE k == conn[c].key  d == conn[c].device  j == conn[c].join
<1>1. conn[c].pc = "accepted"
  BY DEF RegisterMember, RegisterPending
<1>2. conn[c] \in Connections /\ conn \in [Conns -> Connections] /\ ServedRightly(conn[c])
      /\ k \in Keys /\ d \in Devices
  BY <1>1, ServedIs
<1>3. conn[c].target = None
  BY <1>1, <1>2 DEF ServedRightly
<1>4. /\ \A i \in Keys, e \in Devices : memberConn[i][e] # c
      /\ \A i \in Keys, h \in Joins : pendingConn[i][h] # c
      /\ \A e \in Conns : conn[e].target # c
  BY <1>1 DEF HubInv, MemberServed, PendingServed, TargetServed
<1>5. /\ memberConn \in [Keys -> [Devices -> Conns \cup {None}]]
      /\ pendingConn \in [Keys -> [Joins -> Conns \cup {None}]]
      /\ timer \in [Keys -> [Devices -> Timers]]
  BY DEF HubInv, HubTyped
<1>6. ASSUME NEW prev \in Conns \cup {None}
      PROVE  LET y == [conn[c] EXCEPT !.pc = "registered", !.prev = prev] IN
             /\ y \in Connections /\ y.pc = "registered" /\ y.target = None
             /\ y.role = conn[c].role /\ y.key = k /\ y.device = d /\ y.join = j
             /\ ServedRightly(y)
  <2> DEFINE y == [conn[c] EXCEPT !.pc = "registered", !.prev = prev]
  <2>1. y \in Connections
    BY <1>2 DEF Connections, Pcs
  <2>2. /\ y.pc = "registered" /\ y.target = None
        /\ y.role = conn[c].role /\ y.key = k /\ y.device = d /\ y.join = j
    BY <1>2, <1>3 DEF Connections
  <2> HIDE DEF y
  <2>3. ServedRightly(y)
    BY <1>1, <1>2, <2>2 DEF ServedRightly
  <2>4. QED BY <2>1, <2>2, <2>3 DEF y
<1>7. CASE RegisterMember(c)
  <2> DEFINE prev == memberConn[k][d]
             y == [conn[c] EXCEPT !.pc = "registered", !.prev = prev]
  <2>1. prev \in Conns \cup {None}
    BY <1>2, <1>5
  <2>2. /\ y \in Connections /\ y.pc = "registered" /\ y.target = None
        /\ y.role = "member" /\ y.key = k /\ y.device = d
        /\ ServedRightly(y)
    BY <1>6, <1>7, <2>1 DEF RegisterMember
  <2>3. conn' = [conn EXCEPT ![c] = y] /\ memberConn' = [memberConn EXCEPT ![k][d] = c]
        /\ UNCHANGED <<registryVars, pendingConn, jobs>>
    BY <1>2, <1>7 DEF RegisterMember
  <2>4. timer' \in [Keys -> [Devices -> Timers]]
    BY <1>2, <1>7, TimersTyped DEF RegisterMember, HubInv
  <2> HIDE DEF y
  <2>5. /\ memberConn' \in [Keys -> [Devices -> Conns \cup {None}]]
        /\ \A i \in Keys, e \in Devices :
             \/ memberConn'[i][e] = memberConn[i][e]
             \/ /\ memberConn'[i][e] = c
                /\ y.pc = "registered" /\ y.role = "member" /\ y.key = i /\ y.device = e
    BY <1>2, <1>5, <2>2, <2>3
  <2>6. QED BY <1>1, <1>4, <1>5, <2>2, <2>3, <2>4, <2>5, EntersKeeps
<1>8. CASE RegisterPending(c)
  <2>1. j \in Joins
    BY <1>1, <1>2, <1>8 DEF RegisterPending, ServedRightly, Connections
  <2> DEFINE prev == pendingConn[k][j]
             y == [conn[c] EXCEPT !.pc = "registered", !.prev = prev]
  <2>2. prev \in Conns \cup {None}
    BY <1>2, <1>5, <2>1
  <2>3. /\ y \in Connections /\ y.pc = "registered" /\ y.target = None
        /\ y.role = "pending" /\ y.key = k /\ y.join = j
        /\ ServedRightly(y)
    BY <1>6, <1>8, <2>2 DEF RegisterPending
  <2>4. conn' = [conn EXCEPT ![c] = y] /\ pendingConn' = [pendingConn EXCEPT ![k][j] = c]
        /\ UNCHANGED <<registryVars, memberConn, timer, jobs>>
    BY <1>2, <1>8 DEF RegisterPending
  <2> HIDE DEF y
  <2>5. /\ pendingConn' \in [Keys -> [Joins -> Conns \cup {None}]]
        /\ \A i \in Keys, h \in Joins :
             \/ pendingConn'[i][h] = pendingConn[i][h]
             \/ /\ pendingConn'[i][h] = c
                /\ y.pc = "registered" /\ y.role = "pending" /\ y.key = i /\ y.join = h
    BY <1>2, <1>5, <2>1, <2>3, <2>4
  <2>6. QED BY <1>1, <1>4, <1>5, <2>3, <2>4, <2>5, EntersKeeps
<1>9. QED BY <1>7, <1>8

-----------------------------------------------------------------------------
(* The steps that change who is online                                     *)

\* SetOnline(k, d, TRUE) brings d online in k and asks nobody in or out.
LEMMA ComesOnline ==
  ASSUME Inv, NEW k \in Keys, NEW d \in Devices, SetOnline(k, d, TRUE)
  PROVE  /\ Inv' /\ d \in online'[k] /\ UNCHANGED <<pendingJoins, joinSeq>>
         /\ \A i \in Keys : online[i] \subseteq online'[i]
         /\ \A i \in Keys \ {k} : owner'[i] = owner[i]
<1>1. Next
  BY CallsAreOperations DEF Inv
<1>2. Inv'
  BY <1>1, NextInv
<1>3. /\ online' = [online EXCEPT ![k] = online[k] \cup {d}]
      /\ owner' = [owner EXCEPT ![k] = ElectedOwner(priority[k], online'[k])]
      /\ UNCHANGED <<pendingJoins, joinSeq>>
  BY DEF SetOnline
<1>4. QED BY <1>2, <1>3 DEF Inv, TypeOK

\* The goroutine of x, as y, goes on to announce something.
Announces(x, y) ==
  /\ y.pc = "announcing" /\ y.key = x.key /\ y.device = x.device /\ y.role = x.role
  /\ y.join = x.join /\ y.answering = x.answering /\ y.target = x.target
  /\ y.overtaken = x.overtaken
  /\ y.open => x.open
  /\ x.knows \subseteq y.knows

\* A goroutine has let the registry know that a device is connected, its own or the
\* one that its decision admits, and is about to tell the owner of who waits.
LEMMA OnlineKeeps ==
  ASSUME HubInv, NEW c \in Conns, NEW d \in Devices, HubTyped',
         SetOnline(conn[c].key, d, TRUE), UNCHANGED <<memberConn, pendingConn, jobs>>,
         \A x \in Conns \ {c} : Touched(conn[x], conn'[x]),
         \/ conn[c].pc = "registered" /\ conn[c].role = "member" /\ d = conn[c].device
         \/ conn[c].pc = "promoted" /\ d = conn[c].answering.device,
         Announces(conn[c], conn'[c]),
         conn'[c].tellTo = owner'[conn[c].key],
         \/ owner'[conn[c].key] = owner[conn[c].key]
            /\ (conn[c].pc = "registered" => owner'[conn[c].key] # d)
         \/ conn'[c].tell = pendingJoins[conn[c].key]
  PROVE  HubInv'
<1> DEFINE k == conn[c].key
<1>1. conn[c].pc \in {"registered", "promoted"} /\ ServedRightly(conn[c]) /\ k \in Keys
  BY ServedIs
<1>2. /\ Inv' /\ d \in online'[k] /\ pendingJoins' = pendingJoins /\ joinSeq' = joinSeq
      /\ \A i \in Keys : online[i] \subseteq online'[i]
      /\ \A i \in Keys \ {k} : owner'[i] = owner[i]
  BY <1>1, ComesOnline DEF HubInv
<1>3. ASSUME NEW x \in Conns
      PROVE  /\ conn'[x].key = conn[x].key /\ conn'[x].device = conn[x].device
             /\ conn'[x].role = conn[x].role /\ conn'[x].join = conn[x].join
             /\ conn'[x].answering = conn[x].answering /\ conn'[x].target = conn[x].target
             /\ conn'[x].overtaken = conn[x].overtaken
             /\ conn'[x].open => conn[x].open
             /\ conn[x].knows \subseteq conn'[x].knows
             /\ conn'[x].pc = IF x = c THEN "announcing" ELSE conn[x].pc
  BY DEF Touched, Announces
<1>4. Served'
  <2>1. ASSUME NEW x \in Conns PROVE ServedRightly(conn[x])'
    <3>1. ServedRightly(conn[x]) BY DEF HubInv, Served
    <3>2. CASE x = c
      BY <1>1, <1>2, <1>3, <3>1, <3>2 DEF ServedRightly
    <3>3. CASE x # c
      BY <1>2, <1>3, <3>1, <3>3 DEF ServedRightly
    <3>4. QED BY <3>2, <3>3
  <2>2. QED BY <2>1 DEF Served
<1>5. JoinsNumbered'
  BY <1>2 DEF HubInv, JoinsNumbered
<1>6. PendingServed'
  BY <1>1, <1>3 DEF HubInv, PendingServed
<1>7. MemberServed'
  BY <1>1, <1>3 DEF HubInv, MemberServed
<1>8. TargetServed'
  BY <1>1, <1>3 DEF HubInv, TargetServed
<1>9. OnlineOnceSetUp'
  <2> SUFFICES ASSUME NEW i \in Keys, NEW e \in Devices, NEW x \in Conns,
                      memberConn'[i][e] = x, conn'[x].pc \in SetUp, conn'[x].open,
                      Decided(x)'
               PROVE  e \in online'[i]
    BY DEF OnlineOnceSetUp
  <2>1. conn[x].pc # "gone" /\ memberConn[i][e] = x
    BY <1>1, <1>3 DEF SetUp
  <2>2. conn[x].key = i /\ conn[x].device = e
    BY <2>1 DEF HubInv, MemberServed
  <2>3. CASE conn[c].pc = "registered" /\ x = c
    BY <1>2, <2>2, <2>3
  <2>4. CASE conn[c].pc = "promoted" /\ conn[c].target = x
    <3>1. conn[x].key = k /\ conn[x].join = conn[c].answering
      BY <2>1, <2>4 DEF HubInv, TargetServed
    <3>2. conn[x].join # NoJoin
      BY <1>1, <2>4, <3>1 DEF ServedRightly
    <3>3. conn[x].join.device = conn[x].device
      BY <2>1, <3>2 DEF HubInv, Served, ServedRightly
    <3>4. QED BY <1>2, <2>2, <2>4, <3>1, <3>3
  <2>5. CASE ~(conn[c].pc = "registered" /\ x = c) /\ ~(conn[c].pc = "promoted" /\ conn[c].target = x)
    <3>1. conn[x].pc \in SetUp
      BY <1>1, <1>3, <2>5 DEF SetUp, Pcs
    <3>2. conn[c].target # x
      BY <1>1, <2>5, ConnsAssumption DEF ServedRightly
    <3>3. Decided(x)
      BY <1>3, <3>2 DEF Decided
    <3>4. QED BY <1>2, <1>3, <2>1, <3>1, <3>3 DEF HubInv, OnlineOnceSetUp
  <2>6. QED BY <2>3, <2>4, <2>5
<1>10. ToldOrWillBe'
  <2> SUFFICES ASSUME NEW i \in Keys, NEW e \in Devices, NEW j \in Joins,
                      NEW x \in Conns, NEW p \in Conns,
                      owner'[i] = e, j \in pendingJoins'[i],
                      memberConn'[i][e] = x, conn'[x].pc # "gone", ~conn'[x].overtaken,
                      pendingConn'[i][j] = p, conn'[p].pc # "registered"
               PROVE  j \in conn'[x].knows \/ WillBeTold(i, e, x, j)'
    BY DEF ToldOrWillBe
  <2>1. conn[x].pc # "gone" /\ memberConn[i][e] = x /\ ~conn[x].overtaken
        /\ pendingConn[i][j] = p /\ j \in pendingJoins[i]
    BY <1>1, <1>2, <1>3
  <2>2. conn[x].key = i /\ conn[x].device = e
    BY <2>1 DEF HubInv, MemberServed
  <2>3. CASE i = k /\ (owner'[k] # owner[k] \/ (conn[c].pc = "registered" /\ owner'[k] = d))
    <3>1. conn'[c].tell = pendingJoins[i] /\ conn'[c].tellTo = e /\ conn'[c].key = i
      BY <1>3, <2>3
    <3>2. QED BY <1>3, <2>1, <3>1 DEF WillBeTold
  <2>4. CASE ~(i = k /\ (owner'[k] # owner[k] \/ (conn[c].pc = "registered" /\ owner'[k] = d)))
    <3>1. owner[i] = e
      BY <1>2, <2>4
    <3>2. conn[p].pc # "registered"
      <4>1. conn[p].role = "pending"
        BY <2>1 DEF HubInv, PendingServed
      <4>2. QED BY <1>3, <4>1
    <3>3. j \in conn[x].knows \/ WillBeTold(i, e, x, j)
      BY <2>1, <3>1, <3>2 DEF HubInv, ToldOrWillBe
    <3>4. conn[x].pc = "registered" => x # c
      BY <2>2, <2>4
    <3>5. ASSUME NEW f \in Conns, conn[f].pc = "announcing"
          PROVE  Touched(conn[f], conn'[f])
      BY <1>1, <3>5
    <3>6. QED BY <1>3, <3>3, <3>4, <3>5 DEF WillBeTold, Touched
  <2>5. QED BY <2>3, <2>4
<1>11. QED BY <1>2, <1>4, <1>5, <1>6, <1>7, <1>8, <1>9, <1>10 DEF HubInv

\* A member whose connection is registered goes online.
LEMMA GoOnlineInv ==
  ASSUME HubInv, NEW c \in Conns, GoOnline(c)
  PROVE  HubInv'
<1> DEFINE k == conn[c].key
           d == conn[c].device
           tell == JoinsToTell(k, owner'[k], d)
           y == [conn[c] EXCEPT !.pc = "announcing", !.tell = tell, !.tellTo = owner'[k]]
<1>1. conn[c].pc = "registered" /\ conn[c].role = "member" /\ SetOnline(k, d, TRUE)
      /\ UNCHANGED <<memberConn, pendingConn, timer, jobs>>
  BY DEF GoOnline
<1>2. conn[c] \in Connections /\ conn \in [Conns -> Connections] /\ k \in Keys /\ d \in Devices
  BY <1>1, ServedIs
<1>3. Inv'
  BY <1>1, <1>2, ComesOnline DEF HubInv
<1>4. tell \in SUBSET Joins /\ owner'[k] \in Devices \cup {None}
  BY <1>2, <1>3 DEF JoinsToTell, HubInv, Inv, TypeOK
<1>5. conn' = [conn EXCEPT ![c] = y]
  BY <1>2 DEF GoOnline
<1>6. /\ owner'[k] # owner[k] => tell = pendingJoins[k]
      /\ owner'[k] = d => tell = pendingJoins[k]
  BY DEF JoinsToTell
<1> HIDE DEF tell
<1>7. y \in Connections
  BY <1>2, <1>4 DEF Connections, Pcs
<1>8. /\ y.pc = "announcing" /\ y.key = k /\ y.device = d /\ y.role = conn[c].role
      /\ y.join = conn[c].join /\ y.answering = conn[c].answering
      /\ y.target = conn[c].target /\ y.overtaken = conn[c].overtaken
      /\ y.open = conn[c].open /\ y.knows = conn[c].knows
      /\ y.tell = tell /\ y.tellTo = owner'[k]
  BY <1>2 DEF Connections
<1>9. conn'[c] = y /\ \A x \in Conns \ {c} : conn'[x] = conn[x]
  BY <1>2, <1>5
<1>10. \A x \in Conns \ {c} : Touched(conn[x], conn'[x])
  BY <1>9 DEF Touched
<1>11. HubTyped'
  BY <1>1, <1>2, <1>5, <1>7, OthersTyped DEF HubInv
<1> HIDE DEF y
<1>12. Announces(conn[c], conn'[c]) /\ conn'[c].tellTo = owner'[k]
  BY <1>8, <1>9 DEF Announces
<1>13. \/ owner'[k] = owner[k] /\ owner'[k] # d
       \/ conn'[c].tell = pendingJoins[k]
  BY <1>6, <1>8, <1>9
<1>14. QED BY <1>1, <1>2, <1>10, <1>11, <1>12, <1>13, OnlineKeeps

\* So does a device that was promoted; whichever connection it had is closed.
LEMMA GoOnlinePromotedInv ==
  ASSUME HubInv, NEW c \in Conns, GoOnlinePromoted(c)
  PROVE  HubInv'
<1> DEFINE k == conn[c].key
           d == conn[c].answering.device
           cs == Closing(conn, conn[c].prev)
           tell == IF owner'[k] # owner[k] THEN pendingJoins[k] ELSE {}
           y == [cs[c] EXCEPT !.pc = "announcing", !.prev = None, !.tell = tell,
                              !.tellTo = owner'[k]]
<1>1. conn[c].pc = "promoted" /\ SetOnline(k, d, TRUE)
      /\ UNCHANGED <<memberConn, pendingConn, timer, jobs>>
  BY DEF GoOnlinePromoted
<1>2. conn[c] \in Connections /\ conn \in [Conns -> Connections] /\ k \in Keys
      /\ conn[c].prev \in Conns \cup {None} /\ conn[c].answering \in Joins
  BY <1>1, ServedIs DEF ServedRightly
<1>3. d \in Devices
  BY <1>2 DEF Joins
<1>4. Inv'
  BY <1>1, <1>2, <1>3, ComesOnline DEF HubInv
<1>5. tell \in SUBSET Joins /\ owner'[k] \in Devices \cup {None}
  BY <1>2, <1>4 DEF HubInv, Inv, TypeOK
<1>6. cs \in [Conns -> Connections] /\ \A x \in Conns : Touched(conn[x], cs[x])
  BY <1>2, ClosingTouches
<1>7. conn' = [cs EXCEPT ![c] = y]
  <2>1. conn' = [cs EXCEPT ![c].pc = "announcing", ![c].prev = None, ![c].tell = tell,
                           ![c].tellTo = owner'[k]]
    BY DEF GoOnlinePromoted
  <2> HIDE DEF cs, tell
  <2>2. QED BY <1>6, <2>1
<1>8. owner'[k] # owner[k] => tell = pendingJoins[k]
  OBVIOUS
<1> HIDE DEF cs, tell
<1>9. cs[c] \in Connections /\ Touched(conn[c], cs[c])
  BY <1>6
<1>10. y \in Connections
  BY <1>5, <1>9 DEF Connections, Pcs
<1>11. /\ y.pc = "announcing" /\ y.key = k /\ y.device = conn[c].device
       /\ y.role = conn[c].role /\ y.join = conn[c].join
       /\ y.answering = conn[c].answering /\ y.target = conn[c].target
       /\ y.overtaken = conn[c].overtaken /\ y.open = cs[c].open
       /\ y.knows = cs[c].knows /\ y.tell = tell /\ y.tellTo = owner'[k]
  <2>1. /\ y.pc = "announcing" /\ y.key = cs[c].key /\ y.device = cs[c].device
        /\ y.role = cs[c].role /\ y.join = cs[c].join
        /\ y.answering = cs[c].answering /\ y.target = cs[c].target
        /\ y.overtaken = cs[c].overtaken /\ y.open = cs[c].open
        /\ y.knows = cs[c].knows /\ y.tell = tell /\ y.tellTo = owner'[k]
    BY <1>9 DEF Connections
  <2>2. QED BY <1>9, <2>1 DEF Touched
<1>12. conn'[c] = y /\ \A x \in Conns \ {c} : conn'[x] = cs[x]
  BY <1>6, <1>7
<1>13. \A x \in Conns \ {c} : Touched(conn[x], conn'[x])
  BY <1>6, <1>12
<1>14. HubTyped'
  BY <1>1, <1>6, <1>7, <1>10, OthersTyped DEF HubInv
<1> HIDE DEF y
<1>15. Announces(conn[c], conn'[c]) /\ conn'[c].tellTo = owner'[k]
  BY <1>9, <1>11, <1>12 DEF Announces, Touched
<1>16. owner'[k] = owner[k] \/ conn'[c].tell = pendingJoins[k]
  BY <1>8, <1>11, <1>12
<1>17. QED BY <1>1, <1>3, <1>13, <1>14, <1>15, <1>16, OnlineKeeps

\* The registry does not know the device of a connection, which gives up.
LEMMA RejectOnlineInv ==
  ASSUME HubInv, NEW c \in Conns, RejectOnline(c)
  PROVE  HubInv'
<1> DEFINE y == [conn[c] EXCEPT !.pc = "leaving", !.prev = None]
<1>1. conn[c].pc = "registered" /\ conn[c].role = "member"
      /\ UNCHANGED <<registryVars, memberConn, pendingConn, timer, jobs>>
  BY DEF RejectOnline
<1>2. conn[c] \in Connections /\ conn \in [Conns -> Connections] /\ ServedRightly(conn[c])
  BY <1>1, ServedIs
<1>3. conn' = [conn EXCEPT ![c] = y]
  BY <1>2 DEF RejectOnline
<1>4. y \in Connections
  BY <1>2 DEF Connections, Pcs
<1>5. /\ y.pc = "leaving" /\ y.key = conn[c].key /\ y.device = conn[c].device
      /\ y.role = conn[c].role /\ y.join = conn[c].join /\ y.target = conn[c].target
      /\ y.answering = conn[c].answering
  BY <1>2 DEF Connections
<1>6. conn'[c] = y /\ \A x \in Conns \ {c} : conn'[x] = conn[x]
  BY <1>2, <1>3
<1>7. HubTyped'
  BY <1>1, <1>2, <1>3, <1>4, OthersTyped DEF HubInv
<1> HIDE DEF y
<1>8. Inv' /\ Calm
  BY <1>1, RegistryKept DEF HubInv
<1>9. Served'
  <2>1. ASSUME NEW x \in Conns PROVE ServedRightly(conn[x])'
    <3>1. ServedRightly(conn[x]) BY DEF HubInv, Served
    <3>2. CASE x = c
      BY <1>1, <1>2, <1>5, <1>6, <1>8, <3>2 DEF ServedRightly, Calm
    <3>3. CASE x # c
      BY <1>6, <1>8, <3>1, <3>3 DEF ServedRightly, Calm
    <3>4. QED BY <3>2, <3>3
  <2>2. QED BY <2>1 DEF Served
<1>10. JoinsNumbered'
  BY <1>8 DEF HubInv, JoinsNumbered, Calm
<1>11. PendingServed' /\ MemberServed' /\ TargetServed'
  BY <1>1, <1>5, <1>6 DEF HubInv, PendingServed, MemberServed, TargetServed
<1>12. OnlineOnceSetUp'
  <2> SUFFICES ASSUME NEW k \in Keys, NEW d \in Devices, NEW x \in Conns,
                      memberConn'[k][d] = x, conn'[x].pc \in SetUp, conn'[x].open,
                      Decided(x)'
               PROVE  d \in online'[k]
    BY DEF OnlineOnceSetUp
  <2>1. conn'[x] = conn[x]
    BY <1>5, <1>6 DEF SetUp
  <2>2. Decided(x)
    BY <1>1, <1>2, <1>6, ConnsAssumption DEF Decided, ServedRightly
  <2>3. QED BY <1>1, <1>8, <2>1, <2>2 DEF HubInv, OnlineOnceSetUp, Calm
<1>13. ToldOrWillBe'
  <2> SUFFICES ASSUME NEW k \in Keys, NEW d \in Devices, NEW j \in Joins,
                      NEW x \in Conns, NEW p \in Conns,
                      owner'[k] = d, j \in pendingJoins'[k],
                      memberConn'[k][d] = x, conn'[x].pc # "gone", ~conn'[x].overtaken,
                      pendingConn'[k][j] = p, conn'[p].pc # "registered"
               PROVE  j \in conn'[x].knows \/ WillBeTold(k, d, x, j)'
    BY DEF ToldOrWillBe
  <2>1. owner[k] = d /\ j \in pendingJoins[k] /\ memberConn[k][d] = x /\ pendingConn[k][j] = p
    BY <1>1, <1>8 DEF Calm
  <2>2. x # c
    <3>1. d \in online[k] /\ d \in Members(k) /\ k \in channels
      BY <2>1, DevicesAssumption DEF HubInv, Inv, OwnerIsMostSenior, TypeOK
    <3>2. SUFFICES ASSUME x = c PROVE FALSE
      OBVIOUS
    <3>3. conn[c].key = k /\ conn[c].device = d
      BY <1>1, <2>1, <3>2 DEF HubInv, MemberServed
    <3>4. QED BY <3>1, <3>3 DEF RejectOnline
  <2>3. p # c
    BY <1>1, <2>1 DEF HubInv, PendingServed
  <2>4. j \in conn[x].knows \/ WillBeTold(k, d, x, j)
    BY <1>6, <2>1, <2>2, <2>3 DEF HubInv, ToldOrWillBe
  <2>5. ASSUME NEW e \in Conns, conn[e].pc = "announcing" PROVE conn'[e] = conn[e]
    BY <1>1, <1>6, <2>5
  <2>6. QED BY <1>1, <1>6, <2>2, <2>4, <2>5 DEF WillBeTold
<1>14. QED BY <1>7, <1>8, <1>9, <1>10, <1>11, <1>12, <1>13 DEF HubInv

\* A pending device is connected: its goroutine is about to tell whoever owns the
\* channel by then.
LEMMA AskOwnerInv ==
  ASSUME HubInv, NEW c \in Conns, AskOwner(c)
  PROVE  HubInv'
<1> DEFINE k == conn[c].key
           j == conn[c].join
           cs == Closing(conn, conn[c].prev)
           tell == IF PendingExists(k, j.device, j) THEN {j} ELSE {}
           y == [cs[c] EXCEPT !.pc = "announcing", !.prev = None, !.tell = tell,
                              !.tellTo = owner[k]]
<1>1. conn[c].pc = "registered" /\ conn[c].role = "pending"
      /\ UNCHANGED <<registryVars, memberConn, pendingConn, timer, jobs>>
  BY DEF AskOwner
<1>2. conn[c] \in Connections /\ conn \in [Conns -> Connections] /\ k \in Keys
      /\ conn[c].prev \in Conns \cup {None} /\ ServedRightly(conn[c])
  BY <1>1, ServedIs
<1>3. j \in Joins
  BY <1>1, <1>2 DEF ServedRightly, Connections
<1>4. tell \in SUBSET Joins /\ owner[k] \in Devices \cup {None}
  BY <1>2, <1>3 DEF HubInv, Inv, TypeOK
<1>5. cs \in [Conns -> Connections] /\ \A x \in Conns : Touched(conn[x], cs[x])
  BY <1>2, ClosingTouches
<1>6. conn' = [cs EXCEPT ![c] = y]
  <2>1. conn' = [cs EXCEPT ![c].pc = "announcing", ![c].prev = None, ![c].tell = tell,
                           ![c].tellTo = owner[k]]
    BY DEF AskOwner
  <2> HIDE DEF cs, tell
  <2>2. QED BY <1>5, <2>1
<1>7. j \in pendingJoins[k] => tell = {j}
  BY <1>2 DEF PendingExists, HubInv, Inv, TypeOK
<1> HIDE DEF cs, tell
<1>8. cs[c] \in Connections /\ Touched(conn[c], cs[c])
  BY <1>5
<1>9. y \in Connections
  BY <1>4, <1>8 DEF Connections, Pcs
<1>10. /\ y.pc = "announcing" /\ y.key = cs[c].key /\ y.device = cs[c].device
       /\ y.role = cs[c].role /\ y.join = cs[c].join
       /\ y.answering = cs[c].answering /\ y.target = cs[c].target
       /\ y.overtaken = cs[c].overtaken /\ y.open = cs[c].open
       /\ y.knows = cs[c].knows /\ y.tell = tell /\ y.tellTo = owner[k]
  BY <1>8 DEF Connections
<1>11. conn'[c] = y /\ \A x \in Conns \ {c} : conn'[x] = cs[x]
  BY <1>5, <1>6
<1>12. HubTyped'
  BY <1>1, <1>5, <1>6, <1>9, OthersTyped DEF HubInv
<1> HIDE DEF y
<1>13. Announces(conn[c], conn'[c]) /\ conn'[c].tell = tell /\ conn'[c].tellTo = owner[k]
  BY <1>8, <1>10, <1>11 DEF Announces, Touched
<1>14. \A x \in Conns \ {c} : Touched(conn[x], conn'[x])
  BY <1>5, <1>11
<1>15. ASSUME NEW x \in Conns
       PROVE  /\ conn'[x].key = conn[x].key /\ conn'[x].device = conn[x].device
              /\ conn'[x].role = conn[x].role /\ conn'[x].join = conn[x].join
              /\ conn'[x].answering = conn[x].answering /\ conn'[x].target = conn[x].target
              /\ conn'[x].overtaken = conn[x].overtaken
              /\ conn'[x].open => conn[x].open
              /\ conn[x].knows \subseteq conn'[x].knows
              /\ conn'[x].pc = IF x = c THEN "announcing" ELSE conn[x].pc
  BY <1>13, <1>14 DEF Touched, Announces
<1>16. Inv' /\ Calm
  BY <1>1, RegistryKept DEF HubInv
<1>17. Served'
  <2>1. ASSUME NEW x \in Conns PROVE ServedRightly(conn[x])'
    <3>1. ServedRightly(conn[x]) BY DEF HubInv, Served
    <3>2. CASE x = c
      BY <1>1, <1>15, <1>16, <3>1, <3>2 DEF ServedRightly, Calm
    <3>3. CASE x # c
      BY <1>15, <1>16, <3>1, <3>3 DEF ServedRightly, Calm
    <3>4. QED BY <3>2, <3>3
  <2>2. QED BY <2>1 DEF Served
<1>18. JoinsNumbered'
  BY <1>16 DEF HubInv, JoinsNumbered, Calm
<1>19. PendingServed' /\ MemberServed' /\ TargetServed'
  BY <1>1, <1>15 DEF HubInv, PendingServed, MemberServed, TargetServed
<1>20. OnlineOnceSetUp'
  <2> SUFFICES ASSUME NEW i \in Keys, NEW d \in Devices, NEW x \in Conns,
                      memberConn'[i][d] = x, conn'[x].pc \in SetUp, conn'[x].open,
                      Decided(x)'
               PROVE  d \in online'[i]
    BY DEF OnlineOnceSetUp
  <2>1. x # c
    BY <1>1 DEF HubInv, MemberServed
  <2>2. conn[x].pc \in SetUp /\ conn[x].open
    BY <1>15, <2>1
  <2>3. Decided(x)
    BY <1>1, <1>2, <1>15, ConnsAssumption DEF Decided, ServedRightly
  <2>4. QED BY <1>1, <1>16, <2>2, <2>3 DEF HubInv, OnlineOnceSetUp, Calm
<1>21. ToldOrWillBe'
  <2> SUFFICES ASSUME NEW i \in Keys, NEW d \in Devices, NEW h \in Joins,
                      NEW x \in Conns, NEW p \in Conns,
                      owner'[i] = d, h \in pendingJoins'[i],
                      memberConn'[i][d] = x, conn'[x].pc # "gone", ~conn'[x].overtaken,
                      pendingConn'[i][h] = p, conn'[p].pc # "registered"
               PROVE  h \in conn'[x].knows \/ WillBeTold(i, d, x, h)'
    BY DEF ToldOrWillBe
  <2>1. owner[i] = d /\ h \in pendingJoins[i] /\ memberConn[i][d] = x /\ pendingConn[i][h] = p
    BY <1>1, <1>16 DEF Calm
  <2>2. CASE p = c
    <3>1. i = k /\ h = j
      BY <2>1, <2>2 DEF HubInv, PendingServed
    <3>2. /\ conn'[c].pc = "announcing" /\ conn'[c].key = i
          /\ conn'[c].tellTo = d /\ h \in conn'[c].tell
      BY <1>7, <1>13, <1>15, <2>1, <3>1
    <3>3. QED BY <3>2 DEF WillBeTold
  <2>3. CASE p # c
    <3>1. conn[x].pc # "gone" /\ ~conn[x].overtaken /\ conn[p].pc # "registered"
      BY <1>1, <1>15, <2>3
    <3>2. x # c
      BY <1>1, <2>1 DEF HubInv, MemberServed
    <3>3. h \in conn[x].knows \/ WillBeTold(i, d, x, h)
      BY <2>1, <3>1 DEF HubInv, ToldOrWillBe
    <3>4. ASSUME NEW e \in Conns, conn[e].pc = "announcing"
          PROVE  Touched(conn[e], conn'[e])
      BY <1>1, <1>14, <3>4
    <3>5. QED BY <1>1, <1>15, <3>2, <3>3, <3>4 DEF WillBeTold, Touched
  <2>4. QED BY <2>2, <2>3
<1>22. QED BY <1>12, <1>16, <1>17, <1>18, <1>19, <1>20, <1>21 DEF HubInv

-----------------------------------------------------------------------------
(* The end of a connection                                                 *)

\* unregister takes away the one entry that a connection can have in each map.
LEMMA LeaveInv ==
  ASSUME HubInv, NEW c \in Conns, Unregister(c) \/ Disconnect(c)
  PROVE  HubInv'
<1> DEFINE k == conn[c].key  d == conn[c].device  j == conn[c].join
<1>1. Leave(c) /\ conn[c].pc \in {"leaving", "reading"}
  BY DEF Unregister, Disconnect
<1>2. conn[c] \in Connections /\ conn \in [Conns -> Connections]
      /\ k \in Keys /\ d \in Devices /\ ServedRightly(conn[c])
  BY <1>1, ServedIs
<1>3. j \in Joins \cup {NoJoin} /\ conn[c].target = None
  BY <1>1, <1>2 DEF Connections, ServedRightly
<1>4. conn' = [conn EXCEPT ![c] = Gone] /\ UNCHANGED <<registryVars, jobs>>
  BY <1>1 DEF Leave
<1>5. Gone \in Connections /\ Gone.pc = "gone" /\ Gone.target = None
  BY DEF Gone, Connections, Pcs
<1>6. conn'[c] = Gone /\ \A x \in Conns \ {c} : conn'[x] = conn[x]
  BY <1>2, <1>4
<1>7. /\ memberConn \in [Keys -> [Devices -> Conns \cup {None}]]
      /\ pendingConn \in [Keys -> [Joins -> Conns \cup {None}]]
      /\ timer \in [Keys -> [Devices -> Timers]]
  BY DEF HubInv, HubTyped
<1>8. /\ memberConn' \in [Keys -> [Devices -> Conns \cup {None}]]
      /\ timer' \in [Keys -> [Devices -> Timers]]
      /\ \A i \in Keys, e \in Devices :
           memberConn'[i][e] \in {memberConn[i][e], None} /\ memberConn'[i][e] # c
  <2>1. \A i \in Keys, e \in Devices : memberConn[i][e] = c => i = k /\ e = d
    BY <1>1 DEF HubInv, MemberServed
  <2>2. CASE IsCurrentMember(c)
    <3>1. memberConn' = [memberConn EXCEPT ![k][d] = None] /\ StartTimer(k, d, "left")
      BY <1>1, <2>2 DEF Leave
    <3>2. timer' \in [Keys -> [Devices -> Timers]]
      BY <1>2, <3>1, TimersTyped DEF HubInv
    <3>3. QED BY <1>2, <1>7, <2>1, <3>1, <3>2, ConnsAssumption
  <2>3. CASE ~IsCurrentMember(c)
    <3>1. memberConn' = memberConn /\ timer' = timer
      BY <1>1, <2>3 DEF Leave
    <3>2. QED BY <1>2, <1>7, <2>1, <2>3, <3>1 DEF IsCurrentMember
  <2>4. QED BY <2>2, <2>3
<1>9. /\ pendingConn' \in [Keys -> [Joins -> Conns \cup {None}]]
      /\ \A i \in Keys, h \in Joins :
           pendingConn'[i][h] \in {pendingConn[i][h], None} /\ pendingConn'[i][h] # c
  <2>1. \A i \in Keys, h \in Joins : pendingConn[i][h] = c => i = k /\ h = j
    BY DEF HubInv, PendingServed
  <2>2. CASE IsCurrentPending(c)
    <3>1. pendingConn' = [pendingConn EXCEPT ![k][j] = None] /\ j \in Joins
      BY <1>1, <1>3, <2>2 DEF Leave, IsCurrentPending
    <3>2. QED BY <1>2, <1>7, <2>1, <3>1, ConnsAssumption
  <2>3. CASE ~IsCurrentPending(c)
    <3>1. pendingConn' = pendingConn
      BY <1>1, <2>3 DEF Leave
    <3>2. QED BY <1>2, <1>7, <2>1, <2>3, <3>1, NoJoinIsNone DEF IsCurrentPending
  <2>4. QED BY <2>2, <2>3
<1>10. HubTyped'
  BY <1>2, <1>4, <1>5, <1>8, <1>9 DEF HubInv, HubTyped
<1>11. Inv' /\ Calm
  BY <1>4, RegistryKept DEF HubInv
<1>12. Served'
  <2>1. ASSUME NEW x \in Conns PROVE ServedRightly(conn[x])'
    <3>1. ServedRightly(conn[x]) BY DEF HubInv, Served
    <3>2. CASE x = c
      BY <1>5, <1>6, <3>2 DEF ServedRightly
    <3>3. CASE x # c
      BY <1>6, <1>11, <3>1, <3>3 DEF ServedRightly, Calm
    <3>4. QED BY <3>2, <3>3
  <2>2. QED BY <2>1 DEF Served
<1>13. JoinsNumbered'
  BY <1>11 DEF HubInv, JoinsNumbered, Calm
<1>14. PendingServed'
  <2> SUFFICES ASSUME NEW i \in Keys, NEW h \in Joins, NEW p \in Conns, pendingConn'[i][h] = p
               PROVE  /\ conn'[p].pc \notin {"gone", "accepted"} /\ conn'[p].role = "pending"
                      /\ conn'[p].key = i /\ conn'[p].join = h
    BY DEF PendingServed
  <2>1. pendingConn[i][h] = p /\ p # c
    BY <1>9, ConnsAssumption
  <2>2. QED BY <1>6, <2>1 DEF HubInv, PendingServed
<1>15. MemberServed'
  <2> SUFFICES ASSUME NEW i \in Keys, NEW e \in Devices, NEW x \in Conns,
                      memberConn'[i][e] = x, conn'[x].pc # "gone"
               PROVE  /\ conn'[x].pc # "accepted" /\ conn'[x].role = "member"
                      /\ conn'[x].key = i /\ conn'[x].device = e
    BY DEF MemberServed
  <2>1. memberConn[i][e] = x /\ x # c
    BY <1>8, ConnsAssumption
  <2>2. QED BY <1>6, <2>1 DEF HubInv, MemberServed
<1>16. TargetServed'
  BY <1>5, <1>6, ConnsAssumption DEF HubInv, TargetServed
<1>17. OnlineOnceSetUp'
  <2> SUFFICES ASSUME NEW i \in Keys, NEW e \in Devices, NEW x \in Conns,
                      memberConn'[i][e] = x, conn'[x].pc \in SetUp, conn'[x].open,
                      Decided(x)'
               PROVE  e \in online'[i]
    BY DEF OnlineOnceSetUp
  <2>1. memberConn[i][e] = x /\ x # c
    BY <1>8, ConnsAssumption
  <2>2. Decided(x)
    BY <1>3, <1>6, ConnsAssumption DEF Decided
  <2>3. QED BY <1>6, <1>11, <2>1, <2>2 DEF HubInv, OnlineOnceSetUp, Calm
<1>18. ToldOrWillBe'
  <2> SUFFICES ASSUME NEW i \in Keys, NEW e \in Devices, NEW h \in Joins,
                      NEW x \in Conns, NEW p \in Conns,
                      owner'[i] = e, h \in pendingJoins'[i],
                      memberConn'[i][e] = x, conn'[x].pc # "gone", ~conn'[x].overtaken,
                      pendingConn'[i][h] = p, conn'[p].pc # "registered"
               PROVE  h \in conn'[x].knows \/ WillBeTold(i, e, x, h)'
    BY DEF ToldOrWillBe
  <2>1. memberConn[i][e] = x /\ x # c /\ pendingConn[i][h] = p /\ p # c
    BY <1>8, <1>9, ConnsAssumption
  <2>2. h \in conn[x].knows \/ WillBeTold(i, e, x, h)
    BY <1>6, <1>11, <2>1 DEF HubInv, ToldOrWillBe, Calm
  <2>3. ASSUME NEW f \in Conns, conn[f].pc = "announcing" PROVE conn'[f] = conn[f]
    BY <1>1, <1>6, <2>3
  <2>4. QED BY <1>4, <1>6, <2>1, <2>2, <2>3 DEF WillBeTold
<1>19. QED BY <1>10, <1>11, <1>12, <1>13, <1>14, <1>15, <1>16, <1>17, <1>18 DEF HubInv

-----------------------------------------------------------------------------
(* A promotion                                                             *)

\* promotePending moves the connection from one map to the other, under the device
\* of its join, which may have no other place in either.
LEMMA PromotePendingInv ==
  ASSUME HubInv, NEW c \in Conns, PromotePending(c)
  PROVE  HubInv'
<1> DEFINE k == conn[c].key
           j == conn[c].answering
           t == conn[c].target
           owns == owner[k] = j.device
           z == [conn[t] EXCEPT !.role = "member", !.overtaken = @ \/ owns]
           cs == [conn EXCEPT ![t] = z]
           y == [cs[c] EXCEPT !.pc = "promoted", !.prev = memberConn[k][j.device]]
<1>1. conn[c].pc = "promoting" /\ UNCHANGED <<registryVars, jobs>>
  BY DEF PromotePending
<1>2. conn[c] \in Connections /\ conn \in [Conns -> Connections] /\ ServedRightly(conn[c])
      /\ k \in Keys /\ j \in Joins /\ j # NoJoin /\ t \in Conns
  BY <1>1, ServedIs, NoJoinIsNone DEF ServedRightly
<1>3. j.device \in Devices /\ owns \in BOOLEAN
  BY <1>2 DEF Joins
<1>4. /\ memberConn \in [Keys -> [Devices -> Conns \cup {None}]]
      /\ pendingConn \in [Keys -> [Joins -> Conns \cup {None}]]
  BY DEF HubInv, HubTyped
<1>5. z \in Connections /\ z.role = "member" /\ z.overtaken = (conn[t].overtaken \/ owns)
      /\ z.pc = conn[t].pc /\ z.key = conn[t].key /\ z.device = conn[t].device
      /\ z.join = conn[t].join /\ z.open = conn[t].open /\ z.tell = conn[t].tell
      /\ z.tellTo = conn[t].tellTo /\ z.knows = conn[t].knows
      /\ z.answering = conn[t].answering /\ z.target = conn[t].target
  <2>1. conn[t] \in Connections
    BY <1>2
  <2>2. conn[t].overtaken \in BOOLEAN
    BY <2>1 DEF Connections
  <2>3. z = [conn[t] EXCEPT !.role = "member", !.overtaken = conn[t].overtaken \/ owns]
    OBVIOUS
  <2>4. (conn[t].overtaken \/ owns) \in BOOLEAN
    BY <1>3, <2>2
  <2> DEFINE w == conn[t]
             b == w.overtaken \/ owns
  <2>5. w \in Connections /\ b \in BOOLEAN /\ z = [w EXCEPT !.role = "member", !.overtaken = b]
    BY <2>1, <2>3, <2>4
  <2>6. b = (w.overtaken \/ owns)
    OBVIOUS
  <2> HIDE DEF b, owns, z
  <2> HIDE DEF w, t
  <2>7. z \in Connections /\ z.role = "member" /\ z.overtaken = b
        /\ z.pc = w.pc /\ z.key = w.key /\ z.device = w.device
        /\ z.join = w.join /\ z.open = w.open /\ z.tell = w.tell
        /\ z.tellTo = w.tellTo /\ z.knows = w.knows
        /\ z.answering = w.answering /\ z.target = w.target
    BY <2>5 DEF Connections
  <2>8. QED BY <2>6, <2>7 DEF w
<1>6. conn' = [cs EXCEPT ![c] = y]
  <2>1. conn' = [cs EXCEPT ![c].pc = "promoted", ![c].prev = memberConn[k][j.device]]
    BY <1>2 DEF PromotePending
  <2> HIDE DEF z
  <2>2. cs \in [Conns -> Connections]
    BY <1>2, <1>5
  <2> HIDE DEF cs
  <2>3. QED BY <1>2, <2>1, <2>2
<1> HIDE DEF z
<1>7. cs \in [Conns -> Connections] /\ cs[t] = z /\ \A x \in Conns \ {t} : cs[x] = conn[x]
  BY <1>2, <1>5
<1> HIDE DEF cs
<1>8. y \in Connections /\ y.pc = "promoted" /\ y.role = cs[c].role
      /\ y.overtaken = cs[c].overtaken /\ y.key = cs[c].key /\ y.device = cs[c].device
      /\ y.join = cs[c].join /\ y.open = cs[c].open /\ y.tell = cs[c].tell
      /\ y.tellTo = cs[c].tellTo /\ y.knows = cs[c].knows
      /\ y.answering = cs[c].answering /\ y.target = cs[c].target
  <2>1. cs[c] \in Connections /\ memberConn[k][j.device] \in Conns \cup {None}
    BY <1>2, <1>3, <1>4, <1>7
  <2>2. "promoted" \in Pcs
    BY DEF Pcs
  <2>3. y = [cs[c] EXCEPT !.pc = "promoted", !.prev = memberConn[k][j.device]]
    OBVIOUS
  <2> DEFINE w == cs[c]
             p == memberConn[k][j.device]
  <2>4. w \in Connections /\ p \in Conns \cup {None}
        /\ y = [w EXCEPT !.pc = "promoted", !.prev = p]
    BY <2>1, <2>3
  <2> HIDE DEF y, p
  <2> HIDE DEF w
  <2>5. y \in Connections /\ y.pc = "promoted" /\ y.role = w.role
        /\ y.overtaken = w.overtaken /\ y.key = w.key /\ y.device = w.device
        /\ y.join = w.join /\ y.open = w.open /\ y.tell = w.tell
        /\ y.tellTo = w.tellTo /\ y.knows = w.knows
        /\ y.answering = w.answering /\ y.target = w.target
    BY <2>2, <2>4 DEF Connections
  <2>6. QED BY <2>5 DEF w
<1> HIDE DEF y
<1>9. conn'[c] = y /\ \A x \in Conns \ {c} : conn'[x] = cs[x]
  BY <1>6, <1>7
<1>10. ASSUME NEW x \in Conns
       PROVE  /\ conn'[x].key = conn[x].key /\ conn'[x].device = conn[x].device
              /\ conn'[x].join = conn[x].join /\ conn'[x].open = conn[x].open
              /\ conn'[x].tell = conn[x].tell /\ conn'[x].tellTo = conn[x].tellTo
              /\ conn'[x].knows = conn[x].knows /\ conn'[x].answering = conn[x].answering
              /\ conn'[x].target = conn[x].target
              /\ conn'[x].pc = IF x = c THEN "promoted" ELSE conn[x].pc
              /\ conn'[x].role = IF x = t THEN "member" ELSE conn[x].role
              /\ x # t => conn'[x].overtaken = conn[x].overtaken
  <2>1. /\ cs[x].pc = conn[x].pc
        /\ cs[x].key = conn[x].key /\ cs[x].device = conn[x].device
        /\ cs[x].join = conn[x].join /\ cs[x].open = conn[x].open
        /\ cs[x].tell = conn[x].tell /\ cs[x].tellTo = conn[x].tellTo
        /\ cs[x].knows = conn[x].knows /\ cs[x].answering = conn[x].answering
        /\ cs[x].target = conn[x].target
        /\ cs[x].role = IF x = t THEN "member" ELSE conn[x].role
        /\ x # t => cs[x].overtaken = conn[x].overtaken
    BY <1>5, <1>7
  <2>2. QED BY <1>8, <1>9, <2>1
<1>11. conn'[t].overtaken = (conn[t].overtaken \/ owns)
  BY <1>2, <1>5, <1>7, <1>8, <1>9
<1>12. memberConn' = [memberConn EXCEPT ![k][j.device] = t]
  BY DEF PromotePending
<1>13. /\ pendingConn' \in [Keys -> [Joins -> Conns \cup {None}]]
       /\ pendingConn'[k][j] # t
       /\ \A i \in Keys, h \in Joins : pendingConn'[i][h] \in {pendingConn[i][h], None}
  <2>1. CASE pendingConn[k][j] = t
    <3>1. pendingConn' = [pendingConn EXCEPT ![k][j] = None]
      BY <2>1 DEF PromotePending
    <3>2. QED BY <1>2, <1>4, <3>1, ConnsAssumption
  <2>2. CASE pendingConn[k][j] # t
    <3>1. pendingConn' = pendingConn
      BY <2>2 DEF PromotePending
    <3>2. QED BY <1>4, <2>2, <3>1
  <2>3. QED BY <2>1, <2>2
<1>14. HubTyped'
  <2>1. timer' \in [Keys -> [Devices -> Timers]]
    BY <1>2, <1>3, TimersTyped DEF PromotePending, HubInv
  <2>2. conn' \in [Conns -> Connections]
    BY <1>6, <1>7, <1>8
  <2>3. memberConn' \in [Keys -> [Devices -> Conns \cup {None}]]
    BY <1>2, <1>3, <1>4, <1>12
  <2>4. QED BY <1>1, <1>13, <2>1, <2>2, <2>3 DEF HubInv, HubTyped
<1>15. Inv' /\ Calm
  BY <1>1, RegistryKept DEF HubInv
<1>16. conn[t].pc # "gone" =>
         /\ conn[t].pc # "accepted" /\ conn[t].key = k /\ conn[t].join = j
         /\ conn[t].device = j.device
  BY <1>2 DEF HubInv, TargetServed, Served, ServedRightly
<1>17. Served'
  <2>1. ASSUME NEW x \in Conns PROVE ServedRightly(conn[x])'
    <3>1. ServedRightly(conn[x]) BY DEF HubInv, Served
    <3>2. CASE x = c
      BY <1>1, <1>10, <1>15, <3>1, <3>2 DEF ServedRightly, Calm
    <3>3. CASE x # c
      BY <1>10, <1>15, <3>1, <3>3 DEF ServedRightly, Calm
    <3>4. QED BY <3>2, <3>3
  <2>2. QED BY <2>1 DEF Served
<1>18. JoinsNumbered'
  BY <1>15 DEF HubInv, JoinsNumbered, Calm
<1>19. PendingServed'
  <2> SUFFICES ASSUME NEW i \in Keys, NEW h \in Joins, NEW p \in Conns, pendingConn'[i][h] = p
               PROVE  /\ conn'[p].pc \notin {"gone", "accepted"} /\ conn'[p].role = "pending"
                      /\ conn'[p].key = i /\ conn'[p].join = h
    BY DEF PendingServed
  <2>1. pendingConn[i][h] = p
    BY <1>13, ConnsAssumption
  <2>2. /\ conn[p].pc \notin {"gone", "accepted"} /\ conn[p].role = "pending"
        /\ conn[p].key = i /\ conn[p].join = h
    BY <2>1 DEF HubInv, PendingServed
  <2>3. p # t
    BY <1>13, <1>16, <2>2
  <2>4. QED BY <1>10, <2>2, <2>3
<1>20. MemberServed'
  <2> SUFFICES ASSUME NEW i \in Keys, NEW d \in Devices, NEW x \in Conns,
                      memberConn'[i][d] = x, conn'[x].pc # "gone"
               PROVE  /\ conn'[x].pc # "accepted" /\ conn'[x].role = "member"
                      /\ conn'[x].key = i /\ conn'[x].device = d
    BY DEF MemberServed
  <2>1. conn[x].pc # "gone"
    BY <1>1, <1>10
  <2>2. CASE i = k /\ d = j.device
    <3>1. x = t
      BY <1>2, <1>3, <1>4, <1>12, <2>2
    <3>2. QED BY <1>10, <1>16, <2>1, <2>2, <3>1
  <2>3. CASE ~(i = k /\ d = j.device)
    <3>1. memberConn[i][d] = x
      BY <1>2, <1>3, <1>4, <1>12, <2>3
    <3>2. QED BY <1>10, <2>1, <3>1 DEF HubInv, MemberServed
  <2>4. QED BY <2>2, <2>3
<1>21. TargetServed'
  BY <1>1, <1>10 DEF HubInv, TargetServed
<1>22. OnlineOnceSetUp'
  <2> SUFFICES ASSUME NEW i \in Keys, NEW d \in Devices, NEW x \in Conns,
                      memberConn'[i][d] = x, conn'[x].pc \in SetUp, conn'[x].open,
                      Decided(x)'
               PROVE  d \in online'[i]
    BY DEF OnlineOnceSetUp
  <2>1. x # t
    BY <1>10 DEF Decided
  <2>2. memberConn[i][d] = x
    BY <1>2, <1>3, <1>4, <1>12, <2>1
  <2>3. Decided(x)
    BY <1>10, <2>1 DEF Decided
  <2>4. conn[x].pc \in SetUp /\ conn[x].open
    BY <1>1, <1>10 DEF SetUp, Pcs
  <2>5. QED BY <1>15, <2>2, <2>3, <2>4 DEF HubInv, OnlineOnceSetUp, Calm
<1>23. ToldOrWillBe'
  <2> SUFFICES ASSUME NEW i \in Keys, NEW d \in Devices, NEW h \in Joins,
                      NEW x \in Conns, NEW p \in Conns,
                      owner'[i] = d, h \in pendingJoins'[i],
                      memberConn'[i][d] = x, conn'[x].pc # "gone", ~conn'[x].overtaken,
                      pendingConn'[i][h] = p, conn'[p].pc # "registered"
               PROVE  h \in conn'[x].knows \/ WillBeTold(i, d, x, h)'
    BY DEF ToldOrWillBe
  <2>1. owner[i] = d /\ h \in pendingJoins[i] /\ pendingConn[i][h] = p
    BY <1>13, <1>15, ConnsAssumption DEF Calm
  <2>2. conn[x].pc # "gone" /\ ~conn[x].overtaken /\ conn[p].pc # "registered"
    BY <1>1, <1>10, <1>11
  <2>3. memberConn[i][d] = x
    <3>1. CASE i = k /\ d = j.device
      <4>1. x = t /\ owns
        BY <1>2, <1>3, <1>4, <1>12, <2>1, <3>1
      <4>2. QED BY <1>11, <4>1
    <3>2. CASE ~(i = k /\ d = j.device)
      BY <1>2, <1>3, <1>4, <1>12, <3>2
    <3>3. QED BY <3>1, <3>2
  <2>4. h \in conn[x].knows \/ WillBeTold(i, d, x, h)
    BY <2>1, <2>2, <2>3 DEF HubInv, ToldOrWillBe
  <2>5. QED BY <1>1, <1>10, <2>4 DEF WillBeTold
<1>24. QED BY <1>14, <1>15, <1>17, <1>18, <1>19, <1>20, <1>21, <1>22, <1>23 DEF HubInv

-----------------------------------------------------------------------------
(* The steps of the registry that leave every connection as it is          *)

\* What such a step must see to: a connected member stays online, and whoever owns
\* the channel after it is told of who waits, or was already.
LEMMA RegistryKeeps ==
  ASSUME HubInv, Inv', HubTyped', UNCHANGED <<conn, memberConn, pendingConn>>,
         joinSeq <= joinSeq', jobs \subseteq jobs', JoinsNumbered',
         \A k \in Keys, d \in Devices :
           memberConn[k][d] # None /\ d \in online[k] => d \in online'[k],
         \A k \in Keys, d \in Devices, j \in Joins :
           owner'[k] = d /\ j \in pendingJoins'[k] =>
             \/ owner[k] = d /\ j \in pendingJoins[k]
             \/ \A p \in Conns : pendingConn[k][j] # p
             \/ \E job \in jobs' : /\ job.task = "tell" /\ job.key = k
                                   /\ job.device = d /\ j \in job.joins
  PROVE  HubInv'
<1>1. Served'
  <2>1. joinSeq \in Int /\ joinSeq' \in Int
    BY DEF HubInv, Inv, TypeOK
  <2>2. ASSUME NEW x \in Conns PROVE ServedRightly(conn[x])'
    <3>1. ServedRightly(conn[x]) BY DEF HubInv, Served
    <3>2. conn[x] \in Connections BY DEF HubInv, HubTyped
    <3>3. conn[x].join # NoJoin => conn[x].join.seq \in Int
      BY <3>2 DEF Connections, Joins
    <3>4. QED BY <2>1, <3>1, <3>3 DEF ServedRightly
  <2>3. QED BY <2>2 DEF Served
<1>2. PendingServed' /\ MemberServed' /\ TargetServed'
  BY DEF HubInv, PendingServed, MemberServed, TargetServed
<1>3. OnlineOnceSetUp'
  BY ConnsAssumption DEF HubInv, OnlineOnceSetUp, Decided
<1>4. ToldOrWillBe'
  <2> SUFFICES ASSUME NEW k \in Keys, NEW d \in Devices, NEW j \in Joins,
                      NEW x \in Conns, NEW p \in Conns,
                      owner'[k] = d, j \in pendingJoins'[k],
                      memberConn'[k][d] = x, conn'[x].pc # "gone", ~conn'[x].overtaken,
                      pendingConn'[k][j] = p, conn'[p].pc # "registered"
               PROVE  j \in conn'[x].knows \/ WillBeTold(k, d, x, j)'
    BY DEF ToldOrWillBe
  <2>1. CASE owner[k] = d /\ j \in pendingJoins[k]
    <3>1. j \in conn[x].knows \/ WillBeTold(k, d, x, j)
      BY <2>1 DEF HubInv, ToldOrWillBe
    <3>2. QED BY <3>1 DEF WillBeTold
  <2>2. CASE \E job \in jobs' : /\ job.task = "tell" /\ job.key = k
                                /\ job.device = d /\ j \in job.joins
    BY <2>2 DEF WillBeTold
  <2>3. QED BY <2>1, <2>2
<1>5. QED BY <1>1, <1>2, <1>3, <1>4 DEF HubInv

\* POST /channels/connect: nobody's connection waits for a request that is new.
LEMMA PostConnectInv ==
  ASSUME HubInv, NEW k \in Keys, NEW d \in Devices, PostConnect(k, d)
  PROVE  HubInv'
<1> DEFINE new == [device |-> d, seq |-> joinSeq + 1]
<1>1. Connect(k, d) /\ UNCHANGED <<conn, memberConn, pendingConn, timer>>
  BY DEF PostConnect
<1>2. Next
  BY <1>1 DEF Connect, Next
<1>3. Inv'
  BY <1>2, NextInv DEF HubInv
<1>4. online' = online
  <2>1. online \in [Keys -> SUBSET Devices] /\ (k \notin channels => online[k] = {})
    BY DEF HubInv, Inv, TypeOK
  <2>2. QED BY <1>1, <2>1 DEF Connect, CreateChannel, ConnectMember, RequestJoin
<1>5. owner' = owner
  BY <1>2, <1>4, OwnersKept DEF HubInv
<1>6. joinSeq \in Nat /\ joinSeq' \in Nat
  BY <1>3, JoinSeqAssumption DEF HubInv, Inv, TypeOK
<1>7. /\ joinSeq' \in {joinSeq, joinSeq + 1}
      /\ \A i \in Keys : \/ pendingJoins'[i] \subseteq pendingJoins[i]
                         \/ /\ pendingJoins'[i] = pendingJoins[i] \cup {new}
                            /\ joinSeq' = joinSeq + 1
  <2>1. pendingJoins \in [Keys -> SUBSET Joins]
    BY DEF HubInv, Inv, TypeOK
  <2>2. CASE CreateChannel(k, d)
    BY <2>1, <2>2 DEF CreateChannel
  <2>3. CASE ConnectMember(k, d)
    BY <2>3 DEF ConnectMember
  <2>4. CASE RequestJoin(k, d)
    BY <2>1, <2>4 DEF RequestJoin, NextJoin
  <2>5. QED BY <1>1, <2>2, <2>3, <2>4 DEF Connect
<1>8. JoinsNumbered'
  <2> SUFFICES ASSUME NEW i \in Keys, NEW j \in pendingJoins'[i] PROVE j.seq <= joinSeq'
    BY DEF JoinsNumbered
  <2>1. CASE j \in pendingJoins[i]
    <3>1. j.seq <= joinSeq /\ j.seq \in Nat
      BY <2>1, JoinSeqAssumption DEF HubInv, JoinsNumbered, Inv, TypeOK, Joins
    <3>2. QED BY <1>6, <1>7, <3>1
  <2>2. CASE j = new /\ joinSeq' = joinSeq + 1
    BY <1>6, <2>2
  <2>3. QED BY <1>7, <2>1, <2>2
<1>9. HubTyped' /\ jobs \subseteq jobs'
  <2>1. [task |-> "schedule", key |-> k, device |-> d, joins |-> {}] \in Jobs
    BY DEF Jobs
  <2>2. \/ jobs' = jobs
        \/ jobs' = jobs \cup {[task |-> "schedule", key |-> k, device |-> d, joins |-> {}]}
    BY DEF PostConnect
  <2>3. QED BY <1>1, <2>1, <2>2 DEF HubInv, HubTyped
<1>10. ASSUME NEW i \in Keys, NEW p \in Conns, new \in Joins
       PROVE  pendingConn[i][new] # p
  <2> SUFFICES ASSUME pendingConn[i][new] = p PROVE FALSE
    OBVIOUS
  <2>1. conn[p].pc # "gone" /\ conn[p].join = new
    BY <1>10 DEF HubInv, PendingServed
  <2>2. conn[p].join # NoJoin
    BY <1>10, <2>1, NoJoinIsNone
  <2>3. conn[p].join.seq <= joinSeq
    BY <2>1, <2>2 DEF HubInv, Served, ServedRightly
  <2>4. QED BY <1>6, <2>1, <2>3
<1>11. ASSUME NEW i \in Keys, NEW j \in Joins, j \in pendingJoins'[i]
       PROVE  j \in pendingJoins[i] \/ \A p \in Conns : pendingConn[i][j] # p
  BY <1>7, <1>10, <1>11
<1>12. joinSeq <= joinSeq'
  BY <1>6, <1>7
<1>13. QED BY <1>1, <1>3, <1>4, <1>5, <1>8, <1>9, <1>11, <1>12, RegistryKeeps

\* A callback that runs leaves its member's timers typed.
LEMMA ExpiredTyped ==
  ASSUME HubTyped, NEW k \in Keys, NEW d \in Devices, timer[k][d].due > 0,
         timer' = [timer EXCEPT ![k][d] = Expired(@)]
  PROVE  timer' \in [Keys -> [Devices -> Timers]]
<1> DEFINE old == timer[k][d]
           due == old.due - 1
           loose == old.loose + IF old.armed = "no" THEN 0 ELSE 1
<1>1. timer \in [Keys -> [Devices -> Timers]] /\ old \in Timers
  BY DEF HubTyped
<1>2. old.loose \in Nat /\ old.due \in Nat
  BY <1>1 DEF Timers
<1>3. due \in Nat /\ loose \in Nat
  BY <1>2
<1>4. Expired(old) = [armed |-> "no", due |-> due, loose |-> loose]
  BY DEF Expired
<1> HIDE DEF due, loose
<1>5. Expired(old) \in Timers
  BY <1>3, <1>4 DEF Timers
<1>6. QED BY <1>1, <1>5

\* The expiry of a member finds it unconnected, so whoever is connected stays
\* online; a channel is deleted only if nobody is.
LEMMA ExpiryInv ==
  ASSUME HubInv, NEW k \in Keys, NEW d \in Devices, expireOfflineMember(k, d)
  PROVE  HubInv'
<1>1. timer' \in [Keys -> [Devices -> Timers]]
  BY ExpiredTyped DEF expireOfflineMember, HubInv
<1>2. UNCHANGED <<conn, memberConn, pendingConn>>
  BY DEF expireOfflineMember
<1>3. CASE UNCHANGED <<registryVars, jobs>>
  BY <1>1, <1>2, <1>3, TimerKeeps
<1>4. CASE memberConn[k][d] = None /\ ExpireOfflineMember(k, d) /\ jobs' = AfterExpiry(k, d)
  <2>1. Inv'
    BY <1>4, ExpireOfflineMemberInv DEF HubInv
  <2>2. /\ owner' \in [Keys -> Devices \cup {None}]
        /\ pendingJoins' \in [Keys -> SUBSET Joins]
        /\ online \in [Keys -> SUBSET Devices] /\ priority[k] \in [Devices -> Nat]
        /\ pendingJoins \in [Keys -> SUBSET Joins]
        /\ owner \in [Keys -> Devices \cup {None}]
    BY <2>1 DEF HubInv, Inv, TypeOK
  <2>3. \A a, b \in online[k] : priority[k][a] = priority[k][b] => a = b
    BY DEF HubInv, Inv, SeniorityIsStrict, TypeOK
  <2>4. /\ joinSeq' = joinSeq
        /\ \A i \in Keys : pendingJoins'[i] \subseteq pendingJoins[i]
        /\ \A i \in Keys \ {k} : online'[i] = online[i] /\ owner'[i] = owner[i]
    BY <1>4, <2>2 DEF ExpireOfflineMember, DeleteChannel, SetOnline
  <2>5. online[k] \ {d} \subseteq online'[k]
    <3>1. CASE ElectedOwner(priority[k], online[k] \ {d}) = None
      <4> DEFINE on == online[k] \ {d}
      <4>1. on \in SUBSET Devices /\ \A a, b \in on : priority[k][a] = priority[k][b] => a = b
        BY <2>2, <2>3
      <4> HIDE DEF on
      <4>2. on # {} => ElectedOwner(priority[k], on) # None
        BY <2>2, <4>1, ElectionIsSenior
      <4>3. QED BY <3>1, <4>2 DEF on
    <3>2. CASE ElectedOwner(priority[k], online[k] \ {d}) # None
      <4>1. SetOnline(k, d, FALSE)
        BY <1>4, <3>2 DEF ExpireOfflineMember
      <4>2. QED BY <2>2, <4>1 DEF SetOnline
    <3>3. QED BY <3>1, <3>2
  <2>6. \A i \in Keys, e \in Devices : memberConn[i][e] # None /\ e \in online[i] => e \in online'[i]
    BY <1>4, <2>4, <2>5
  <2>7. jobs \subseteq jobs'
    BY <1>4 DEF AfterExpiry
  <2>8. jobs' \subseteq Jobs
    <3>1. [task |-> "closePending", key |-> k, device |-> d, joins |-> {}] \in Jobs
      BY DEF Jobs
    <3>2. owner'[k] # None =>
            [task |-> "tell", key |-> k, device |-> owner'[k], joins |-> pendingJoins[k]] \in Jobs
      BY <2>2 DEF Jobs
    <3>3. jobs \subseteq Jobs
      BY DEF HubInv, HubTyped
    <3>4. QED BY <1>4, <3>1, <3>2, <3>3 DEF AfterExpiry
  <2>9. HubTyped'
    BY <1>1, <1>2, <2>8 DEF HubInv, HubTyped
  <2>10. JoinsNumbered'
    BY <2>4 DEF HubInv, JoinsNumbered
  <2>11. ASSUME NEW i \in Keys, NEW e \in Devices, NEW j \in Joins,
                owner'[i] = e, j \in pendingJoins'[i]
         PROVE  \/ owner[i] = e /\ j \in pendingJoins[i]
                \/ \E job \in jobs' : /\ job.task = "tell" /\ job.key = i
                                      /\ job.device = e /\ j \in job.joins
    <3>1. j \in pendingJoins[i]
      BY <2>4, <2>11
    <3>2. CASE owner[i] = e
      BY <3>1, <3>2
    <3>3. CASE owner[i] # e
      <4>1. i = k
        BY <2>4, <2>11, <3>3
      <4>2. k \in channels'
        BY <2>1, <2>11, <4>1 DEF Inv, TypeOK
      <4>3. e # None
        BY DevicesAssumption
      <4> DEFINE new == [task |-> "tell", key |-> k, device |-> e, joins |-> pendingJoins[k]]
      <4>4. new \in jobs'
        BY <1>4, <2>11, <3>1, <3>3, <4>1, <4>2, <4>3 DEF AfterExpiry
      <4>5. new.task = "tell" /\ new.key = i /\ new.device = e /\ j \in new.joins
        BY <3>1, <4>1
      <4> HIDE DEF new
      <4>6. QED BY <4>4, <4>5
    <3>4. QED BY <3>2, <3>3
  <2>12. joinSeq <= joinSeq'
    BY <2>4 DEF HubInv, Inv, TypeOK
  <2>13. QED BY <1>2, <2>1, <2>6, <2>7, <2>9, <2>10, <2>11, <2>12, RegistryKeeps
<1>5. QED BY <1>3, <1>4 DEF expireOfflineMember

-----------------------------------------------------------------------------
(* All steps                                                               *)

\* A relay that has just started.
LEMMA HubInitInv == RelayInit => HubInv
<1> SUFFICES ASSUME RelayInit PROVE HubInv
  OBVIOUS
<1>1. Inv
  BY InitInv DEF RelayInit
<1>2. Gone \in Connections /\ Gone.pc = "gone" /\ Gone.target = None
  BY DEF Gone, Connections, Pcs
<1>3. NoTimer \in Timers
  BY DEF NoTimer, Timers
<1>4. HubTyped
  BY <1>2, <1>3 DEF RelayInit, HubTyped
<1>5. Served
  BY <1>2 DEF RelayInit, Served, ServedRightly
<1>6. JoinsNumbered /\ PendingServed
  BY ConnsAssumption DEF RelayInit, Init, JoinsNumbered, PendingServed
<1>7. MemberServed /\ OnlineOnceSetUp
  BY ConnsAssumption DEF RelayInit, MemberServed, OnlineOnceSetUp
<1>8. TargetServed
  BY <1>2 DEF RelayInit, TargetServed
<1>9. ToldOrWillBe
  BY DEF RelayInit, Init, ToldOrWillBe
<1>10. QED BY <1>1, <1>4, <1>5, <1>6, <1>7, <1>8, <1>9 DEF HubInv

\* Every step of every goroutine, timer and device keeps the invariant.
LEMMA HubNextInv == HubInv /\ [RelayNext]_vars => HubInv'
<1> SUFFICES ASSUME HubInv, [RelayNext]_vars PROVE HubInv'
  OBVIOUS
<1>1. CASE Device
  <2>1. ASSUME NEW k \in Keys, NEW d \in Devices, PostConnect(k, d) PROVE HubInv'
    BY <2>1, PostConnectInv
  <2>2. ASSUME NEW c \in Conns, NEW k \in Keys, NEW d \in Devices, AcceptMember(c, k, d)
        PROVE HubInv'
    BY <2>2, AcceptInv
  <2>3. ASSUME NEW c \in Conns, NEW k \in Keys, NEW j \in Joins, AcceptPending(c, k, j)
        PROVE HubInv'
    BY <2>3, AcceptInv
  <2>4. ASSUME NEW c \in Conns, Disconnect(c) PROVE HubInv'
    BY <2>4, LeaveInv
  <2>5. ASSUME NEW c \in Conns, CheckPending(c) \/ ReceiveDecision(c) PROVE HubInv'
    BY <2>5, ReadLoopInv
  <2>6. QED BY <1>1, <2>1, <2>2, <2>3, <2>4, <2>5 DEF Device
<1>2. ASSUME NEW c \in Conns, RejectEvent(c) PROVE HubInv'
  BY <1>2, ReadLoopInv
<1>3. ASSUME NEW c \in Conns, Serve(c) PROVE HubInv'
  <2>1. CASE RegisterMember(c) \/ RegisterPending(c)
    BY <2>1, RegisterInv
  <2>2. CASE GoOnline(c)
    BY <2>2, GoOnlineInv
  <2>3. CASE RejectOnline(c)
    BY <2>3, RejectOnlineInv
  <2>4. CASE AskOwner(c)
    BY <2>4, AskOwnerInv
  <2>5. CASE \E j \in Joins : TellOwner(c, j)
    BY <2>5, TellOwnerInv
  <2>6. CASE EndAnnouncing(c)
    BY <2>6, EndAnnouncingInv
  <2>7. CASE Unregister(c)
    BY <2>7, LeaveInv
  <2>8. CASE EndCheck(c) \/ DecisionFails(c)
    BY <2>8, ReadLoopInv
  <2>9. CASE \E j \in Joins : DecideApprove(c, j) \/ DecideDeny(c, j)
    BY <2>9, DecideInv
  <2>10. CASE LookUpPending(c)
    BY <2>10, LookUpPendingInv
  <2>11. CASE PromotePending(c)
    BY <2>11, PromotePendingInv
  <2>12. CASE GoOnlinePromoted(c)
    BY <2>12, GoOnlinePromotedInv
  <2>13. CASE PromotedIsGone(c)
    BY <2>13, PromotedIsGoneInv
  <2>14. CASE RollBack(c)
    BY <2>14, RollBackInv
  <2>15. CASE RefusePending(c)
    BY <2>15, RefusePendingInv
  <2>16. QED BY <1>3, <2>1, <2>2, <2>3, <2>4, <2>5, <2>6, <2>7, <2>8, <2>9, <2>10,
                <2>11, <2>12, <2>13, <2>14, <2>15 DEF Serve
<1>4. ASSUME NEW k \in Keys, NEW d \in Devices, Expiry(k, d) PROVE HubInv'
  BY <1>4, FireInv, ExpiryInv DEF Expiry
<1>5. ASSUME NEW k \in Keys, NEW d \in Devices, WorkOn(k, d) PROVE HubInv'
  BY <1>5, ScheduleInv, ClosePendingInv, TellNewOwnerInv DEF WorkOn
<1>6. CASE UNCHANGED vars
  <2>1. UNCHANGED <<registryVars, conn, memberConn, pendingConn, timer, jobs>>
    BY <1>6 DEF vars, hubVars
  <2>2. timer' \in [Keys -> [Devices -> Timers]]
    BY <2>1 DEF HubInv, HubTyped
  <2>3. QED BY <2>1, <2>2, TimerKeeps
<1>7. QED BY <1>1, <1>2, <1>3, <1>4, <1>5, <1>6 DEF RelayNext

\* The inductive invariant is an invariant of the relay.
LEMMA HubInvariant == RelaySpec => []HubInv
BY HubInitInv, HubNextInv, PTL DEF RelaySpec

-----------------------------------------------------------------------------
\* The hub's maps, timers and jobs keep their types, whatever runs meanwhile: no
\* entry, callback or task is of a channel, device, request or connection that
\* is unknown.
THEOREM HubTypeCorrect == RelaySpec => []RelayTypeOK
<1>1. HubInv => RelayTypeOK
  BY DEF HubInv, HubTyped, Inv, RelayTypeOK, Connections, Timers, Jobs
<1>2. QED BY <1>1, HubInvariant, PTL

\* No expiry, decision or rollback takes a member offline, or deletes its channel,
\* while the member has a connection that was set up.
THEOREM ConnectedMembersOnline == RelaySpec => []ConnectedMemberIsOnline
<1>1. HubInv => ConnectedMemberIsOnline
  <2> SUFFICES ASSUME HubInv, NEW k \in Keys, NEW d \in Devices, NEW c \in Conns,
                      Settled(k, d, c), \A e \in Conns : conn[e].target # c
               PROVE  k \in channels /\ d \in online[k]
    BY DEF ConnectedMemberIsOnline
  <2>1. Decided(c) /\ "reading" \in SetUp
    BY DEF Decided, SetUp, Pcs
  <2>2. d \in online[k]
    BY <2>1 DEF HubInv, OnlineOnceSetUp, Settled
  <2>3. QED BY <2>2 DEF HubInv, Inv, TypeOK
<1>2. QED BY <1>1, HubInvariant, PTL

\* When nothing is under way the owner's connection has been told of every join
\* whose device is connected and waits, but for a connection that was promoted
\* when its device had come to own the channel through another one.
THEOREM OwnersAreTold == RelaySpec => []OwnerKnowsJoins
<1>1. HubInv => OwnerKnowsJoins
  <2> SUFFICES ASSUME HubInv, NEW k \in Keys, Quiet(k), NEW d \in Devices, NEW c \in Conns,
                      Settled(k, d, c), owner[k] = d, ~conn[c].overtaken,
                      NEW j \in pendingJoins[k], pendingConn[k][j] # None,
                      conn[pendingConn[k][j]].pc = "reading"
               PROVE  j \in conn[c].knows
    BY DEF OwnerKnowsJoins
  <2>1. j \in Joins
    BY DEF HubInv, Inv, TypeOK
  <2>2. pendingConn[k][j] \in Conns
    BY <2>1 DEF HubInv, HubTyped
  <2>3. j \in conn[c].knows \/ WillBeTold(k, d, c, j)
    BY <2>1, <2>2 DEF HubInv, ToldOrWillBe, Settled
  <2>4. ~WillBeTold(k, d, c, j)
    BY DEF WillBeTold, Quiet, Settled
  <2>5. QED BY <2>3, <2>4
<1>2. QED BY <1>1, HubInvariant, PTL
=============================================================================
