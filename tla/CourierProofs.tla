--------------------------- MODULE CourierProofs ----------------------------
(***************************************************************************)
(* For every number of operations, channels, websockets and requests: each *)
(* variable keeps its type, a request stays pending until it is answered   *)
(* or the user clears it, and the detailed journey of an operation         *)
(* (Delivery, Tool) implements Courier.                                    *)
(*                                                                         *)
(* The argument.  An operation is in one place at a time: in one event on  *)
(* its way to the relay, then carried out or refused, never back.  So who  *)
(* has an event under way was not carried out and not refused; who is      *)
(* acknowledged was carried out; and who was refused never will be.  So    *)
(* whatever an acknowledgement deletes from the pending state was          *)
(* answered; nothing else deletes from it one by one.                      *)
(***************************************************************************)
EXTENDS ToolProofs, FiniteSetTheorems

Events == [type : {"ack", "error", "reply", "ask", "join"},
           op : Ops \cup {None}, item : Requests \cup {None}]

\* The part of the type that ToolProofs does not need.
ConnTypeOK ==
  /\ {posting, opening} \subseteq {None, "user", "loop"} /\ returning \in BOOLEAN
  /\ loop \in {"off", "on", "ending"}
  /\ health \in {"none", "probing", "probeFailed", "recovering"}
  /\ explicit \in BOOLEAN

SentTypeOK ==
  /\ done \in [Ops -> Nat] /\ acking \in [Conns -> Ops \cup {None}]
  /\ up \in [Conns -> Seq(Ops)] /\ down \in [Conns -> Seq(Events)]

PendingTypeOK ==
  /\ joins \subseteq Requests /\ pending \in [Requests -> Channels \cup {None}]
  /\ heard \in [Requests -> {"never", "kept", "cleared"}]
  /\ join \in [Requests -> Channels \cup {None}]
  /\ channelName \in Names \cup {None}

\* Who awaits a check has one, and a check that awaits the loop too.
ChecksRun ==
  /\ (\E o \in Ops : op[o].pc = "checking") => health # "none"
  /\ health = "recovering" => loop # "off"

\* Before the first connect there is nothing.
NothingBeforeConnect ==
  args = None => /\ posting = None /\ opening = None /\ ~returning
                 /\ loop = "off" /\ health = "none" /\ socket = None

-----------------------------------------------------------------------------
(* The promise: where an operation can be                                  *)

Unsent == {"none", "checking", "held", "ready"}

\* At most one event asks for an operation, and only while nobody has carried
\* it out and whoever asked waits or has given up.
UpOnce ==
  \A c, d \in Conns : \A i \in DOMAIN up[c], j \in DOMAIN up[d] :
    up[c][i] = up[d][j] => c = d /\ i = j

UpFresh ==
  \A c \in Conns : \A i \in DOMAIN up[c] :
    done[up[c][i]] = 0 /\ op[up[c][i]].pc \in {"waiting", "unknown"}

\* What is done was done once, for an operation that was sent and did not fail.
DoneOnce ==
  \A o \in Ops : done[o] # 0 => done[o] = 1 /\ op[o].pc \in {"waiting", "ok", "unknown"}

OkIsDone == \A o \in Ops : op[o].pc = "ok" => done[o] = 1

AckingIsDone == \A c \in Conns : acking[c] # None => done[acking[c]] = 1

\* An acknowledgement tells of what is done; an error of what was sent, is not
\* done and not on its way any more.
Truthful(e) ==
  /\ e.type = "ack" => e.op \in Ops /\ done[e.op] = 1
  /\ e.type = "error" => /\ e.op \in Ops /\ done[e.op] = 0 /\ op[e.op].pc \notin Unsent
                         /\ \A c \in Conns : \A i \in DOMAIN up[c] : up[c][i] # e.op

EventsAreTrue == \A c \in Conns : \A i \in DOMAIN down[c] : Truthful(down[c][i])

\* The three parts, each closed under the steps with those above it.
Typed == IInv /\ ConnTypeOK /\ SentTypeOK /\ PendingTypeOK /\ ChecksRun /\ NothingBeforeConnect

Kept == UpOnce /\ UpFresh /\ DoneOnce /\ OkIsDone /\ AckingIsDone /\ EventsAreTrue

Noted == \A r \in Requests : heard[r] = "kept" => Answered(r) \/ pending[r] # None

CourierInv == Typed /\ Kept /\ Noted

-----------------------------------------------------------------------------
(* Sequences                                                               *)

LEMMA TailFacts ==
  ASSUME NEW S, NEW s \in Seq(S), s # <<>>
  PROVE  /\ Head(s) \in S /\ Tail(s) \in Seq(S)
         /\ 1 \in DOMAIN s /\ Head(s) = s[1]
         /\ \A i \in DOMAIN Tail(s) : i + 1 \in DOMAIN s /\ i \in Nat /\ i # 0 /\ Tail(s)[i] = s[i + 1]
OBVIOUS

LEMMA AppendFacts ==
  ASSUME NEW S, NEW s \in Seq(S), NEW x \in S
  PROVE  /\ Append(s, x) \in Seq(S)
         /\ \A i \in DOMAIN Append(s, x) :
              \/ i \in DOMAIN s /\ Append(s, x)[i] = s[i]
              \/ i = Len(s) + 1 /\ Append(s, x)[i] = x
OBVIOUS

\* A finite set can be put into a sequence of its elements.
LEMMA SequenceOfSet ==
  ASSUME NEW S, IsFiniteSet(S)
  PROVE  SetToSeq(S) \in Seq(S)
<1>1. Cardinality(S) \in Nat /\ ExistsBijection(1..Cardinality(S), S)
  BY FS_CardinalityType
<1>2. \E f \in [1..Cardinality(S) -> S] : IsInjective(f)
  BY <1>1 DEF ExistsBijection, Bijection, Injection
<1>3. SetToSeq(S) \in [1..Cardinality(S) -> S]
  BY <1>2 DEF SetToSeq
<1>4. QED BY <1>1, <1>3

\* The join requests that a new connection of the owner is told of.
JoinEvents == {e \in Events : e.type = "join"}

LEMMA JoinRequestsTyped ==
  ASSUME joins \subseteq Requests, NEW ch
  PROVE  JoinRequests(ch) \in Seq(JoinEvents)
<1> DEFINE R == {j \in joins : join[j] = ch /\ ~Answered(j)}
           E == {Event("join", None, r) : r \in R}
           f == [r \in R |-> Event("join", None, r)]
<1>1. IsFiniteSet(R)
  BY ToolAssumption, FS_Subset
<1>2. f \in Surjection(R, E)
  BY DEF Surjection
<1>3. IsFiniteSet(E)
  <2> HIDE DEF R, E, f
  <2>1. QED BY <1>1, <1>2, FS_Surjection
<1>4. SetToSeq(E) \in Seq(E)
  <2> HIDE DEF R, E, f
  <2>1. QED BY <1>3, SequenceOfSet
<1>5. E \subseteq JoinEvents
  BY DEF JoinEvents, Events, Event
<1>6. JoinRequests(ch) = SetToSeq(E)
  BY DEF JoinRequests
<1>7. SetToSeq(E) \in Seq(JoinEvents)
  <2> HIDE DEF E
  <2>1. QED BY <1>4, <1>5
<1>8. QED BY <1>6, <1>7

-----------------------------------------------------------------------------
(* What becomes of the operations                                          *)

\* Short of being sent or answered: whoever was not sent waits for something
\* else or is issued or fails, whoever waited gives up, and nobody changes what
\* he wants once he wants it.
Drift(a, b) ==
  /\ \/ b.pc = a.pc
     \/ a.pc \in Unsent /\ b.pc \in {"checking", "held", "ready"}
     \/ a.pc = "ready" /\ b.pc = "failed"
     \/ a.pc = "waiting" /\ b.pc = "unknown"
  /\ a.pc # "none" => b.item = a.item

OpsDrift == \A o \in Ops : Drift(op[o], op'[o])

LEMMA SettledItem ==
  ASSUME NEW ops \in Operations, NEW o \in Ops, NEW end \in Ended
  PROVE  Settled(ops, o, end)[o].item = ops[o].item
BY DEF Operations, Settled, Pc

LEMMA RejectedItem ==
  ASSUME NEW ops \in Operations, NEW o \in Ops
  PROVE  WaitersRejected(ops)[o].item = ops[o].item
BY SettledItem DEF WaitersRejected, Ended

LEMMA MovedItem ==
  ASSUME NEW ops \in Operations, NEW o \in Ops, NEW from \in Pc, NEW to \in Pc
  PROVE  Moved(ops, from, to)[o].item = ops[o].item
BY DEF Operations, Moved

LEMMA NoDrift == UNCHANGED op => OpsDrift
BY DEF OpsDrift, Drift

LEMMA RejectedDrift ==
  ASSUME OpTypeOK, op' = WaitersRejected(op)
  PROVE  OpsDrift /\ \A o \in Ops : op'[o].pc = "checking" => op[o].pc = "checking"
<1> SUFFICES ASSUME NEW o \in Ops
             PROVE  Drift(op[o], op'[o]) /\ (op'[o].pc = "checking" => op[o].pc = "checking")
  BY DEF OpsDrift
<1>1. op'[o].item = op[o].item
  BY RejectedItem DEF OpTypeOK
<1>2. CASE op[o].pc = "waiting"
  BY <1>1, <1>2, RejectedOps DEF OpTypeOK, Drift
<1>3. CASE op[o].pc # "waiting"
  BY <1>1, <1>3, RejectedOps DEF OpTypeOK, Drift
<1>4. QED BY <1>2, <1>3

LEMMA OutdatedDrift ==
  ASSUME OpTypeOK, op' = CheckOutdated(WaitersRejected(op))
  PROVE  OpsDrift /\ \A o \in Ops : op'[o].pc # "checking"
<1> DEFINE ops == WaitersRejected(op)
<1>1. ops \in Operations
  BY RejectedOps DEF OpTypeOK
<1>2. PICK to \in {"held", "ready"} : op' = Moved(ops, "checking", to)
  BY DEF CheckOutdated
<1>3. to \in Pc /\ "checking" \in Pc
  BY <1>2 DEF Pc
<1> SUFFICES ASSUME NEW o \in Ops PROVE Drift(op[o], op'[o]) /\ op'[o].pc # "checking"
  BY DEF OpsDrift
<1>4. op'[o].item = op[o].item
  <2>1. ops[o].item = op[o].item
    BY RejectedItem DEF OpTypeOK
  <2> HIDE DEF ops
  <2>2. QED BY <1>1, <1>2, <1>3, <2>1, MovedItem
<1>5. /\ op[o].pc = "waiting" => ops[o].pc = "unknown"
      /\ op[o].pc # "waiting" => ops[o].pc = op[o].pc
  BY RejectedOps DEF OpTypeOK
<1>6. /\ ops[o].pc = "checking" => op'[o].pc = to
      /\ ops[o].pc # "checking" => op'[o].pc = ops[o].pc
  <2> HIDE DEF ops
  <2>1. QED BY <1>1, <1>2, <1>3, MovedOps
<1>7. QED BY <1>2, <1>4, <1>5, <1>6 DEF Drift, Unsent

LEMMA EndsDrift ==
  ASSUME OpTypeOK, op' = CheckEnds(op)
  PROVE  OpsDrift /\ \A o \in Ops : op'[o].pc # "checking"
<1> SUFFICES ASSUME NEW o \in Ops PROVE Drift(op[o], op'[o]) /\ op'[o].pc # "checking"
  BY DEF OpsDrift
<1>1. op \in Operations /\ "checking" \in Pc /\ "ready" \in Pc
  BY DEF OpTypeOK, Pc
<1>2. op'[o].item = op[o].item
  BY <1>1, MovedItem DEF CheckEnds
<1>3. /\ op[o].pc = "checking" => op'[o].pc = "ready"
      /\ op[o].pc # "checking" => op'[o] = op[o]
  BY <1>1, MovedOps DEF CheckEnds
<1>4. QED BY <1>2, <1>3 DEF Drift, Unsent

LEMMA IssueDrift ==
  ASSUME OpTypeOK, NEW o \in Ops, NEW item, Issue(o, item)
  PROVE  /\ OpsDrift
         /\ \A p \in Ops : op'[p].pc = "checking" => op[p].pc = "checking" \/ health' # "none"
<1>1. /\ op[o].pc = "none"
      /\ op'[o].pc = IF health' = "none" THEN "ready" ELSE "checking"
      /\ \A p \in Ops \ {o} : op'[p] = op[p]
  BY DEF Issue, OpTypeOK, Operations
<1>2. ASSUME NEW p \in Ops PROVE Drift(op[p], op'[p])
  BY <1>1 DEF Drift, Unsent
<1>3. QED BY <1>1, <1>2 DEF OpsDrift

LEMMA HeldDrift ==
  ASSUME OpTypeOK, NEW o \in Ops, HeldRuns(o)
  PROVE  OpsDrift /\ \A p \in Ops : op'[p].pc = "checking" => op[p].pc = "checking"
<1>1. /\ op[o].pc = "held" /\ op'[o].pc = "ready" /\ op'[o].item = op[o].item
      /\ \A p \in Ops \ {o} : op'[p] = op[p]
  BY DEF HeldRuns, OpTypeOK, Operations
<1>2. QED BY <1>1 DEF OpsDrift, Drift, Unsent

LEMMA SettledDrift ==
  ASSUME OpTypeOK, NEW o \in Ops, NEW end \in Ended, op' = Settled(op, o, end),
         Drift([pc |-> op[o].pc, item |-> None], [pc |-> end, item |-> None])
  PROVE  OpsDrift /\ \A p \in Ops : op'[p].pc = "checking" => op[p].pc = "checking"
<1>1. /\ op'[o].pc = end /\ op'[o].item = op[o].item
      /\ \A p \in Ops \ {o} : op'[p] = op[p]
  BY SettledOps, SettledItem DEF OpTypeOK
<1>2. end # "checking"
  BY DEF Ended
<1>3. QED BY <1>1, <1>2 DEF OpsDrift, Drift

-----------------------------------------------------------------------------
(* The connection keeps its type                                           *)

ConnOK == ConnTypeOK /\ ChecksRun /\ NothingBeforeConnect

\* No operation starts to await a check.
NoNewCheck == \A o \in Ops : op'[o].pc = "checking" => op[o].pc = "checking"

LEMMA ConnQuiet ==
  ASSUME ConnOK, UNCHANGED connVars, NoNewCheck
  PROVE  ConnOK'
BY DEF ConnOK, ConnTypeOK, ChecksRun, NothingBeforeConnect, connVars, NoNewCheck

LEMMA ConnConnect ==
  ASSUME ConnOK, IInv, NEW ch \in Channels, connect(ch)
  PROVE  ConnOK' /\ OpsDrift
<1>1. OpsDrift /\ \A o \in Ops : op'[o].pc # "checking"
  BY OutdatedDrift DEF connect, IInv
<1>2. ConnTypeOK'
  BY DEF ConnOK, ConnTypeOK, connect, CloseCurrentSocket
<1>3. ChecksRun'
  BY <1>1 DEF ChecksRun, connect
<1>4. NothingBeforeConnect'
  BY ToolAssumption DEF NothingBeforeConnect, connect
<1>5. QED BY <1>1, <1>2, <1>3, <1>4 DEF ConnOK

LEMMA ConnDisconnect ==
  ASSUME ConnOK, IInv, disconnect
  PROVE  ConnOK' /\ OpsDrift
<1>1. OpsDrift /\ \A o \in Ops : op'[o].pc # "checking"
  BY OutdatedDrift DEF disconnect, IInv
<1>2. ConnTypeOK'
  BY DEF ConnOK, ConnTypeOK, disconnect, CloseCurrentSocket
<1>3. ChecksRun'
  BY <1>1 DEF ChecksRun, disconnect
<1>4. NothingBeforeConnect'
  BY ToolAssumption
  DEF ConnOK, NothingBeforeConnect, disconnect, CloseCurrentSocket, LoopPosting, Idle
<1>5. QED BY <1>1, <1>2, <1>3, <1>4 DEF ConnOK

\* A websocket is lost, and the waiters with it.
LEMMA ConnLoses ==
  ASSUME ConnOK, IInv, ProbeFails \/ \E c \in Conns : Posted(c) \/ OpenFails(c) \/ Closes(c)
  PROVE  ConnOK' /\ OpsDrift
<1>1. op' = WaitersRejected(op) \/ op' = op
  BY DEF ProbeFails, Posted, OpenFails, Closes
<1>2. OpsDrift /\ \A o \in Ops : op'[o].pc = "checking" => op[o].pc = "checking"
  BY <1>1, RejectedDrift, NoDrift DEF IInv
<1>3. ConnTypeOK'
  BY DEF ConnOK, ConnTypeOK, ProbeFails, Posted, OpenFails, Closes, CloseCurrentSocket,
         ProbeRejected
<1>4. ChecksRun'
  BY <1>2 DEF ConnOK, ConnTypeOK, ChecksRun, ProbeFails, Posted, OpenFails, Closes, ProbeRejected
<1>5. NothingBeforeConnect'
  BY DEF ConnOK, NothingBeforeConnect, ProbeFails, Posted, OpenFails, Closes, CloseCurrentSocket,
         SocketIsOpen
<1>6. QED BY <1>2, <1>3, <1>4, <1>5 DEF ConnOK

LEMMA ConnOpens ==
  ASSUME ConnOK, IInv, NEW c \in Conns, NEW first, Opens(c, first)
  PROVE  ConnOK' /\ OpsDrift
<1>1. op' = CheckEnds(op) \/ op' = op
  BY DEF Opens
<1>2. OpsDrift /\ (\A o \in Ops : op'[o].pc = "checking" => op[o].pc = "checking")
  BY <1>1, EndsDrift, NoDrift DEF IInv
<1>3. opening = "loop" => \A o \in Ops : op'[o].pc # "checking"
  BY EndsDrift DEF Opens, IInv
<1>4. ConnTypeOK'
  BY DEF ConnOK, ConnTypeOK, Opens
<1>5. ChecksRun'
  BY <1>2, <1>3 DEF ConnOK, ChecksRun, Opens
<1>6. NothingBeforeConnect'
  BY ToolAssumption DEF ConnOK, NothingBeforeConnect, Opens, IInv, SocketTypeOK
<1>7. QED BY <1>2, <1>4, <1>5, <1>6 DEF ConnOK

LEMMA ConnIssue ==
  ASSUME ConnOK, IInv, NEW o \in Ops, NEW item, Issue(o, item)
  PROVE  ConnOK' /\ OpsDrift
<1>1. OpsDrift /\ \A p \in Ops : op'[p].pc = "checking" => op[p].pc = "checking" \/ health' # "none"
  BY IssueDrift DEF IInv
<1>2. health' \in ensureHealthy /\ loop' = IF health' = "recovering" /\ loop = "off" THEN "on" ELSE loop
  BY DEF Issue
<1>3. ConnTypeOK'
  BY <1>2 DEF ConnOK, ConnTypeOK, Issue, ensureHealthy
<1>4. health # "none" => health' = health
  BY <1>2 DEF ensureHealthy
<1>5. ChecksRun'
  BY <1>1, <1>2, <1>4 DEF ConnOK, ChecksRun
<1>6. NothingBeforeConnect'
  BY <1>2 DEF ConnOK, NothingBeforeConnect, Issue, ensureHealthy, SocketIsOpen
<1>7. QED BY <1>1, <1>3, <1>5, <1>6 DEF ConnOK

\* The remaining steps of the connection.
LEMMA ConnProceeds ==
  ASSUME ConnOK, IInv,
         \/ PostFails \/ LoopPosts \/ OldLoopEnds \/ HeartbeatDue \/ ProbeAnswered
         \/ ProbeTimesOut \/ \E c \in Conns : GoesHalfOpen(c)
  PROVE  ConnOK' /\ OpsDrift
<1>1. CASE OldLoopEnds \/ ProbeAnswered
  <2>1. OpsDrift /\ \A o \in Ops : op'[o].pc # "checking"
    BY <1>1, EndsDrift DEF OldLoopEnds, ProbeAnswered, IInv
  <2>2. ConnTypeOK' /\ ChecksRun'
    BY <1>1, <2>1 DEF ConnOK, ConnTypeOK, ChecksRun, OldLoopEnds, ProbeAnswered
  <2>3. NothingBeforeConnect'
    BY <1>1 DEF ConnOK, NothingBeforeConnect, OldLoopEnds, ProbeAnswered
  <2>4. QED BY <2>1, <2>2, <2>3 DEF ConnOK
<1>2. CASE PostFails \/ LoopPosts
  BY <1>2, NoDrift DEF ConnOK, ConnTypeOK, ChecksRun, NothingBeforeConnect, PostFails, LoopPosts
<1>3. CASE HeartbeatDue \/ ProbeTimesOut
  BY <1>3, NoDrift
  DEF ConnOK, ConnTypeOK, ChecksRun, NothingBeforeConnect, HeartbeatDue, ProbeTimesOut, SocketIsOpen
<1>4. ASSUME NEW c \in Conns, GoesHalfOpen(c) PROVE ConnOK' /\ OpsDrift
  BY <1>4, NoDrift DEF ConnOK, ConnTypeOK, ChecksRun, NothingBeforeConnect, GoesHalfOpen
<1>5. QED BY <1>1, <1>2, <1>3, <1>4

LEMMA ConnReturns ==
  ASSUME ConnOK, ConnectReturns
  PROVE  ConnOK' /\ OpsDrift
BY NoDrift DEF ConnOK, ConnTypeOK, ChecksRun, NothingBeforeConnect, ConnectReturns

-----------------------------------------------------------------------------
(* The events under way keep their type                                    *)

\* What is under way to the client claims nothing that was not claimed before.
NoNewClaim ==
  \A c \in Conns : \A i \in DOMAIN down'[c] :
    \/ down'[c][i].type \in {"reply", "ask", "join"}
    \/ \E j \in DOMAIN down[c] : down'[c][i] = down[c][j]

DownOK == down \in [Conns -> Seq(Events)]

LEMMA DownSame ==
  ASSUME DownOK, UNCHANGED down
  PROVE  DownOK' /\ NoNewClaim
BY DEF DownOK, NoNewClaim

\* An event that claims nothing, or one that does.
LEMMA DownWritten ==
  ASSUME DownOK, NEW c \in Conns, NEW e \in Events, down' = Written(c, e)
  PROVE  /\ DownOK'
         /\ \A d \in Conns : \A i \in DOMAIN down'[d] :
              down'[d][i] = e \/ \E j \in DOMAIN down[d] : down'[d][i] = down[d][j]
<1>1. down[c] \in Seq(Events)
  BY DEF DownOK
<1>2. /\ Append(down[c], e) \in Seq(Events)
      /\ \A i \in DOMAIN Append(down[c], e) :
           \/ i \in DOMAIN down[c] /\ Append(down[c], e)[i] = down[c][i]
           \/ Append(down[c], e)[i] = e
  BY <1>1, AppendFacts
<1>3. CASE sock[c] = "open"
  <2>1. down' = [down EXCEPT ![c] = Append(down[c], e)]
    BY <1>3 DEF Written
  <2>2. DownOK'
    BY <1>2, <2>1 DEF DownOK
  <2>3. down'[c] = Append(down[c], e) /\ \A d \in Conns \ {c} : down'[d] = down[d]
    BY <2>1 DEF DownOK
  <2>4. QED BY <1>2, <2>2, <2>3
<1>4. CASE sock[c] # "open"
  BY <1>4 DEF Written, DownOK
<1>5. QED BY <1>3, <1>4

LEMMA DownEmptied ==
  ASSUME DownOK, NEW c, down' = [down EXCEPT ![c] = <<>>]
  PROVE  DownOK' /\ NoNewClaim
<1>1. DownOK'
  <2>1. <<>> \in Seq(Events)
    OBVIOUS
  <2>2. QED BY <2>1 DEF DownOK
<1>2. ASSUME NEW d \in Conns, NEW i \in DOMAIN down'[d]
      PROVE  \E j \in DOMAIN down[d] : down'[d][i] = down[d][j]
  <2>1. CASE d = c
    BY <1>2, <2>1 DEF DownOK
  <2>2. CASE d # c
    BY <1>2, <2>2 DEF DownOK
  <2>3. QED BY <2>1, <2>2
<1>3. QED BY <1>1, <1>2 DEF NoNewClaim

LEMMA DownCloses ==
  ASSUME DownOK, down' = DownClosed
  PROVE  DownOK' /\ NoNewClaim
BY DownSame, DownEmptied DEF DownClosed

LEMMA DownFirst ==
  ASSUME DownOK, NEW c \in Conns, NEW first \in Seq(JoinEvents), down' = [down EXCEPT ![c] = first]
  PROVE  DownOK' /\ NoNewClaim
<1>1. first \in Seq(Events) /\ \A i \in DOMAIN first : first[i].type = "join"
  <2>1. JoinEvents \subseteq Events /\ \A e \in JoinEvents : e.type = "join"
    BY DEF JoinEvents
  <2>2. \A i \in DOMAIN first : first[i] \in JoinEvents
    OBVIOUS
  <2>3. first \in Seq(Events)
    BY <2>1
  <2>4. QED BY <2>1, <2>2, <2>3
<1>2. DownOK'
  BY <1>1 DEF DownOK
<1>3. down'[c] = first /\ \A d \in Conns \ {c} : down'[d] = down[d]
  BY DEF DownOK
<1>4. QED BY <1>1, <1>2, <1>3 DEF NoNewClaim

LEMMA DownRead ==
  ASSUME DownOK, NEW c \in Conns, down[c] # <<>>, down' = [down EXCEPT ![c] = Tail(@)]
  PROVE  DownOK' /\ NoNewClaim
<1>1. down[c] \in Seq(Events)
  BY DEF DownOK
<1>2. /\ Tail(down[c]) \in Seq(Events)
      /\ \A i \in DOMAIN Tail(down[c]) : i + 1 \in DOMAIN down[c] /\ Tail(down[c])[i] = down[c][i + 1]
  BY <1>1, TailFacts
<1>3. down'[c] = Tail(down[c]) /\ \A d \in Conns \ {c} : down'[d] = down[d]
  BY DEF DownOK
<1>4. DownOK'
  BY <1>2 DEF DownOK
<1>5. QED BY <1>2, <1>3, <1>4 DEF NoNewClaim

\* An event that is no answer is written to a connection.
LEMMA DownNotified ==
  ASSUME DownOK, NEW c \in Conns, NEW e \in Events, e.type \in {"reply", "ask", "join"},
         down' = Written(c, e)
  PROVE  DownOK' /\ NoNewClaim
BY DownWritten DEF NoNewClaim

\* Events to the relay are sent, worked off or dropped.
UpOK == up \in [Conns -> Seq(Ops)]

LEMMA UpHead ==
  ASSUME UpOK, NEW c \in Conns, up[c] # <<>>
  PROVE  /\ Head(up[c]) \in Ops /\ 1 \in DOMAIN up[c] /\ Head(up[c]) = up[c][1]
         /\ up' = [up EXCEPT ![c] = Tail(@)] =>
              /\ UpOK' /\ \A d \in Conns \ {c} : up'[d] = up[d]
              /\ \A i \in DOMAIN up'[c] : /\ i \in Nat /\ i # 0
                                          /\ i + 1 \in DOMAIN up[c] /\ up'[c][i] = up[c][i + 1]
<1>1. up[c] \in Seq(Ops)
  BY DEF UpOK
<1>2. /\ Head(up[c]) \in Ops /\ Tail(up[c]) \in Seq(Ops)
      /\ 1 \in DOMAIN up[c] /\ Head(up[c]) = up[c][1]
      /\ \A i \in DOMAIN Tail(up[c]) : /\ i + 1 \in DOMAIN up[c] /\ i \in Nat /\ i # 0
                                      /\ Tail(up[c])[i] = up[c][i + 1]
  BY <1>1, TailFacts
<1>3. ASSUME up' = [up EXCEPT ![c] = Tail(@)]
      PROVE  UpOK' /\ up'[c] = Tail(up[c]) /\ \A d \in Conns \ {c} : up'[d] = up[d]
  BY <1>2, <1>3 DEF UpOK
<1>4. QED BY <1>2, <1>3

LEMMA UpDropped ==
  ASSUME UpOK, NEW c \in Conns, up' = [up EXCEPT ![c] = <<>>]
  PROVE  UpOK' /\ \A d \in Conns : up'[d] = up[d] \/ (d = c /\ up'[d] = <<>>)
BY DEF UpOK

LEMMA UpSent ==
  ASSUME UpOK, NEW c \in Conns, NEW o \in Ops, up' = [up EXCEPT ![c] = Append(@, o)]
  PROVE  /\ UpOK' /\ \A d \in Conns \ {c} : up'[d] = up[d]
         /\ \A i \in DOMAIN up'[c] : \/ i \in DOMAIN up[c] /\ up'[c][i] = up[c][i]
                                     \/ i = Len(up[c]) + 1 /\ up'[c][i] = o
<1>1. up[c] \in Seq(Ops)
  BY DEF UpOK
<1>2. /\ Append(up[c], o) \in Seq(Ops)
      /\ \A i \in DOMAIN Append(up[c], o) :
           \/ i \in DOMAIN up[c] /\ Append(up[c], o)[i] = up[c][i]
           \/ i = Len(up[c]) + 1 /\ Append(up[c], o)[i] = o
  BY <1>1, AppendFacts
<1>3. UpOK' /\ up'[c] = Append(up[c], o) /\ \A d \in Conns \ {c} : up'[d] = up[d]
  BY <1>2 DEF UpOK
<1>4. QED BY <1>2, <1>3

-----------------------------------------------------------------------------
(* An operation is in one place                                            *)

\* Where nobody is sent, carried out, refused, acknowledged or answered, what
\* holds of each place remains true.
LEMMA KeptByDrift ==
  ASSUME Kept, UpOK, DownOK, OpsDrift, NoNewClaim, UNCHANGED done,
         \A c \in Conns : up'[c] = up[c] \/ up'[c] = <<>>,
         \A c \in Conns : acking'[c] = acking[c] \/ acking'[c] = None
  PROVE  Kept'
<1> USE DEF Kept
<1>1. ASSUME NEW c \in Conns, NEW i \in DOMAIN up'[c]
      PROVE  up'[c] = up[c] /\ i \in DOMAIN up[c] /\ up[c][i] \in Ops
  BY <1>1 DEF UpOK
<1>2. ASSUME NEW o \in Ops
      PROVE  /\ op[o].pc \in {"waiting", "unknown"} => op'[o].pc \in {"waiting", "unknown"}
             /\ op[o].pc \in {"waiting", "ok", "unknown"} =>
                  op'[o].pc \in {"waiting", "ok", "unknown"}
             /\ op'[o].pc = "ok" => op[o].pc = "ok"
             /\ op[o].pc \notin Unsent => op'[o].pc \notin Unsent
  BY DEF OpsDrift, Drift, Unsent
<1>3. UpOnce'
  BY <1>1 DEF UpOnce
<1>4. UpFresh'
  BY <1>1, <1>2 DEF UpFresh
<1>5. DoneOnce' /\ OkIsDone'
  BY <1>2 DEF DoneOnce, OkIsDone
<1>6. AckingIsDone'
  BY DEF AckingIsDone
<1>7. EventsAreTrue'
  <2>1. ASSUME NEW e, Truthful(e) PROVE Truthful(e)'
    BY <1>1, <1>2, <2>1 DEF Truthful
  <2>2. ASSUME NEW e, e.type \in {"reply", "ask", "join"} PROVE Truthful(e)'
    BY <2>2 DEF Truthful
  <2>3. QED BY <2>1, <2>2 DEF EventsAreTrue, NoNewClaim
<1>8. QED BY <1>3, <1>4, <1>5, <1>6, <1>7

\* An operation that was not sent before is sent.
Sends(o) ==
  /\ op[o].pc = "ready" /\ sendEvent(o)
  /\ op' = [op EXCEPT ![o] = [@ EXCEPT !.pc = "waiting", !.on = socket, !.sent = channelId]]
  /\ UNCHANGED <<done, acking, connVars, down>>

LEMMA KeptSends ==
  ASSUME Kept, Typed, NEW o \in Ops, Sends(o)
  PROVE  Kept'
<1> USE DEF Kept
<1>1. socket \in Conns /\ up' = [up EXCEPT ![socket] = Append(@, o)]
  BY DEF Sends, sendEvent, SocketIsOpen, Typed, IInv, SocketTypeOK
<1>2. UpOK
  BY DEF UpOK, Typed, SentTypeOK
<1>3. /\ \A d \in Conns \ {socket} : up'[d] = up[d]
      /\ \A i \in DOMAIN up'[socket] : \/ i \in DOMAIN up[socket] /\ up'[socket][i] = up[socket][i]
                                       \/ i = Len(up[socket]) + 1 /\ up'[socket][i] = o
  BY <1>1, <1>2, UpSent
<1>4. op'[o].pc = "waiting" /\ op[o].pc = "ready" /\ \A p \in Ops \ {o} : op'[p] = op[p]
  BY DEF Sends, Typed, IInv, OpTypeOK, Operations
<1>5. \A c \in Conns : \A i \in DOMAIN up[c] : up[c][i] \in Ops
  BY <1>2 DEF UpOK
<1>6. \A c \in Conns : \A i \in DOMAIN up[c] : up[c][i] # o
  BY <1>4 DEF UpFresh
<1>7. done' = done /\ acking' = acking /\ down' = down /\ done[o] = 0
  <2>1. done[o] = 0
    BY <1>4 DEF DoneOnce
  <2>2. QED BY <2>1 DEF Sends
<1>8. ASSUME NEW c \in Conns, NEW i \in DOMAIN up'[c]
      PROVE  \/ i \in DOMAIN up[c] /\ up'[c][i] = up[c][i]
             \/ c = socket /\ i = Len(up[socket]) + 1 /\ up'[c][i] = o
  BY <1>3, <1>8
<1>9. UpOnce'
  <2> SUFFICES ASSUME NEW c \in Conns, NEW d \in Conns, NEW i \in DOMAIN up'[c],
                      NEW j \in DOMAIN up'[d], up'[c][i] = up'[d][j]
               PROVE  c = d /\ i = j
    BY DEF UpOnce
  <2>1. CASE up'[c][i] = o
    <3>1. c = socket /\ i = Len(up[socket]) + 1
      BY <1>6, <1>8, <2>1
    <3>2. d = socket /\ j = Len(up[socket]) + 1
      BY <1>6, <1>8, <2>1
    <3>3. QED BY <3>1, <3>2
  <2>2. CASE up'[c][i] # o
    <3>1. i \in DOMAIN up[c] /\ up'[c][i] = up[c][i]
      BY <1>8, <2>2
    <3>2. j \in DOMAIN up[d] /\ up'[d][j] = up[d][j]
      BY <1>8, <2>2
    <3>3. up[c][i] = up[d][j]
      BY <3>1, <3>2
    <3>4. QED BY <3>1, <3>2, <3>3 DEF UpOnce
  <2>3. QED BY <2>1, <2>2
<1>10. UpFresh'
  BY <1>4, <1>5, <1>7, <1>8 DEF UpFresh
<1>11. DoneOnce' /\ OkIsDone' /\ AckingIsDone'
  BY <1>4, <1>7 DEF DoneOnce, OkIsDone, AckingIsDone
<1>12. EventsAreTrue'
  <2>1. ASSUME NEW e, Truthful(e) PROVE Truthful(e)'
    <3>1. e.type = "error" => e.op # o
      BY <1>4, <2>1 DEF Truthful, Unsent
    <3>2. QED BY <1>4, <1>7, <1>8, <2>1, <3>1 DEF Truthful
  <2>2. QED BY <1>7, <2>1 DEF EventsAreTrue
<1>13. QED BY <1>9, <1>10, <1>11, <1>12

\* The first event of a connection is worked off: nobody else asks for the same.
LEMMA HeadLeaves ==
  ASSUME UpOK, UpOnce, NEW c \in Conns, up[c] # <<>>, up' = [up EXCEPT ![c] = Tail(@)]
  PROVE  /\ UpOnce' /\ Head(up[c]) \in Ops /\ 1 \in DOMAIN up[c] /\ Head(up[c]) = up[c][1]
         /\ \A d \in Conns : \A i \in DOMAIN up'[d] :
              /\ up'[d][i] # Head(up[c]) /\ up'[d][i] \in Ops
              /\ \E j \in DOMAIN up[d] : up'[d][i] = up[d][j]
<1>1. /\ Head(up[c]) \in Ops /\ 1 \in DOMAIN up[c] /\ Head(up[c]) = up[c][1]
      /\ \A d \in Conns \ {c} : up'[d] = up[d]
      /\ \A i \in DOMAIN up'[c] : i \in Nat /\ i # 0 /\ i + 1 \in DOMAIN up[c] /\ up'[c][i] = up[c][i + 1]
  BY UpHead
<1>2. ASSUME NEW d \in Conns, NEW i \in DOMAIN up'[d]
      PROVE  /\ up'[d][i] # Head(up[c]) /\ up'[d][i] \in Ops
             /\ \E j \in DOMAIN up[d] : up'[d][i] = up[d][j] /\ j = IF d = c THEN i + 1 ELSE i
  <2>1. PICK j \in DOMAIN up[d] : /\ up'[d][i] = up[d][j] /\ (d = c => j # 1)
                                  /\ j = IF d = c THEN i + 1 ELSE i
    <3>1. CASE d = c
      BY <1>1, <1>2, <3>1
    <3>2. CASE d # c
      BY <1>1, <1>2, <3>2
    <3>3. QED BY <3>1, <3>2
  <2>2. up[d][j] # up[c][1]
    BY <1>1, <2>1 DEF UpOnce
  <2>3. up[d][j] \in Ops
    BY DEF UpOK
  <2>4. QED BY <1>1, <2>1, <2>2, <2>3
<1>3. UpOnce'
  <2> SUFFICES ASSUME NEW d1 \in Conns, NEW d2 \in Conns, NEW i \in DOMAIN up'[d1],
                      NEW j \in DOMAIN up'[d2], up'[d1][i] = up'[d2][j]
               PROVE  d1 = d2 /\ i = j
    BY DEF UpOnce
  <2>1. PICK i1 \in DOMAIN up[d1] : up'[d1][i] = up[d1][i1] /\ i1 = IF d1 = c THEN i + 1 ELSE i
    BY <1>2
  <2>2. PICK j1 \in DOMAIN up[d2] : up'[d2][j] = up[d2][j1] /\ j1 = IF d2 = c THEN j + 1 ELSE j
    BY <1>2
  <2>3. d1 = d2 /\ i1 = j1
    <3>1. up[d1][i1] = up[d2][j1]
      BY <2>1, <2>2
    <3>2. QED BY <3>1 DEF UpOnce
  <2>4. CASE d1 = c
    BY <1>1, <2>1, <2>2, <2>3, <2>4
  <2>5. CASE d1 # c
    BY <2>1, <2>2, <2>3, <2>5
  <2>6. QED BY <2>4, <2>5
<1>4. QED BY <1>1, <1>2, <1>3

\* What was not carried out and not refused is carried out.
LEMMA KeptCarriesOut ==
  ASSUME Kept, Typed, NEW c \in Conns, CarriesOut(c)
  PROVE  /\ Kept'
         /\ Head(up[c]) \in Ops /\ done[Head(up[c])] = 0 /\ op[Head(up[c])].pc # "failed"
<1> USE DEF Kept
<1> DEFINE o == Head(up[c])
<1>1. UpOK /\ up[c] # <<>> /\ up' = [up EXCEPT ![c] = Tail(@)]
  BY DEF CarriesOut, UpOK, Typed, SentTypeOK
<1>2. /\ UpOnce' /\ o \in Ops /\ 1 \in DOMAIN up[c] /\ o = up[c][1]
      /\ \A d \in Conns : \A i \in DOMAIN up'[d] :
           up'[d][i] # o /\ up'[d][i] \in Ops /\ \E j \in DOMAIN up[d] : up'[d][i] = up[d][j]
  BY <1>1, HeadLeaves
<1>3. done[o] = 0 /\ op[o].pc \in {"waiting", "unknown"}
  BY <1>2 DEF UpFresh
<1>4. /\ done'[o] = 1 /\ \A p \in Ops \ {o} : done'[p] = done[p]
      /\ acking'[c] = o /\ \A d \in Conns \ {c} : acking'[d] = acking[d]
      /\ op' = op /\ down' = down
  BY <1>2, <1>3 DEF CarriesOut, Typed, SentTypeOK
<1> HIDE DEF o
<1>5. UpFresh'
  BY <1>2, <1>4 DEF UpFresh
<1>6. DoneOnce' /\ OkIsDone'
  BY <1>3, <1>4 DEF DoneOnce, OkIsDone
<1>7. AckingIsDone'
  <2>1. acking \in [Conns -> Ops \cup {None}]
    BY DEF Typed, SentTypeOK
  <2>2. \A d \in Conns : acking[d] # None => acking[d] # o
    BY <1>3 DEF AckingIsDone
  <2>3. QED BY <1>4, <2>1, <2>2 DEF AckingIsDone
<1>8. EventsAreTrue'
  <2>1. ASSUME NEW e, Truthful(e) PROVE Truthful(e)'
    <3>1. e.type = "error" => e.op # o
      BY <1>2, <2>1 DEF Truthful
    <3>2. e.type = "ack" => e.op # o
      BY <1>3, <2>1 DEF Truthful
    <3>3. QED BY <1>2, <1>4, <2>1, <3>1, <3>2 DEF Truthful
  <2>2. QED BY <1>4, <2>1 DEF EventsAreTrue
<1>9. QED BY <1>2, <1>3, <1>5, <1>6, <1>7, <1>8 DEF o

\* What was not carried out is refused, and never will be.
LEMMA KeptRefuses ==
  ASSUME Kept, Typed, NEW c \in Conns, Refuses(c)
  PROVE  Kept'
<1> USE DEF Kept
<1> DEFINE o == Head(up[c])
<1>1. UpOK /\ DownOK /\ up[c] # <<>> /\ up' = [up EXCEPT ![c] = Tail(@)]
  BY DEF Refuses, UpOK, DownOK, Typed, SentTypeOK
<1>2. /\ UpOnce' /\ o \in Ops /\ 1 \in DOMAIN up[c] /\ o = up[c][1]
      /\ \A d \in Conns : \A i \in DOMAIN up'[d] :
           up'[d][i] # o /\ up'[d][i] \in Ops /\ \E j \in DOMAIN up[d] : up'[d][i] = up[d][j]
  BY <1>1, HeadLeaves
<1>3. done[o] = 0 /\ op[o].pc \in {"waiting", "unknown"}
  BY <1>2 DEF UpFresh
<1>4. op' = op /\ done' = done /\ acking' = acking /\ down' = Written(c, Event("error", o, None))
  BY DEF Refuses
<1> HIDE DEF o
<1>5. PICK e \in Events : e.type = "error" /\ e.op = o /\ e = Event("error", o, None)
  BY <1>2 DEF Events, Event
<1>6. UpFresh'
  BY <1>2, <1>4 DEF UpFresh
<1>7. DoneOnce' /\ OkIsDone' /\ AckingIsDone'
  BY <1>4 DEF DoneOnce, OkIsDone, AckingIsDone
<1>8. EventsAreTrue'
  <2>1. ASSUME NEW f, Truthful(f) PROVE Truthful(f)'
    BY <1>2, <1>4, <2>1 DEF Truthful
  <2>2. Truthful(e)'
    BY <1>2, <1>3, <1>4, <1>5 DEF Truthful, Unsent
  <2>3. \A d \in Conns : \A i \in DOMAIN down'[d] :
          down'[d][i] = e \/ \E j \in DOMAIN down[d] : down'[d][i] = down[d][j]
    BY <1>1, <1>4, <1>5, DownWritten
  <2>4. QED BY <2>1, <2>2, <2>3 DEF EventsAreTrue
<1>9. QED BY <1>2, <1>6, <1>7, <1>8

\* What was carried out is acknowledged.
LEMMA KeptAcknowledges ==
  ASSUME Kept, Typed, NEW c \in Conns, Acknowledges(c)
  PROVE  Kept'
<1> USE DEF Kept
<1>1. DownOK /\ acking \in [Conns -> Ops \cup {None}]
  BY DEF DownOK, Typed, SentTypeOK
<1>2. /\ op' = op /\ done' = done /\ up' = up /\ down' = Written(c, Event("ack", acking[c], None))
      /\ acking[c] # None /\ acking' = [acking EXCEPT ![c] = None]
  BY DEF Acknowledges
<1>3. PICK e \in Events : /\ e.type = "ack" /\ e.op = acking[c] /\ e.op \in Ops
                         /\ e = Event("ack", acking[c], None)
  BY <1>1, <1>2 DEF Events, Event
<1>4. UpOnce' /\ UpFresh' /\ DoneOnce' /\ OkIsDone'
  BY <1>2 DEF UpOnce, UpFresh, DoneOnce, OkIsDone
<1>5. AckingIsDone'
  BY <1>1, <1>2 DEF AckingIsDone
<1>6. EventsAreTrue'
  <2>1. ASSUME NEW f, Truthful(f) PROVE Truthful(f)'
    BY <1>2, <2>1 DEF Truthful
  <2>2. Truthful(e)'
    BY <1>2, <1>3 DEF Truthful, AckingIsDone
  <2>3. \A d \in Conns : \A i \in DOMAIN down'[d] :
          down'[d][i] = e \/ \E j \in DOMAIN down[d] : down'[d][i] = down[d][j]
    BY <1>1, <1>2, <1>3, DownWritten
  <2>4. QED BY <2>1, <2>2, <2>3 DEF EventsAreTrue
<1>7. QED BY <1>4, <1>5, <1>6

\* The client takes an event in: an acknowledgement of what is done, an error of
\* what is not, or nothing that the operation waits for.
LEMMA KeptReceive ==
  ASSUME Kept, Typed, NEW c \in Conns, Receive(c)
  PROVE  /\ Kept'
         /\ \A o \in Ops :
              \/ op'[o] = op[o]
              \/ /\ op[o].pc = "waiting" /\ op'[o].item = op[o].item
                 /\ op'[o].pc \in {"ok", "failed"}
                 /\ op'[o].pc = "ok" => done[o] = 1
                 /\ op'[o].pc = "failed" => done[o] = 0
<1> USE DEF Kept
<1> DEFINE e == Head(down[c])
<1>1. /\ DownOK /\ UpOK /\ down[c] # <<>> /\ down' = [down EXCEPT ![c] = Tail(@)]
      /\ op' = Resolved(e) /\ UNCHANGED <<done, up, acking>> /\ op \in Operations
  BY DEF Receive, DownOK, UpOK, Typed, SentTypeOK, IInv, OpTypeOK, relayVars
<1>2. Truthful(e) /\ e \in Events
  <2>1. down[c] \in Seq(Events)
    BY <1>1 DEF DownOK
  <2>2. 1 \in DOMAIN down[c] /\ e = down[c][1] /\ e \in Events
    BY <1>1, <2>1, TailFacts
  <2>3. QED BY <2>2 DEF EventsAreTrue
<1> HIDE DEF e
<1>3. DownOK' /\ NoNewClaim
  BY <1>1, DownRead
<1>4. ASSUME NEW o \in Ops
      PROVE  \/ op'[o] = op[o]
             \/ /\ op[o].pc = "waiting" /\ op'[o].item = op[o].item
                /\ \/ op'[o].pc = "ok" /\ done[o] = 1
                   \/ /\ op'[o].pc = "failed" /\ done[o] = 0
                      /\ \A d \in Conns : \A i \in DOMAIN up[d] : up[d][i] # o
  <2>1. CASE e.type \in {"ack", "error"} /\ op[e.op].pc = "waiting"
    <3>1. PICK end \in {"ok", "failed"} : /\ op' = Settled(op, e.op, end)
                                          /\ end = IF e.type = "ack" THEN "ok" ELSE "failed"
      BY <1>1, <2>1 DEF Resolved
    <3>2. e.op \in Ops /\ end \in Ended
      BY <1>2, <2>1, <3>1 DEF Truthful, Ended
    <3>3. /\ op'[e.op].pc = end /\ op'[e.op].item = op[e.op].item
          /\ \A q \in Ops \ {e.op} : op'[q] = op[q]
      BY <1>1, <3>1, <3>2, SettledOps, SettledItem
    <3>4. QED BY <1>2, <2>1, <3>1, <3>3 DEF Truthful
  <2>2. CASE ~(e.type \in {"ack", "error"} /\ op[e.op].pc = "waiting")
    BY <1>1, <2>2 DEF Resolved
  <2>3. QED BY <2>1, <2>2
<1>5. UpOnce' /\ AckingIsDone'
  BY <1>1 DEF UpOnce, AckingIsDone
<1>6. UpFresh'
  <2> SUFFICES ASSUME NEW d \in Conns, NEW i \in DOMAIN up[d]
               PROVE  done[up[d][i]] = 0 /\ op'[up[d][i]].pc \in {"waiting", "unknown"}
    BY <1>1 DEF UpFresh
  <2>1. up[d][i] \in Ops
    BY <1>1 DEF UpOK
  <2>2. done[up[d][i]] = 0 /\ op[up[d][i]].pc \in {"waiting", "unknown"}
    BY DEF UpFresh
  <2>3. QED BY <1>4, <2>1, <2>2
<1>7. DoneOnce' /\ OkIsDone'
  BY <1>1, <1>4 DEF DoneOnce, OkIsDone
<1>8. EventsAreTrue'
  <2>1. ASSUME NEW f, Truthful(f) PROVE Truthful(f)'
    BY <1>1, <1>4, <2>1 DEF Truthful, Unsent
  <2>2. ASSUME NEW f, f.type \in {"reply", "ask", "join"} PROVE Truthful(f)'
    BY <2>2 DEF Truthful
  <2>3. QED BY <1>3, <2>1, <2>2 DEF EventsAreTrue, NoNewClaim
<1>9. QED BY <1>4, <1>5, <1>6, <1>7, <1>8

-----------------------------------------------------------------------------
(* The steps: types, places and what is promised                           *)

Before == Typed /\ Kept
After == ConnOK' /\ SentTypeOK' /\ Kept'

LEMMA TypedParts ==
  ASSUME Typed
  PROVE  /\ ConnOK /\ IInv /\ SocketTypeOK /\ UpOK /\ DownOK /\ op \in Operations
         /\ acking \in [Conns -> Ops \cup {None}] /\ done \in [Ops -> Nat]
BY DEF Typed, ConnOK, IInv, UpOK, DownOK, SentTypeOK, OpTypeOK

\* Nobody is sent, carried out, refused, acknowledged or answered.
Quiet == ConnOK' /\ OpsDrift /\ DownOK' /\ NoNewClaim /\ UNCHANGED relayVars

LEMMA QuietStep ==
  ASSUME Before, Quiet
  PROVE  After
<1>1. UpOK /\ DownOK
  BY TypedParts DEF Before
<1>2. UNCHANGED <<done, up, acking>>
  BY DEF Quiet, relayVars
<1>3. SentTypeOK'
  BY <1>2 DEF Quiet, Before, Typed, SentTypeOK, DownOK
<1>4. Kept'
  BY <1>1, <1>2, KeptByDrift DEF Before, Quiet
<1>5. QED BY <1>3, <1>4 DEF After, Quiet

LEMMA LossIsQuiet ==
  ASSUME Before,
         \/ \E ch \in Channels : connect(ch)
         \/ disconnect \/ ProbeFails
         \/ \E c \in Conns : Posted(c) \/ OpenFails(c) \/ Closes(c)
  PROVE  Quiet
<1>1. ConnOK' /\ OpsDrift
  BY TypedParts, ConnConnect, ConnDisconnect, ConnLoses DEF Before
<1>2. UNCHANGED relayVars
  BY DEF connect, disconnect, ProbeFails, Posted, OpenFails, Closes
<1>3. down' = DownClosed
  BY DEF connect, disconnect, ProbeFails, Posted, OpenFails, Closes, CloseCurrentSocket
<1>4. DownOK' /\ NoNewClaim
  BY <1>3, TypedParts, DownCloses DEF Before
<1>5. QED BY <1>1, <1>2, <1>4 DEF Quiet

LEMMA OpeningIsQuiet ==
  ASSUME Before, joins \subseteq Requests, NEW c \in Conns, OpenSocket(c)
  PROVE  Quiet
<1>1. Opens(c, JoinRequests(channelId)) /\ JoinRequests(channelId) \in Seq(JoinEvents)
  BY JoinRequestsTyped DEF OpenSocket
<1>2. ConnOK' /\ OpsDrift
  BY <1>1, TypedParts, ConnOpens DEF Before
<1>3. UNCHANGED relayVars /\ down' = [down EXCEPT ![c] = JoinRequests(channelId)]
  BY <1>1 DEF Opens
<1>4. DownOK' /\ NoNewClaim
  BY <1>1, <1>3, TypedParts, DownFirst DEF Before
<1>5. QED BY <1>2, <1>3, <1>4 DEF Quiet

LEMMA ConnectionIsQuiet ==
  ASSUME Before,
         \/ PostFails \/ LoopPosts \/ OldLoopEnds \/ HeartbeatDue \/ ProbeAnswered
         \/ ProbeTimesOut \/ ConnectReturns \/ \E c \in Conns : GoesHalfOpen(c)
  PROVE  Quiet
<1>1. ConnOK' /\ OpsDrift
  BY TypedParts, ConnProceeds, ConnReturns DEF Before
<1>2. UNCHANGED relayVars
  BY DEF PostFails, LoopPosts, OldLoopEnds, HeartbeatDue, ProbeAnswered, ProbeTimesOut,
         ConnectReturns, GoesHalfOpen
<1>3. down' = down \/ \E c \in Conns : down' = [down EXCEPT ![c] = <<>>]
  BY DEF PostFails, LoopPosts, OldLoopEnds, HeartbeatDue, ProbeAnswered, ProbeTimesOut,
         ConnectReturns, GoesHalfOpen
<1>4. DownOK' /\ NoNewClaim
  BY <1>3, TypedParts, DownSame, DownEmptied DEF Before
<1>5. QED BY <1>1, <1>2, <1>4 DEF Quiet

\* Who is issued, let run, failed before it is sent, or given up.
LEMMA OperationIsQuiet ==
  ASSUME Before, NEW o \in Ops, NEW item,
         \/ Issue(o, item) \/ HeldRuns(o) \/ TimesOut(o)
         \/ /\ op[o].pc = "ready" /\ op' = Settled(op, o, "failed")
            /\ UNCHANGED <<relayVars, connVars, down>>
  PROVE  Quiet
<1>1. ConnOK /\ IInv /\ OpTypeOK /\ DownOK
  BY TypedParts DEF Before, OpTypeOK
<1>2. CASE Issue(o, item)
  <2>1. ConnOK' /\ OpsDrift
    BY <1>1, <1>2, ConnIssue
  <2>2. UNCHANGED <<relayVars, down>>
    BY <1>2 DEF Issue
  <2>3. QED BY <1>1, <2>1, <2>2, DownSame DEF Quiet
<1>3. CASE ~Issue(o, item)
  <2>1. UNCHANGED <<relayVars, connVars, down>>
    BY <1>3 DEF HeldRuns, TimesOut
  <2>2. OpsDrift /\ NoNewCheck
    <3>1. CASE HeldRuns(o)
      BY <1>1, <3>1, HeldDrift DEF NoNewCheck
    <3>2. CASE TimesOut(o)
      <4>1. "unknown" \in Ended /\ op[o].pc = "waiting" /\ op' = Settled(op, o, "unknown")
        BY <3>2 DEF Ended, TimesOut
      <4>2. Drift([pc |-> op[o].pc, item |-> None], [pc |-> "unknown", item |-> None])
        BY <4>1 DEF Drift
      <4>3. QED BY <1>1, <4>1, <4>2, SettledDrift DEF NoNewCheck
    <3>3. CASE op[o].pc = "ready" /\ op' = Settled(op, o, "failed")
      <4>1. "failed" \in Ended
        BY DEF Ended
      <4>2. Drift([pc |-> op[o].pc, item |-> None], [pc |-> "failed", item |-> None])
        BY <3>3 DEF Drift
      <4>3. QED BY <1>1, <3>3, <4>1, <4>2, SettledDrift DEF NoNewCheck
    <3>4. QED BY <1>3, <3>1, <3>2, <3>3
  <2>3. ConnOK'
    BY <1>1, <2>1, <2>2, ConnQuiet
  <2>4. QED BY <1>1, <2>1, <2>2, <2>3, DownSame DEF Quiet
<1>4. QED BY <1>2, <1>3

\* The relay writes what claims nothing.
LEMMA NotificationIsQuiet ==
  ASSUME Before, NEW c \in Conns, NEW e \in Events, e.type \in {"reply", "ask", "join"},
         down' = Written(c, e), UNCHANGED <<op, relayVars, connVars>>
  PROVE  Quiet
<1>1. OpsDrift /\ NoNewCheck /\ ConnOK /\ DownOK
  BY NoDrift, TypedParts DEF NoNewCheck, Before
<1>2. ConnOK'
  BY <1>1, ConnQuiet
<1>3. DownOK' /\ NoNewClaim
  BY <1>1, DownNotified
<1>4. QED BY <1>1, <1>2, <1>3 DEF Quiet

LEMMA NothingIsQuiet ==
  ASSUME Before, UNCHANGED deliveryVars
  PROVE  Quiet
<1>1. OpsDrift /\ NoNewCheck /\ ConnOK /\ DownOK /\ UNCHANGED <<relayVars, connVars, down>>
  BY NoDrift, TypedParts DEF NoNewCheck, Before, deliveryVars
<1>2. ConnOK'
  BY <1>1, ConnQuiet
<1>3. QED BY <1>1, <1>2, DownSame DEF Quiet

\* The steps that are not quiet change nothing of the connection.
LEMMA SendStep ==
  ASSUME Before, NEW o \in Ops, Sends(o)
  PROVE  After
<1>1. Kept'
  BY KeptSends DEF Before
<1>2. op'[o].pc = "waiting" /\ \A p \in Ops \ {o} : op'[p] = op[p]
  BY TypedParts DEF Sends, Before, Operations
<1>3. NoNewCheck /\ UNCHANGED connVars
  BY <1>2 DEF NoNewCheck, Sends
<1>4. ConnOK'
  BY <1>3, TypedParts, ConnQuiet DEF Before
<1>5. socket \in Conns /\ up' = [up EXCEPT ![socket] = Append(@, o)]
  BY TypedParts DEF Sends, sendEvent, SocketIsOpen, Before, SocketTypeOK
<1>6. UpOK'
  BY <1>5, TypedParts, UpSent DEF Before
<1>7. SentTypeOK'
  BY <1>6 DEF SentTypeOK, UpOK, Before, Typed, Sends
<1>8. QED BY <1>1, <1>4, <1>7 DEF After

LEMMA ReceiveStep ==
  ASSUME Before, NEW c \in Conns, Receive(c)
  PROVE  After
<1>1. /\ Kept'
      /\ \A o \in Ops : op'[o] = op[o] \/ op'[o].pc \in {"ok", "failed"}
  BY KeptReceive DEF Before
<1>2. NoNewCheck /\ UNCHANGED <<relayVars, connVars>>
  BY <1>1 DEF NoNewCheck, Receive
<1>3. ConnOK'
  BY <1>2, TypedParts, ConnQuiet DEF Before
<1>4. DownOK'
  BY TypedParts, DownRead DEF Before, Receive
<1>5. SentTypeOK'
  BY <1>2, <1>4 DEF SentTypeOK, DownOK, Before, Typed, relayVars
<1>6. QED BY <1>1, <1>3, <1>5 DEF After

LEMMA RelayStep ==
  ASSUME Before, NEW c \in Conns, CarriesOut(c) \/ Refuses(c) \/ Acknowledges(c)
  PROVE  After
<1>1. Kept'
  BY KeptCarriesOut, KeptRefuses, KeptAcknowledges DEF Before
<1>2. UNCHANGED <<op, connVars>>
  BY DEF CarriesOut, Refuses, Acknowledges
<1>3. ConnOK'
  BY <1>2, TypedParts, ConnQuiet DEF Before, NoNewCheck
<1>4. UpOK /\ DownOK /\ done \in [Ops -> Nat] /\ acking \in [Conns -> Ops \cup {None}]
  BY TypedParts DEF Before
<1>5. UpOK' /\ (up[c] # <<>> => Head(up[c]) \in Ops)
  BY <1>4, UpHead DEF CarriesOut, Refuses, Acknowledges, UpOK
<1>6. done' \in [Ops -> Nat] /\ acking' \in [Conns -> Ops \cup {None}]
  <2>1. CASE CarriesOut(c)
    <3>1. Head(up[c]) \in Ops
      BY <1>5, <2>1 DEF CarriesOut
    <3>2. QED BY <1>4, <2>1, <3>1 DEF CarriesOut
  <2>2. CASE Refuses(c)
    BY <1>4, <2>2 DEF Refuses
  <2>3. CASE Acknowledges(c)
    BY <1>4, <2>3 DEF Acknowledges
  <2>4. QED BY <2>1, <2>2, <2>3
<1>7. DownOK'
  <2>1. CASE CarriesOut(c)
    BY <1>4, <2>1 DEF CarriesOut, DownOK
  <2>2. CASE Refuses(c)
    <3>1. Event("error", Head(up[c]), None) \in Events
      BY <1>5, <2>2 DEF Refuses, Events, Event
    <3>2. QED BY <1>4, <2>2, <3>1, DownWritten DEF Refuses
  <2>3. CASE Acknowledges(c)
    <3>1. Event("ack", acking[c], None) \in Events
      BY <1>4, <2>3 DEF Acknowledges, Events, Event
    <3>2. QED BY <1>4, <2>3, <3>1, DownWritten DEF Acknowledges
  <2>4. QED BY <2>1, <2>2, <2>3
<1>8. SentTypeOK'
  BY <1>5, <1>6, <1>7 DEF SentTypeOK, UpOK, DownOK
<1>9. QED BY <1>1, <1>3, <1>8 DEF After

\* A connection that is gone loses what was under way on it.
LEMMA DropStep ==
  ASSUME Before, NEW c \in Conns, Drops(c)
  PROVE  After
<1>1. /\ UNCHANGED <<op, done, connVars, down>>
      /\ up' = [up EXCEPT ![c] = <<>>] /\ acking' = [acking EXCEPT ![c] = None]
  BY DEF Drops
<1>2. UpOK /\ DownOK /\ acking \in [Conns -> Ops \cup {None}] /\ ConnOK
  BY TypedParts DEF Before
<1>3. ConnOK' /\ OpsDrift
  BY <1>1, <1>2, NoDrift, ConnQuiet DEF NoNewCheck
<1>4. DownOK' /\ NoNewClaim
  BY <1>1, <1>2, DownSame
<1>5. UpOK' /\ \A d \in Conns : up'[d] = up[d] \/ up'[d] = <<>>
  BY <1>1, <1>2, UpDropped
<1>6. \A d \in Conns : acking'[d] = acking[d] \/ acking'[d] = None
  BY <1>1, <1>2
<1>7. Kept'
  BY <1>1, <1>2, <1>3, <1>4, <1>5, <1>6, KeptByDrift DEF Before
<1>8. SentTypeOK'
  BY <1>1, <1>2, <1>4, <1>5 DEF SentTypeOK, UpOK, DownOK, Before, Typed
<1>9. QED BY <1>3, <1>7, <1>8 DEF After

-----------------------------------------------------------------------------
(* What is pending stays pending                                           *)

\* Nobody changes what he wants, and what is done remains done.
Onward ==
  \A o \in Ops : /\ op[o].pc # "none" => op'[o].item = op[o].item
                 /\ done[o] > 0 => done'[o] > 0

LEMMA AnsweredStays ==
  ASSUME Before, Onward, NEW r, Answered(r)
  PROVE  Answered(r)'
<1>1. PICK o \in Ops : op[o].item = r /\ done[o] > 0
  BY DEF Answered
<1>2. op[o].pc # "none"
  BY <1>1 DEF Before, Kept, DoneOnce
<1>3. QED BY <1>1, <1>2 DEF Answered, Onward

LEMMA QuietOnward ==
  ASSUME Quiet
  PROVE  Onward
BY DEF Quiet, OpsDrift, Drift, Onward, relayVars

\* The pending state is as before.
LEMMA NotedSame ==
  ASSUME Before, Noted, Onward, UNCHANGED <<pending, heard>>
  PROVE  Noted'
BY AnsweredStays DEF Noted

\* The user's connect to another channel, or disconnect, clears everything.
LEMMA NotedCleared ==
  ASSUME heard' = Cleared
  PROVE  Noted'
BY DEF Noted, Cleared

\* connect returns.
LEMMA NotedReturns ==
  ASSUME Before, Noted, Onward, ConnectReturns
  PROVE  Noted'
<1>1. CASE channelName \in {None, args[1]}
  BY <1>1, NotedSame DEF ConnectReturns
<1>2. CASE channelName \notin {None, args[1]}
  BY <1>2, NotedCleared DEF ConnectReturns
<1>3. QED BY <1>1, <1>2

\* An event is handled: a request that comes is pending from then on, and only
\* what the relay has carried out is forgotten.
LEMMA NotedHandles ==
  ASSUME Before, PendingTypeOK, Noted, NEW c \in Conns, HandleEvent(c)
  PROVE  PendingTypeOK' /\ Noted'
<1> DEFINE e == Head(down[c])
<1>1. /\ Receive(c) /\ UNCHANGED <<joins, join, channelName>>
      /\ pending' = [r \in Requests |-> IF r \in Recorded(e) THEN channelId
                                        ELSE IF r \in Forgotten(e) THEN None ELSE pending[r]]
      /\ heard' = [r \in Requests |-> IF r \in Recorded(e) THEN "kept" ELSE heard[r]]
  BY DEF HandleEvent
<1>2. SocketIsOpen /\ UNCHANGED done
  <2>1. socket = c /\ sock[c] = "open" /\ UNCHANGED <<relayVars, connVars>>
    BY <1>1 DEF Receive
  <2>2. QED BY <2>1, ToolAssumption DEF SocketIsOpen, relayVars, connVars
<1>3. channelId \in Channels /\ channelId # None
  <2>1. socket # None /\ args # None
    BY <1>2 DEF SocketIsOpen, Before, Typed, NothingBeforeConnect
  <2>2. QED BY <2>1, ToolAssumption DEF Before, Typed, IInv, SocketIsOfArgs, SocketTypeOK
<1>4. Onward
  <2>1. \A o \in Ops : op'[o].item = op[o].item
    BY <1>1, KeptReceive DEF Before
  <2>2. QED BY <1>2, <2>1 DEF Onward
<1>5. ASSUME NEW r \in Forgotten(e) PROVE Answered(r)
  <2>1. Truthful(e)
    <3>1. down[c] \in Seq(Events) /\ down[c] # <<>>
      BY <1>1, TypedParts DEF DownOK, Before, Receive
    <3>2. 1 \in DOMAIN down[c] /\ e = down[c][1]
      BY <3>1, TailFacts
    <3>3. QED BY <3>2 DEF Before, Kept, EventsAreTrue
  <2>2. e.op \in Ops /\ done[e.op] = 1 /\ op[e.op].item = r
    BY <1>5, <2>1 DEF Forgotten, Truthful
  <2>3. QED BY <2>2 DEF Answered
<1> HIDE DEF e
<1>6. PendingTypeOK'
  BY <1>1, <1>3 DEF PendingTypeOK
<1>7. ASSUME NEW r \in Requests, heard'[r] = "kept"
      PROVE  Answered(r)' \/ pending'[r] # None
  <2>1. CASE r \in Recorded(e)
    BY <1>1, <1>3, <2>1
  <2>2. CASE r \notin Recorded(e) /\ r \in Forgotten(e)
    BY <1>4, <1>5, <2>2, AnsweredStays
  <2>3. CASE r \notin Recorded(e) /\ r \notin Forgotten(e)
    <3>1. heard'[r] = heard[r] /\ pending'[r] = pending[r]
      BY <1>1, <2>3
    <3>2. Answered(r) \/ pending[r] # None
      BY <1>7, <3>1 DEF Noted
    <3>3. QED BY <1>4, <3>1, <3>2, AnsweredStays
  <2>4. QED BY <2>1, <2>2, <2>3
<1>8. QED BY <1>6, <1>7 DEF Noted

-----------------------------------------------------------------------------
(* What is reported                                                        *)

Reported(o) == IF op[o].pc \in Ended THEN op[o].pc ELSE "none"

\* What is reported anew is true, and what was reported stays.
Honestly ==
  \A o \in Ops : Reported(o)' # Reported(o) =>
    Reported(o) = "none" /\ Reported(o)' \in {"unknown", IF done[o] = 1 THEN "ok" ELSE "failed"}

LEMMA HonestReport ==
  ASSUME op' \in Operations, Honestly, UNCHANGED done
  PROVE  Promise!Report
<1> DEFINE result == [o \in Ops |-> IF op[o].pc \in Ended THEN op[o].pc ELSE "none"]
<1>1. \A o \in Ops : result[o] = Reported(o) /\ result'[o] = Reported(o)'
  BY DEF Reported
<1>2. result' \in [Ops -> {"none", "ok", "failed", "unknown"}]
  BY DEF Ended
<1>3. \A o \in Ops : result'[o] # result[o] => result[o] = "none" /\ result'[o] \in Promise!Honest(o)
  BY <1>1 DEF Honestly, Promise!Honest
<1>4. QED BY <1>2, <1>3 DEF Promise!Report

LEMMA QuietHonest ==
  ASSUME Before, Quiet
  PROVE  Honestly /\ UNCHANGED done
<1>1. UNCHANGED done
  BY DEF Quiet, relayVars
<1>2. ASSUME NEW o \in Ops, Reported(o)' # Reported(o)
      PROVE  Reported(o) = "none" /\ Reported(o)' \in {"unknown", IF done[o] = 1 THEN "ok" ELSE "failed"}
  <2>1. Drift(op[o], op'[o])
    BY DEF Quiet, OpsDrift
  <2>2. CASE op[o].pc = "ready" /\ op'[o].pc = "failed"
    <3>1. done[o] # 1
      BY <2>2 DEF Before, Kept, DoneOnce
    <3>2. QED BY <2>2, <3>1 DEF Reported, Ended
  <2>3. CASE op[o].pc = "waiting" /\ op'[o].pc = "unknown"
    BY <2>3 DEF Reported, Ended
  <2>4. CASE op[o].pc \in Unsent /\ op'[o].pc \in {"checking", "held", "ready"}
    BY <1>2, <2>4 DEF Reported, Unsent, Ended
  <2>5. CASE op'[o].pc = op[o].pc
    BY <1>2, <2>5 DEF Reported
  <2>6. QED BY <2>1, <2>2, <2>3, <2>4, <2>5 DEF Drift
<1>3. QED BY <1>1, <1>2 DEF Honestly

LEMMA SendHonest ==
  ASSUME Before, NEW o \in Ops, Sends(o)
  PROVE  Honestly /\ UNCHANGED done
<1>1. op[o].pc = "ready" /\ op'[o].pc = "waiting" /\ \A p \in Ops \ {o} : op'[p] = op[p]
  BY TypedParts DEF Sends, Before, Operations
<1>2. \A p \in Ops : Reported(p)' = Reported(p)
  BY <1>1 DEF Reported, Ended
<1>3. QED BY <1>2 DEF Honestly, Sends

LEMMA ReceiveHonest ==
  ASSUME Before, NEW c \in Conns, Receive(c)
  PROVE  Honestly /\ UNCHANGED done
<1>1. UNCHANGED done
  BY DEF Receive, relayVars
<1>2. ASSUME NEW o \in Ops, Reported(o)' # Reported(o)
      PROVE  Reported(o) = "none" /\ Reported(o)' \in {"unknown", IF done[o] = 1 THEN "ok" ELSE "failed"}
  <2>1. op'[o] # op[o]
    BY <1>2 DEF Reported
  <2>2. /\ op[o].pc = "waiting" /\ op'[o].pc \in {"ok", "failed"}
        /\ op'[o].pc = "ok" => done[o] = 1
        /\ op'[o].pc = "failed" => done[o] = 0
    BY <2>1, KeptReceive DEF Before
  <2>3. QED BY <2>2 DEF Reported, Ended
<1>3. QED BY <1>1, <1>2 DEF Honestly

LEMMA SameHonest ==
  ASSUME UNCHANGED op
  PROVE  Honestly
BY DEF Honestly, Reported

\* Carrying out is a step of Courier.
LEMMA CarriedOut ==
  ASSUME Before, NEW c \in Conns, CarriesOut(c)
  PROVE  \E o \in Ops : Promise!CarryOut(o)
<1> DEFINE o == Head(up[c])
<1>1. /\ o \in Ops /\ done[o] = 0 /\ op[o].pc # "failed"
      /\ done' = [done EXCEPT ![o] = @ + 1] /\ op' = op
  BY KeptCarriesOut DEF Before, CarriesOut
<1>2. done' = [done EXCEPT ![o] = 1]
  BY <1>1
<1> HIDE DEF o
<1>3. Promise!CarryOut(o)
  BY <1>1, <1>2 DEF Promise!CarryOut, Ended
<1>4. QED BY <1>1, <1>3

-----------------------------------------------------------------------------
(* Who waits will hear                                                     *)

\* What the relay or the websocket still holds for a waiter.
Coming(o, c) ==
  \/ \E i \in DOMAIN up[c] : up[c][i] = o
  \/ acking[c] = o
  \/ \E i \in DOMAIN down[c] : down[c][i].op = o /\ down[c][i].type \in {"ack", "error"}

\* What was under way on the connection c is still under way.
Grows(c) == \A i \in DOMAIN down[c] : i \in DOMAIN down'[c] /\ down'[c][i] = down[c][i]

\* The websocket in use loses nothing that was under way to the client.
Calm ==
  SocketIsOpen /\ SocketIsOpen' =>
    /\ socket' = socket
    /\ sock'[socket] = "open" => sock[socket] = "open" /\ Grows(socket)

LEMMA AppendKeeps ==
  ASSUME NEW S, NEW s \in Seq(S), NEW x \in S
  PROVE  /\ \A i \in DOMAIN s : i \in DOMAIN Append(s, x) /\ Append(s, x)[i] = s[i]
         /\ \E i \in DOMAIN Append(s, x) : Append(s, x)[i] = x
<1>1. Len(s) + 1 \in DOMAIN Append(s, x) /\ Append(s, x)[Len(s) + 1] = x
  OBVIOUS
<1>2. QED BY <1>1

\* What is not the head of a sequence is in its tail.
LEMMA TailKeeps ==
  ASSUME NEW S, NEW s \in Seq(S), s # <<>>, NEW i \in DOMAIN s, i # 1
  PROVE  i - 1 \in DOMAIN Tail(s) /\ Tail(s)[i - 1] = s[i]
OBVIOUS

LEMMA WrittenGrows ==
  ASSUME DownOK, NEW c \in Conns, NEW e \in Events, down' = Written(c, e)
  PROVE  /\ \A d \in Conns : Grows(d)
         /\ sock[c] = "open" => \E i \in DOMAIN down'[c] : down'[c][i] = e
<1>1. down[c] \in Seq(Events)
  BY DEF DownOK
<1>2. CASE sock[c] = "open"
  <2>1. down'[c] = Append(down[c], e) /\ \A d \in Conns \ {c} : down'[d] = down[d]
    BY <1>2 DEF Written, DownOK
  <2>2. QED BY <1>1, <2>1, AppendKeeps DEF Grows
<1>3. CASE sock[c] # "open"
  BY <1>3 DEF Written, Grows
<1>4. QED BY <1>2, <1>3

\* Without an open websocket nobody waits.
LEMMA NobodyHears ==
  ASSUME WaiterHasSocket', ~SocketIsOpen'
  PROVE  WaiterWillHear'
BY DEF WaiterHasSocket, WaiterWillHear

LEMMA QuietHears ==
  ASSUME WaiterHasSocket, WaiterHasSocket', WaiterWillHear, Quiet, Calm
  PROVE  WaiterWillHear'
<1> SUFFICES ASSUME NEW o \in Ops, NEW c \in Conns,
                    op'[o].pc = "waiting", op'[o].on = c, sock'[c] = "open"
             PROVE  Coming(o, c)'
  BY DEF WaiterWillHear, Coming
<1>1. socket' = c /\ SocketIsOpen'
  BY DEF WaiterHasSocket
<1>2. op[o].pc = "waiting"
  BY DEF Quiet, OpsDrift, Drift, Unsent
<1>3. op[o].on = socket /\ SocketIsOpen
  BY <1>2 DEF WaiterHasSocket
<1>4. op[o].on = c /\ sock[c] = "open" /\ Grows(c)
  BY <1>1, <1>3 DEF Calm
<1>5. Coming(o, c)
  BY <1>2, <1>4 DEF WaiterWillHear, Coming
<1>6. up' = up /\ acking' = acking
  BY DEF Quiet, relayVars
<1>7. QED BY <1>4, <1>5, <1>6 DEF Coming, Grows

-----------------------------------------------------------------------------
(* The theorems                                                            *)

CourierStep == Promise!Report \/ \E o \in Ops : Promise!CarryOut(o)

\* A step of Delivery, in short.
Talk == \/ \E o \in Ops : Sends(o)
        \/ \E c \in Conns : Receive(c) \/ CarriesOut(c) \/ Refuses(c) \/ Acknowledges(c) \/ Drops(c)

LEMMA ProceedsQuietlyOrTalks ==
  ASSUME Before, Proceeds
  PROVE  Quiet \/ Talk
<1>1. CASE \/ PostFails \/ LoopPosts \/ OldLoopEnds \/ HeartbeatDue \/ ProbeAnswered
           \/ ProbeTimesOut \/ \E c \in Conns : GoesHalfOpen(c)
  BY <1>1, ConnectionIsQuiet
<1>2. ASSUME NEW o \in Ops, HeldRuns(o) \/ Run(o) \/ TimesOut(o) PROVE Quiet \/ Talk
  <2>1. CASE HeldRuns(o) \/ TimesOut(o)
    BY <2>1, OperationIsQuiet
  <2>2. CASE Run(o) /\ op' = Settled(op, o, "failed") /\ UNCHANGED up
    BY <2>2, OperationIsQuiet DEF Run, relayVars
  <2>3. CASE Run(o) /\ sendEvent(o)
             /\ op' = [op EXCEPT ![o] = [@ EXCEPT !.pc = "waiting", !.on = socket, !.sent = channelId]]
    BY <2>3 DEF Run, Sends, Talk
  <2>4. QED BY <1>2, <2>1, <2>2, <2>3 DEF Run
<1>3. ASSUME NEW c \in Conns, Refuses(c) \/ Acknowledges(c) \/ Drops(c) PROVE Talk
  BY <1>3 DEF Talk
<1>4. ASSUME NEW c \in Conns, ReplyOvertakes(c) PROVE Quiet
  <2>1. acking[c] \in Ops /\ Event("reply", acking[c], None) \in Events
    BY <1>4, TypedParts DEF ReplyOvertakes, Events, Event, Before
  <2>2. QED BY <1>4, <2>1, NotificationIsQuiet DEF ReplyOvertakes, Event
<1>5. QED BY <1>1, <1>2, <1>3, <1>4 DEF Proceeds

LEMMA TalkStep ==
  ASSUME Before, op' \in Operations, Talk
  PROVE  After /\ CourierStep /\ Onward
<1>1. ASSUME NEW o \in Ops, Sends(o) PROVE After /\ CourierStep /\ Onward
  <2>1. \A p \in Ops : op'[p].item = op[p].item
    BY <1>1, TypedParts DEF Sends, Before, Operations
  <2>2. Onward
    BY <1>1, <2>1 DEF Onward, Sends
  <2>3. QED BY <1>1, <2>2, SendStep, SendHonest, HonestReport DEF CourierStep
<1>2. ASSUME NEW c \in Conns, Receive(c) PROVE After /\ CourierStep /\ Onward
  <2>1. \A p \in Ops : op'[p].item = op[p].item
    BY <1>2, KeptReceive DEF Before
  <2>2. Onward
    BY <1>2, <2>1, ReceiveHonest DEF Onward
  <2>3. QED BY <1>2, <2>2, ReceiveStep, ReceiveHonest, HonestReport DEF CourierStep
<1>3. ASSUME NEW c \in Conns, CarriesOut(c) PROVE After /\ CourierStep /\ Onward
  <2>1. Head(up[c]) \in Ops /\ done[Head(up[c])] = 0
    BY <1>3, KeptCarriesOut DEF Before
  <2>2. Onward
    BY <1>3, <2>1, TypedParts DEF Onward, CarriesOut, Before
  <2>3. QED BY <1>3, <2>2, RelayStep, CarriedOut DEF CourierStep
<1>4. ASSUME NEW c \in Conns, Refuses(c) \/ Acknowledges(c) \/ Drops(c)
      PROVE  After /\ CourierStep /\ Onward
  <2>1. UNCHANGED <<op, done>>
    BY <1>4 DEF Refuses, Acknowledges, Drops
  <2>2. Onward
    BY <2>1 DEF Onward
  <2>3. After
    BY <1>4, RelayStep, DropStep
  <2>4. QED BY <2>1, <2>2, <2>3, SameHonest, HonestReport DEF CourierStep
<1>5. QED BY <1>1, <1>2, <1>3, <1>4 DEF Talk

LEMMA QuietIsStep ==
  ASSUME Before, op' \in Operations, Quiet
  PROVE  After /\ CourierStep /\ Onward
BY QuietStep, QuietHonest, HonestReport, QuietOnward DEF CourierStep

LEMMA InitCourierInv == Init => CourierInv /\ Promise!Init
<1> SUFFICES ASSUME Init PROVE CourierInv /\ Promise!Init
  OBVIOUS
<1> USE DEF Init, DeliveryInit
<1>1. ConnTypeOK /\ PendingTypeOK /\ ChecksRun /\ NothingBeforeConnect
  BY ToolAssumption DEF ConnTypeOK, PendingTypeOK, ChecksRun, NothingBeforeConnect
<1>2. SentTypeOK
  <2>1. <<>> \in Seq(Ops) /\ <<>> \in Seq(Events)
    OBVIOUS
  <2>2. QED BY <2>1 DEF SentTypeOK
<1>3. \A c \in Conns : up[c] = <<>> /\ down[c] = <<>>
  OBVIOUS
<1>4. Kept
  BY <1>3 DEF Kept, UpOnce, UpFresh, DoneOnce, OkIsDone, AckingIsDone, EventsAreTrue
<1>5. Noted
  BY DEF Noted
<1>6. Promise!Init
  BY DEF Promise!Init, Ended
<1>7. QED BY <1>1, <1>2, <1>4, <1>5, <1>6, InitInv DEF CourierInv, Typed

\* A step that leaves the pending state alone.
LEMMA ElsewhereNoted ==
  ASSUME Before, PendingTypeOK, Noted, Onward, UNCHANGED toolVars
  PROVE  PendingTypeOK' /\ Noted'
BY NotedSame DEF toolVars, PendingTypeOK

\* Each step keeps the invariant and is one of Courier, or none.
LEMMA NextCourierInv ==
  ASSUME CourierInv, [Next]_vars
  PROVE  CourierInv' /\ CourierStep
<1>1. Before /\ PendingTypeOK /\ Noted /\ joins \subseteq Requests
  BY DEF CourierInv, Before, Typed, PendingTypeOK
<1>2. IInv' /\ op' \in Operations
  BY NextInv DEF CourierInv, Typed, IInv, OpTypeOK
<1>3. SUFFICES (Quiet \/ Talk) /\ PendingTypeOK' /\ Noted'
  <2>1. After /\ CourierStep
    BY <1>1, <1>2, <1>3, QuietIsStep, TalkStep
  <2>2. QED BY <1>2, <1>3, <2>1 DEF After, ConnOK, CourierInv, Typed
<1>4. Quiet \/ Talk => Onward
  BY <1>1, <1>2, QuietOnward, TalkStep
<1>5. ASSUME NEW ch \in Channels, Connect(ch)
      PROVE  (Quiet \/ Talk) /\ PendingTypeOK' /\ Noted'
  <2>1. Quiet /\ UNCHANGED toolVars
    BY <1>1, <1>5, LossIsQuiet DEF Connect
  <2>2. QED BY <1>1, <1>4, <2>1, ElsewhereNoted
<1>6. CASE Disconnect
  <2>1. Quiet
    BY <1>1, <1>6, LossIsQuiet DEF Disconnect
  <2>2. PendingTypeOK'
    BY <1>1, <1>6 DEF PendingTypeOK, Disconnect, Cleared, clear, disconnect
  <2>3. QED BY <1>6, <2>1, <2>2, NotedCleared DEF Disconnect
<1>7. CASE LosesSocket
  <2>1. Quiet /\ UNCHANGED toolVars
    BY <1>1, <1>7, LossIsQuiet DEF LosesSocket
  <2>2. QED BY <1>1, <1>4, <2>1, ElsewhereNoted
<1>8. CASE ConnectReturns
  <2>1. Quiet
    BY <1>1, <1>8, ConnectionIsQuiet
  <2>2. args \in Channels
    BY <1>8 DEF ConnectReturns, CourierInv, Typed, NothingBeforeConnect, IInv, SocketTypeOK
  <2>3. PendingTypeOK'
    BY <1>1, <1>8, <2>2 DEF PendingTypeOK, ConnectReturns, Cleared, clear, Channels
  <2>4. QED BY <1>1, <1>4, <1>8, <2>1, <2>3, NotedReturns
<1>9. CASE Proceeds
  <2>1. Quiet \/ Talk
    BY <1>1, <1>9, ProceedsQuietlyOrTalks
  <2>2. QED BY <1>1, <1>4, <1>9, <2>1, ElsewhereNoted DEF Proceeds
<1>10. ASSUME NEW c \in Conns, NEW type \in {"ask", "join"}, NEW r \in Requests, Notifies(c, type, r)
       PROVE  Quiet
  <2>1. Event(type, None, r) \in Events /\ down' = Written(c, Event(type, None, r))
    BY <1>10 DEF Events, Event, Notifies
  <2>2. Event(type, None, r).type \in {"reply", "ask", "join"}
    BY DEF Event
  <2>3. UNCHANGED <<op, relayVars, connVars>>
    BY <1>10 DEF Notifies
  <2>4. QED BY <1>1, <2>1, <2>2, <2>3, NotificationIsQuiet
<1>11. CASE JoinArrives
  <2>1. Quiet
    <3>1. CASE UNCHANGED deliveryVars
      BY <1>1, <3>1, NothingIsQuiet
    <3>2. CASE \E r \in joins : socket # None /\ Notifies(socket, "join", r)
      <4>1. socket \in Conns
        BY <3>2 DEF CourierInv, Typed, IInv, SocketTypeOK
      <4>2. QED BY <1>1, <1>10, <3>2, <4>1
    <3>3. QED BY <1>11, <3>1, <3>2 DEF JoinArrives
  <2>2. PendingTypeOK'
    BY <1>1, <1>11 DEF PendingTypeOK, JoinArrives, CourierInv, Typed, IInv, SocketTypeOK
  <2>3. UNCHANGED <<pending, heard>>
    BY <1>11 DEF JoinArrives
  <2>4. QED BY <1>1, <1>4, <2>1, <2>2, <2>3, NotedSame
<1>12. ASSUME NEW o \in Ops, Execute(o)
       PROVE  (Quiet \/ Talk) /\ PendingTypeOK' /\ Noted'
  <2>1. PICK item \in Requests \cup {None} : Issue(o, item)
    BY <1>12 DEF Execute
  <2>2. Quiet
    BY <1>1, <2>1, OperationIsQuiet
  <2>3. QED BY <1>1, <1>4, <1>12, <2>2, ElsewhereNoted DEF Execute
<1>13. ASSUME NEW c \in Conns, OpenSocket(c)
       PROVE  (Quiet \/ Talk) /\ PendingTypeOK' /\ Noted'
  <2>1. Quiet
    BY <1>1, <1>13, OpeningIsQuiet
  <2>2. QED BY <1>1, <1>4, <1>13, <2>1, ElsewhereNoted DEF OpenSocket
<1>14. ASSUME NEW c \in Conns, HandleEvent(c)
       PROVE  (Quiet \/ Talk) /\ PendingTypeOK' /\ Noted'
  BY <1>1, <1>14, NotedHandles DEF HandleEvent, Talk
<1>15. ASSUME NEW c \in Conns, AskArrives(c)
       PROVE  (Quiet \/ Talk) /\ PendingTypeOK' /\ Noted'
  <2>1. Quiet
    BY <1>10, <1>15 DEF AskArrives
  <2>2. QED BY <1>1, <1>4, <1>15, <2>1, ElsewhereNoted DEF AskArrives
<1>16. ASSUME NEW c \in Conns, Decides(c)
       PROVE  (Quiet \/ Talk) /\ PendingTypeOK' /\ Noted'
  <2>1. Talk /\ UNCHANGED toolVars
    BY <1>16 DEF Decides, Talk
  <2>2. QED BY <1>1, <1>4, <2>1, ElsewhereNoted
<1>17. CASE UNCHANGED vars
  <2>1. Quiet /\ UNCHANGED toolVars
    BY <1>1, <1>17, NothingIsQuiet DEF vars
  <2>2. QED BY <1>1, <1>4, <2>1, ElsewhereNoted
<1>18. QED BY <1>5, <1>6, <1>7, <1>8, <1>9, <1>11, <1>12, <1>13, <1>14, <1>15, <1>16, <1>17 DEF Next

\* An operation that is sent is on its way; the others lose nothing by it.
LEMMA SendHears ==
  ASSUME CourierInv, WaiterWillHear, NEW p \in Ops, Sends(p)
  PROVE  WaiterWillHear'
<1>1. UpOK /\ op \in Operations
  BY TypedParts DEF CourierInv
<1>2. socket \in Conns /\ up' = [up EXCEPT ![socket] = Append(@, p)]
  BY TypedParts DEF CourierInv, Sends, sendEvent, SocketIsOpen, SocketTypeOK
<1>3. up[socket] \in Seq(Ops) /\ up'[socket] = Append(up[socket], p)
  BY <1>1, <1>2 DEF UpOK
<1>4. \A d \in Conns \ {socket} : up'[d] = up[d]
  BY <1>1, <1>2 DEF UpOK
<1>5. \A i \in DOMAIN up[socket] : i \in DOMAIN up'[socket] /\ up'[socket][i] = up[socket][i]
  BY <1>3, AppendKeeps
<1>6. \E i \in DOMAIN up'[socket] : up'[socket][i] = p
  BY <1>3, AppendKeeps
<1>7. op'[p].on = socket /\ \A o \in Ops \ {p} : op'[o] = op[o]
  BY <1>1 DEF Sends, Operations
<1>8. UNCHANGED <<acking, down, sock>>
  BY DEF Sends, connVars
<1>9. ASSUME NEW o \in Ops, NEW c \in Conns,
             op'[o].pc = "waiting", op'[o].on = c, sock'[c] = "open"
      PROVE  Coming(o, c)'
  <2>1. CASE o = p
    BY <1>6, <1>7, <1>9, <2>1 DEF Coming
  <2>2. CASE o # p
    <3>1. Coming(o, c)
      BY <1>7, <1>8, <1>9, <2>2 DEF WaiterWillHear, Coming
    <3>2. \A i \in DOMAIN up[c] : i \in DOMAIN up'[c] /\ up'[c][i] = up[c][i]
      BY <1>4, <1>5
    <3>3. QED BY <1>8, <3>1, <3>2 DEF Coming
  <2>3. QED BY <2>1, <2>2
<1>10. QED BY <1>9 DEF WaiterWillHear, Coming

\* Whom the event names, it answers; the others find theirs behind it.
LEMMA ReceiveHears ==
  ASSUME CourierInv, WaiterWillHear, NEW d \in Conns, Receive(d)
  PROVE  WaiterWillHear'
<1> DEFINE e == Head(down[d])
<1>1. /\ down[d] \in Seq(Events) /\ down[d] # <<>> /\ down'[d] = Tail(down[d])
      /\ op \in Operations /\ op' = Resolved(e)
      /\ UNCHANGED <<up, acking, sock, socket>> /\ socket = d
  BY TypedParts DEF CourierInv, Receive, DownOK, relayVars, connVars
<1>2. e = down[d][1]
  BY <1>1, TailFacts
<1> HIDE DEF e
<1>3. ASSUME NEW o \in Ops, op'[o].pc = "waiting"
      PROVE  op'[o] = op[o] /\ ~(e.op = o /\ e.type \in {"ack", "error"})
  <2>1. op'[o] = op[o]
    BY <1>3, KeptReceive DEF CourierInv
  <2>2. CASE e.op = o /\ e.type \in {"ack", "error"}
    <3>1. PICK end \in {"ok", "failed"} : op' = Settled(op, o, end)
      BY <1>1, <1>3, <2>1, <2>2 DEF Resolved
    <3>2. end \in Ended /\ end # "waiting"
      BY <3>1 DEF Ended
    <3>3. op'[o].pc = end
      BY <1>1, <3>1, <3>2, SettledOps
    <3>4. QED BY <1>3, <3>2, <3>3
  <2>3. QED BY <2>1, <2>2
<1>4. ASSUME NEW o \in Ops, NEW c \in Conns,
             op'[o].pc = "waiting", op'[o].on = c, sock'[c] = "open"
      PROVE  Coming(o, c)'
  <2>1. op[o].pc = "waiting" /\ op[o].on = c /\ sock[c] = "open"
    BY <1>1, <1>3, <1>4
  <2>2. c = d /\ Coming(o, d)
    BY <1>1, <2>1 DEF CourierInv, Typed, IInv, WaiterHasSocket, WaiterWillHear, Coming
  <2>3. ASSUME NEW i \in DOMAIN down[d], down[d][i].op = o, down[d][i].type \in {"ack", "error"}
        PROVE  \E j \in DOMAIN down'[d] : down'[d][j] = down[d][i]
    <3>1. i # 1
      BY <1>2, <1>3, <1>4, <2>3
    <3>2. i - 1 \in DOMAIN down'[d] /\ down'[d][i - 1] = down[d][i]
      BY <1>1, <3>1, TailKeeps
    <3>3. QED BY <3>2
  <2>4. QED BY <1>1, <2>2, <2>3 DEF Coming
<1>5. QED BY <1>4 DEF WaiterWillHear, Coming

\* Whatever the relay does with an event, it carries it out and acknowledges it
\* or sends an error.
LEMMA RelayHears ==
  ASSUME CourierInv, WaiterWillHear, NEW d \in Conns,
         CarriesOut(d) \/ Refuses(d) \/ Acknowledges(d)
  PROVE  WaiterWillHear'
<1>1. /\ UpOK /\ DownOK /\ acking \in [Conns -> Ops \cup {None}]
      /\ UNCHANGED <<op, sock>>
  BY TypedParts DEF CourierInv, CarriesOut, Refuses, Acknowledges, connVars
<1> SUFFICES ASSUME NEW o \in Ops, NEW c \in Conns, op[o].pc = "waiting", op[o].on = c,
                    sock[c] = "open"
             PROVE  Coming(o, c)'
  BY <1>1 DEF WaiterWillHear, Coming
<1>2. Coming(o, c)
  BY DEF WaiterWillHear, Coming
<1>3. ASSUME up[d] # <<>>, up' = [up EXCEPT ![d] = Tail(@)], NEW i \in DOMAIN up[c], up[c][i] = o
      PROVE  (\E j \in DOMAIN up'[c] : up'[c][j] = o) \/ (c = d /\ o = Head(up[d]))
  <2>1. CASE c # d
    BY <1>1, <1>3, <2>1 DEF UpOK
  <2>2. CASE c = d /\ i = 1
    BY <1>1, <1>3, <2>2, UpHead
  <2>3. CASE c = d /\ i # 1
    <3>1. up[d] \in Seq(Ops) /\ up'[d] = Tail(up[d])
      BY <1>1, <1>3 DEF UpOK
    <3>2. up[d] # <<>> /\ i \in DOMAIN up[d] /\ i # 1
      BY <1>3, <2>3
    <3>3. i - 1 \in DOMAIN up'[d] /\ up'[d][i - 1] = up[d][i]
      BY <3>1, <3>2, TailKeeps
    <3>4. QED BY <1>3, <2>3, <3>3
  <2>4. QED BY <2>1, <2>2, <2>3
<1>4. CASE CarriesOut(d)
  <2>1. /\ up[d] # <<>> /\ up' = [up EXCEPT ![d] = Tail(@)] /\ UNCHANGED down
        /\ acking[d] = None /\ acking' = [acking EXCEPT ![d] = Head(up[d])]
    BY <1>4 DEF CarriesOut
  <2>2. acking'[d] = Head(up[d]) /\ \A b \in Conns \ {d} : acking'[b] = acking[b]
    BY <1>1, <2>1
  <2>3. acking[c] = o => c # d
    BY <2>1, ToolAssumption
  <2>4. QED BY <1>2, <1>3, <2>1, <2>2, <2>3 DEF Coming
<1>5. CASE Refuses(d)
  <2> DEFINE e == Event("error", Head(up[d]), None)
  <2>1. /\ up[d] # <<>> /\ up' = [up EXCEPT ![d] = Tail(@)] /\ UNCHANGED acking
        /\ down' = Written(d, e)
    BY <1>5 DEF Refuses
  <2>2. e \in Events /\ e.op = Head(up[d]) /\ e.type = "error"
    BY <1>1, <2>1, UpHead DEF Events, Event
  <2> HIDE DEF e
  <2>3. Grows(c) /\ (sock[d] = "open" => \E i \in DOMAIN down'[d] : down'[d][i] = e)
    BY <1>1, <2>1, <2>2, WrittenGrows
  <2>4. QED BY <1>2, <1>3, <2>1, <2>2, <2>3 DEF Coming, Grows
<1>6. CASE Acknowledges(d)
  <2> DEFINE e == Event("ack", acking[d], None)
  <2>1. acking[d] # None /\ acking' = [acking EXCEPT ![d] = None] /\ UNCHANGED up
        /\ down' = Written(d, e)
    BY <1>6 DEF Acknowledges
  <2>2. e \in Events /\ e.op = acking[d] /\ e.type = "ack"
    BY <1>1 DEF Events, Event
  <2> HIDE DEF e
  <2>3. Grows(c) /\ (sock[d] = "open" => \E i \in DOMAIN down'[d] : down'[d][i] = e)
    BY <1>1, <2>1, <2>2, WrittenGrows
  <2>4. \A b \in Conns \ {d} : acking'[b] = acking[b]
    BY <1>1, <2>1
  <2>5. QED BY <1>2, <2>1, <2>2, <2>3, <2>4 DEF Coming, Grows
<1>7. QED BY <1>4, <1>5, <1>6

\* What is dropped was on a connection that nobody waits on, or a half-open one.
LEMMA DropHears ==
  ASSUME CourierInv, WaiterWillHear, NEW d \in Conns, Drops(d)
  PROVE  WaiterWillHear'
<1>1. /\ UpOK /\ acking \in [Conns -> Ops \cup {None}] /\ sock[d] # "open"
      /\ UNCHANGED <<op, down, sock>>
      /\ up' = [up EXCEPT ![d] = <<>>] /\ acking' = [acking EXCEPT ![d] = None]
  BY TypedParts DEF CourierInv, Drops, connVars
<1>2. \A c \in Conns \ {d} : up'[c] = up[c] /\ acking'[c] = acking[c]
  BY <1>1 DEF UpOK
<1>3. QED BY <1>1, <1>2 DEF WaiterWillHear

\* Steps that leave the websocket and what is under way on it alone.
LEMMA SameIsCalm ==
  ASSUME UNCHANGED <<sock, socket, down>>
  PROVE  Calm
BY DEF Calm, Grows, SocketIsOpen

\* What is written only adds to what is under way.
LEMMA WritingIsCalm ==
  ASSUME DownOK, NEW c \in Conns, NEW e \in Events, down' = Written(c, e),
         SocketTypeOK, UNCHANGED <<sock, socket>>
  PROVE  Calm
<1>1. \A d \in Conns : Grows(d)
  BY WrittenGrows
<1>2. QED BY <1>1 DEF Calm, SocketIsOpen, SocketTypeOK

LEMMA NextHears == CourierInv /\ WaiterWillHear /\ [Next]_vars => WaiterWillHear'
<1> SUFFICES ASSUME CourierInv, WaiterWillHear, [Next]_vars
             PROVE  WaiterWillHear'
  OBVIOUS
<1>1. Before /\ WaiterHasSocket /\ joins \subseteq Requests
  BY DEF CourierInv, Before, Typed, IInv, PendingTypeOK
<1>2. WaiterHasSocket'
  BY NextInv DEF CourierInv, Typed, IInv
<1>3. DownOK /\ SocketTypeOK /\ op \in Operations /\ acking \in [Conns -> Ops \cup {None}]
  BY <1>1, TypedParts DEF Before
<1>4. ASSUME Quiet, UNCHANGED <<sock, socket, down>> PROVE WaiterWillHear'
  BY <1>1, <1>2, <1>4, SameIsCalm, QuietHears
<1>5. ASSUME CloseCurrentSocket PROVE WaiterWillHear'
  BY <1>2, <1>5, NoneOpen, NobodyHears DEF CloseCurrentSocket
<1>6. ASSUME NEW c \in Conns, Posted(c) PROVE WaiterWillHear'
  <2>1. SockClosed \in [Conns -> {"closed", "connecting", "open", "halfOpen"}]
    BY <1>3, ClosedSockets
  <2>2. ~SocketIsOpen'
    BY <1>6, <2>1 DEF Posted, SocketIsOpen
  <2>3. QED BY <1>2, <2>2, NobodyHears
<1>7. ASSUME NEW c \in Conns, OpenSocket(c) PROVE WaiterWillHear'
  <2>1. Quiet
    BY <1>1, <1>7, OpeningIsQuiet
  <2>2. Calm
    BY <1>7 DEF Calm, OpenSocket, Opens, SocketIsOpen
  <2>3. QED BY <1>1, <1>2, <2>1, <2>2, QuietHears
<1>8. ASSUME NEW c \in Conns, GoesHalfOpen(c) PROVE WaiterWillHear'
  <2>1. Quiet
    BY <1>1, <1>8, ConnectionIsQuiet
  <2>2. socket' = socket /\ sock'[socket] = "halfOpen"
    BY <1>3, <1>8 DEF GoesHalfOpen, SocketTypeOK
  <2>3. QED BY <1>1, <1>2, <2>1, <2>2, QuietHears DEF Calm
<1>9. ASSUME NEW c \in Conns, NEW e \in Events, e.type \in {"reply", "ask", "join"},
             down' = Written(c, e), UNCHANGED <<op, relayVars, connVars>>
      PROVE  WaiterWillHear'
  <2>1. Quiet
    BY <1>1, <1>9, NotificationIsQuiet
  <2>2. Calm
    BY <1>3, <1>9, WritingIsCalm DEF connVars
  <2>3. QED BY <1>1, <1>2, <2>1, <2>2, QuietHears
<1>10. ASSUME NEW c \in Conns, NEW type \in {"ask", "join"}, NEW r \in Requests, Notifies(c, type, r)
       PROVE  WaiterWillHear'
  <2>1. Event(type, None, r) \in Events /\ Event(type, None, r).type \in {"reply", "ask", "join"}
    BY DEF Events, Event
  <2>2. QED BY <1>9, <1>10, <2>1 DEF Notifies
<1>11. CASE Talk
  BY <1>11, SendHears, ReceiveHears, RelayHears, DropHears DEF Talk
<1>12. CASE \/ PostFails \/ LoopPosts \/ OldLoopEnds \/ HeartbeatDue \/ ProbeAnswered
            \/ ProbeTimesOut \/ ConnectReturns
  <2>1. UNCHANGED <<sock, socket, down>>
    BY <1>12 DEF PostFails, LoopPosts, OldLoopEnds, HeartbeatDue, ProbeAnswered, ProbeTimesOut,
                 ConnectReturns
  <2>2. Quiet
    BY <1>1, <1>12, ConnectionIsQuiet
  <2>3. QED BY <1>4, <2>1, <2>2
<1>13. ASSUME NEW o \in Ops, NEW item, Issue(o, item) \/ HeldRuns(o) \/ TimesOut(o)
       PROVE  WaiterWillHear'
  <2>1. UNCHANGED <<sock, socket, down>>
    BY <1>13 DEF Issue, HeldRuns, TimesOut, connVars
  <2>2. Quiet
    BY <1>1, <1>13, OperationIsQuiet
  <2>3. QED BY <1>4, <2>1, <2>2
<1>14. ASSUME NEW o \in Ops, Run(o) PROVE WaiterWillHear'
  <2>1. CASE op' = Settled(op, o, "failed") /\ UNCHANGED up
    <3>1. UNCHANGED <<relayVars, connVars, down>> /\ op[o].pc = "ready"
      BY <1>14, <2>1 DEF Run, relayVars
    <3>2. Quiet
      BY <1>1, <2>1, <3>1, OperationIsQuiet
    <3>3. QED BY <1>4, <3>1, <3>2 DEF connVars
  <2>2. CASE Sends(o)
    BY <1>11, <2>2 DEF Talk
  <2>3. QED BY <1>14, <2>1, <2>2 DEF Run, Sends
<1>15. CASE Proceeds
  <2>1. ASSUME NEW c \in Conns, ReplyOvertakes(c) PROVE WaiterWillHear'
    <3>1. Event("reply", acking[c], None) \in Events /\ Event("reply", acking[c], None).type = "reply"
      BY <1>3, <2>1 DEF Events, Event
    <3>2. QED BY <1>9, <2>1, <3>1 DEF ReplyOvertakes
  <2>2. ASSUME NEW c \in Conns, Refuses(c) \/ Acknowledges(c) \/ Drops(c) PROVE WaiterWillHear'
    BY <1>11, <2>2 DEF Talk
  <2>3. ASSUME NEW o \in Ops, HeldRuns(o) \/ TimesOut(o) PROVE WaiterWillHear'
    BY <1>13, <2>3
  <2>4. QED BY <1>8, <1>12, <1>14, <1>15, <2>1, <2>2, <2>3 DEF Proceeds
<1>16. CASE LosesSocket
  BY <1>5, <1>6, <1>16 DEF LosesSocket, ProbeFails, OpenFails, Closes
<1>17. CASE Disconnect \/ \E ch \in Channels : Connect(ch)
  BY <1>5, <1>17 DEF Disconnect, Connect, disconnect, connect
<1>18. CASE UNCHANGED deliveryVars
  <2>1. Quiet /\ UNCHANGED <<sock, socket, down>>
    BY <1>1, <1>18, NothingIsQuiet DEF deliveryVars, connVars
  <2>2. QED BY <1>4, <2>1
<1>19. CASE JoinArrives
  <2>1. CASE \E r \in joins : socket # None /\ Notifies(socket, "join", r)
    BY <1>1, <1>3, <1>10, <2>1 DEF SocketTypeOK
  <2>2. QED BY <1>18, <1>19, <2>1 DEF JoinArrives
<1>20. ASSUME NEW o \in Ops, Execute(o) PROVE WaiterWillHear'
  BY <1>13, <1>20 DEF Execute
<1>21. ASSUME NEW c \in Conns, HandleEvent(c) \/ Decides(c) PROVE WaiterWillHear'
  BY <1>11, <1>21 DEF HandleEvent, Decides, Talk
<1>22. ASSUME NEW c \in Conns, AskArrives(c) PROVE WaiterWillHear'
  BY <1>10, <1>22 DEF AskArrives
<1>23. CASE UNCHANGED vars
  BY <1>18, <1>23 DEF vars
<1>24. QED
  BY <1>7, <1>12, <1>15, <1>16, <1>17, <1>19, <1>20, <1>21, <1>22, <1>23 DEF Next

\* The invariant holds throughout.
LEMMA CourierInvariant == Spec => []CourierInv
BY InitCourierInv, NextCourierInv, PTL DEF Spec

\* Every variable keeps its type; who awaits a health check has one, and a check
\* that awaits the reconnect loop has a loop.
THEOREM ToolTypeCorrect == Spec => []ToolTypeOK
<1>1. CourierInv => ToolTypeOK
  BY DEF CourierInv, Typed, IInv, OpTypeOK, Operations, Pc, SocketTypeOK, ConnTypeOK, SentTypeOK,
         PendingTypeOK, ChecksRun, Events, ToolTypeOK
<1>2. QED BY <1>1, CourierInvariant, PTL

\* A request stays in the pending state from its receipt until the relay has
\* carried its answer out: no error, time-out or lost connection forgets it.
\* Excepted is what the user cleared: whatever is there at disconnect, and when a
\* connect to a channel of another name returns, what the new channel's websocket
\* brought before that included.
THEOREM NothingMissed == Spec => []NothingIsMissed
<1>1. CourierInv => NothingIsMissed
  BY DEF CourierInv, Noted, NothingIsMissed
<1>2. QED BY <1>1, CourierInvariant, PTL

\* Who waits will hear: between the operation's event, the relay that carries it
\* out and the acknowledgement or the error, no waiter on an open websocket is
\* ever left to the time-out.
THEOREM WaitersWillHear == Spec => []WaiterWillHear
<1>1. Init => WaiterWillHear
  BY DEF Init, DeliveryInit, WaiterWillHear
<1>2. QED BY <1>1, NextHears, CourierInvariant, PTL DEF Spec

\* Delivery implements Courier: the relay carries each operation out at most
\* once, and what the client reports of it is true and remains true.
THEOREM DeliveryImplementsCourier == Spec => ImplementsCourier
<1>1. Init => Promise!Init
  BY InitCourierInv
<1>2. CourierInv /\ [Next]_vars => [Promise!Next]_(Promise!vars)
  BY NextCourierInv DEF CourierStep, Promise!Next
<1>3. QED BY <1>1, <1>2, CourierInvariant, PTL DEF Spec, ImplementsCourier, Promise!Spec
=============================================================================
