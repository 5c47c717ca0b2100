----------------------------- MODULE RelayProofs -----------------------------
(***************************************************************************)
(* The relay drives the registry by its operations alone: whatever the     *)
(* goroutines of the hub and of the HTTP handlers interleave, each step is *)
(* one operation of the registry or none (RelayImplementsRegistry).  What  *)
(* is proved of the registry therefore holds of the relay that runs it.    *)
(***************************************************************************)
EXTENDS Relay, RegistryProofs

\* What the registry offers is what its callers use: SetOnline, a decision by
\* the owner and an expiry happen for keys and devices that the registry knows.
LEMMA CallsAreOperations ==
  ASSUME TypeOK, NEW k, NEW d
  PROVE  /\ \A on \in BOOLEAN : SetOnline(k, d, on) => Next
         /\ \A j : ApproveByOwner(k, d, j) => Next
         /\ \A j : DenyByOwner(k, d, j) => Next
<1>1. k \in channels => k \in Keys
  BY DEF TypeOK
<1>2. ASSUME NEW on \in BOOLEAN, SetOnline(k, d, on) PROVE Next
  <2>1. k \in Keys /\ d \in Devices
    BY <1>1, <1>2 DEF SetOnline, Members
  <2>2. on = TRUE \/ on = FALSE
    OBVIOUS
  <2>3. QED BY <1>2, <2>1, <2>2 DEF Next
<1>3. ASSUME NEW j, ApproveByOwner(k, d, j) PROVE Next
  <2>1. k \in Keys /\ j \in pendingJoins[k] /\ Approve(k, j)
    BY <1>1, <1>3 DEF ApproveByOwner, Approve, approveLocked, CanAdmit
  <2>2. QED BY <2>1 DEF Next
<1>4. ASSUME NEW j, DenyByOwner(k, d, j) PROVE Next
  <2>1. k \in Keys /\ j \in pendingJoins[k] /\ Deny(k, j)
    BY <1>1, <1>4 DEF DenyByOwner, Deny, denyLocked
  <2>2. QED BY <2>1 DEF Next
<1>5. QED BY <1>2, <1>3, <1>4

\* A device's request, connection or event is one operation or none.
LEMMA DeviceSteps ==
  ASSUME TypeOK, Device
  PROVE  Next \/ UNCHANGED registryVars
<1>1. ASSUME NEW k \in Keys, NEW d \in Devices, PostConnect(k, d) PROVE Next
  BY <1>1 DEF PostConnect, Connect, Next
<1>2. ASSUME NEW c \in Conns, NEW k \in Keys, NEW d \in Devices, AcceptMember(c, k, d)
      PROVE UNCHANGED registryVars
  BY <1>2 DEF AcceptMember
<1>3. ASSUME NEW c \in Conns, NEW k \in Keys, NEW j \in Joins, AcceptPending(c, k, j)
      PROVE UNCHANGED registryVars
  BY <1>3 DEF AcceptPending
<1>4. ASSUME NEW c \in Conns, Disconnect(c) \/ CheckPending(c) \/ ReceiveDecision(c)
      PROVE UNCHANGED registryVars
  BY <1>4 DEF Disconnect, Leave, CheckPending, ReceiveDecision
<1>5. QED BY <1>1, <1>2, <1>3, <1>4 DEF Device

\* So is each step of the goroutine that serves a connection.
LEMMA ServeSteps ==
  ASSUME TypeOK, NEW c \in Conns, Serve(c) \/ RejectEvent(c)
  PROVE  Next \/ UNCHANGED registryVars
<1>1. CASE GoOnline(c)
  BY <1>1, CallsAreOperations DEF GoOnline
<1>2. CASE GoOnlinePromoted(c)
  BY <1>2, CallsAreOperations DEF GoOnlinePromoted
<1>3. CASE \E j \in Joins : DecideApprove(c, j)
  BY <1>3, CallsAreOperations DEF DecideApprove
<1>4. CASE \E j \in Joins : DecideDeny(c, j)
  BY <1>4, CallsAreOperations DEF DecideDeny
<1>5. CASE \/ RegisterMember(c) \/ RegisterPending(c) \/ RejectOnline(c) \/ AskOwner(c)
           \/ (\E j \in Joins : TellOwner(c, j)) \/ EndAnnouncing(c)
  BY <1>5 DEF RegisterMember, RegisterPending, RejectOnline, AskOwner, TellOwner,
              EndAnnouncing
<1>6. CASE \/ Unregister(c) \/ EndCheck(c) \/ DecisionFails(c) \/ LookUpPending(c)
           \/ RejectEvent(c)
  BY <1>6 DEF Unregister, Leave, EndCheck, DecisionFails, LookUpPending, RejectEvent
<1>7. CASE PromotePending(c) \/ PromotedIsGone(c) \/ RollBack(c) \/ RefusePending(c)
  BY <1>7 DEF PromotePending, PromotedIsGone, RollBack, RefusePending
<1>8. QED BY <1>1, <1>2, <1>3, <1>4, <1>5, <1>6, <1>7 DEF Serve

\* So is each step of a timer, of its callback and of the work they leave.
LEMMA TimerSteps ==
  ASSUME TypeOK, NEW k \in Keys, NEW d \in Devices, Expiry(k, d) \/ WorkOn(k, d)
  PROVE  Next \/ UNCHANGED registryVars
<1>1. CASE Fire(k, d) \/ FireLoose(k, d)
  BY <1>1 DEF Fire, FireLoose
<1>2. CASE expireOfflineMember(k, d)
  BY <1>2 DEF expireOfflineMember, Next, registryVars
<1>3. CASE WorkOn(k, d)
  BY <1>3 DEF WorkOn, ScheduleOfflineExpiry, closePendingForChannel, TellNewOwner
<1>4. QED BY <1>1, <1>2, <1>3 DEF Expiry

\* Every step of the relay is one operation of the registry, or none.
LEMMA RelaySteps ==
  ASSUME TypeOK, [RelayNext]_vars
  PROVE  [Next]_registryVars
<1>1. CASE Device
  BY <1>1, DeviceSteps
<1>2. CASE \E c \in Conns : Serve(c) \/ RejectEvent(c)
  BY <1>2, ServeSteps
<1>3. CASE \E k \in Keys, d \in Devices : Expiry(k, d) \/ WorkOn(k, d)
  BY <1>3, TimerSteps
<1>4. CASE UNCHANGED vars
  BY <1>4 DEF vars
<1>5. QED BY <1>1, <1>2, <1>3, <1>4 DEF RelayNext

\* The relay, with all its goroutines, timers and stale connections, implements
\* the registry's specification: no handler reaches past the registry's
\* operations, and none spreads one operation over two critical sections.
THEOREM RelayImplementsRegistry == RelaySpec => Spec
<1>1. RelayInit => Init
  BY DEF RelayInit
<1>2. Inv /\ [RelayNext]_vars => [Next]_registryVars
  BY RelaySteps DEF Inv
<1>3. QED BY <1>1, <1>2, InitInv, NextInv, PTL DEF RelaySpec, Spec

\* In the relay, too, the owner is always the online member admitted first, and
\* ownership moves only when it goes offline or to a more senior member.
THEOREM RelayOwnerCorrect ==
  RelaySpec => [](SeniorityIsStrict /\ OwnerIsMostSenior) /\ OwnerYieldsOnlyToSenior
BY RelayImplementsRegistry, SeniorityCorrect, OwnerCorrect, OwnerStable, PTL

\* And no race of requests, decisions and expiries passes a limit or gives a
\* device two standings in a channel.
THEOREM RelayAdmissionCorrect ==
  RelaySpec => [](OneStandingPerDevice /\ WithinLimits)
BY RelayImplementsRegistry, AdmissionCorrect, LimitsCorrect, PTL
=============================================================================
