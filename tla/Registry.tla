------------------------------ MODULE Registry ------------------------------
(***************************************************************************)
(* The relay's channel registry (relay/internal/channel/registry.go): who  *)
(* is a member of a channel, who asked to join it, who is online and who   *)
(* owns it.  Every exported operation holds r.mu from its first to its     *)
(* last statement, so each is one action here.  An operation that returns  *)
(* an error changes nothing and is a stuttering step.                      *)
(*                                                                         *)
(* A key stands for a normalised channel name and its PIN; a channel's ID  *)
(* is a function of the key, so a channel that is deleted and created      *)
(* again has the ID it had before.  Names are data and are left out.       *)
(***************************************************************************)
EXTENDS Naturals, FiniteSets, FiniteSetsExt

CONSTANTS
  Keys,             \* channel keys
  Devices,          \* device IDs
  None,             \* no device: the empty CurrentOwnerID
  MaxMembers,       \* r.maxMembers (32 unless a test sets it)
  MaxPendingJoins,  \* r.maxPendingJoins (16 unless a test sets it)
  MaxJoinSeq        \* bound on the number of join requests ever made

ASSUME DevicesAssumption == IsFiniteSet(Devices) /\ None \notin Devices
ASSUME LimitsAssumption ==
  MaxMembers \in Nat \ {0} /\ MaxPendingJoins \in Nat \ {0}
ASSUME JoinSeqAssumption == MaxJoinSeq \in Nat

VARIABLES
  channels,      \* the keys that have a channel: channels and channelByKey
  priority,      \* Members[d].Priority, 0 for a device that is no member
  online,        \* the members whose Online flag is set
  pendingJoins,  \* PendingJoins: who asked, and the sequence number of the ID
  owner,         \* CurrentOwnerID
  joinSeq        \* r.joinSeq

registryVars == <<channels, priority, online, pendingJoins, owner, joinSeq>>

-----------------------------------------------------------------------------
Joins == [device : Devices, seq : 1..MaxJoinSeq]

Members(k) == {d \in Devices : priority[k][d] > 0}

\* Seeded fault: the priorities of the members that are online only.
NextPriorityOnline(k) == Max({0} \cup {priority[k][d] : d \in online[k]}) + 1

NextPriority(k) == Max({0} \cup {priority[k][d] : d \in Devices}) + 1

\* Seeded fault: the online member admitted last.
ElectedNewest(seniority, present) ==
  IF present = {}
  THEN None
  ELSE CHOOSE d \in present : \A e \in present : seniority[d] >= seniority[e]

\* recomputeOwner: the online member admitted first.  Priorities are distinct
\* (SeniorityIsStrict), so the tie-break on IDs never decides.
ElectedOwner(seniority, present) ==
  IF present = {}
  THEN None
  ELSE CHOOSE d \in present : \A e \in present : seniority[d] <= seniority[e]

PendingExists(k, d, j) == k \in channels /\ j \in pendingJoins[k] /\ j.device = d

Init ==
  /\ channels = {}
  /\ priority = [k \in Keys |-> [d \in Devices |-> 0]]
  /\ online = [k \in Keys |-> {}]
  /\ pendingJoins = [k \in Keys |-> {}]
  /\ owner = [k \in Keys |-> None]
  /\ joinSeq = 0

-----------------------------------------------------------------------------
(* Connect has one action for each of its outcomes that changes the state: *)
(* the first device creates the channel as its offline member, a member is *)
(* let back in, and any other device leaves a request to join.             *)

CreateChannel(k, d) ==
  /\ k \notin channels
  /\ channels' = channels \cup {k}
  /\ priority' = [priority EXCEPT ![k] = [e \in Devices |-> IF e = d THEN 1 ELSE 0]]
  /\ online' = [online EXCEPT ![k] = {}]
  /\ pendingJoins' = [pendingJoins EXCEPT ![k] = {}]
  /\ owner' = [owner EXCEPT ![k] = None]
  /\ UNCHANGED joinSeq

ConnectMember(k, d) ==
  /\ k \in channels
  /\ d \in Members(k)
  /\ owner' = [owner EXCEPT ![k] = ElectedOwner(priority[k], online[k])]
  /\ UNCHANGED <<channels, priority, online, pendingJoins, joinSeq>>

ForgetsPendingJoin(k, d) == FALSE  \* seeded fault: no look-up of the device

HasPendingJoin(k, d) == \E j \in pendingJoins[k] : j.device = d

\* Seeded fault: a request is numbered by its place in the list.
JoinByPlace(k, d) == [device |-> d, seq |-> Cardinality(pendingJoins[k]) + 1]

\* nextJoinID: the ID is a digest of the device and of a count of all requests.
NextJoin(k, d) == [device |-> d, seq |-> joinSeq + 1]

RequestJoin(k, d) ==
  /\ k \in channels
  /\ d \notin Members(k)
  /\ ~HasPendingJoin(k, d)
  /\ Cardinality(Members(k)) < MaxMembers
  /\ Cardinality(pendingJoins[k]) < MaxPendingJoins
  /\ joinSeq < MaxJoinSeq
  /\ joinSeq' = joinSeq + 1
  /\ pendingJoins' = [pendingJoins EXCEPT ![k] = @ \cup {NextJoin(k, d)}]
  /\ UNCHANGED <<channels, priority, online, owner>>

Connect(k, d) == CreateChannel(k, d) \/ ConnectMember(k, d) \/ RequestJoin(k, d)

-----------------------------------------------------------------------------
\* Seeded fault: the limit is checked when the request is made only.
CanAdmitUnchecked(k, j) == j \in pendingJoins[k] /\ j.device \notin Members(k)

CanAdmit(k, j) ==
  /\ j \in pendingJoins[k]
  /\ Cardinality(Members(k)) < MaxMembers
  /\ j.device \notin Members(k)

approveLocked(k, j) ==
  /\ CanAdmit(k, j)
  /\ priority' = [priority EXCEPT ![k][j.device] = NextPriority(k)]
  /\ pendingJoins' = [pendingJoins EXCEPT ![k] = {i \in @ : i.device # j.device}]
  /\ owner' = [owner EXCEPT ![k] = ElectedOwner(priority'[k], online[k])]
  /\ UNCHANGED <<channels, online, joinSeq>>

denyLocked(k, j) ==
  /\ j \in pendingJoins[k]
  /\ pendingJoins' = [pendingJoins EXCEPT ![k] = @ \ {j}]
  /\ UNCHANGED <<channels, priority, online, owner, joinSeq>>

Approve(k, j) == k \in channels /\ approveLocked(k, j)

ApproveByOwner(k, d, j) == k \in channels /\ owner[k] = d /\ approveLocked(k, j)

Deny(k, j) == k \in channels /\ denyLocked(k, j)

DenyByOwner(k, d, j) == k \in channels /\ owner[k] = d /\ denyLocked(k, j)

-----------------------------------------------------------------------------
\* Seeded fault: the election is not redone.
SetOnlineKeepsOwner(k, d, on) ==
  /\ k \in channels
  /\ d \in Members(k)
  /\ online' = [online EXCEPT ![k] = IF on THEN @ \cup {d} ELSE @ \ {d}]
  /\ UNCHANGED <<channels, priority, pendingJoins, owner, joinSeq>>

SetOnline(k, d, on) ==
  /\ k \in channels
  /\ d \in Members(k)
  /\ online' = [online EXCEPT ![k] = IF on THEN @ \cup {d} ELSE @ \ {d}]
  /\ owner' = [owner EXCEPT ![k] = ElectedOwner(priority[k], online'[k])]
  /\ UNCHANGED <<channels, priority, pendingJoins, joinSeq>>

\* Seeded fault: the requests to join outlive the channel.
DeleteChannelKeepsJoins(k) ==
  /\ channels' = channels \ {k}
  /\ priority' = [priority EXCEPT ![k] = [d \in Devices |-> 0]]
  /\ online' = [online EXCEPT ![k] = {}]
  /\ owner' = [owner EXCEPT ![k] = None]
  /\ UNCHANGED <<pendingJoins, joinSeq>>

\* The last lines of setOnlineLocked: the channel goes with all it holds.
DeleteChannel(k) ==
  /\ channels' = channels \ {k}
  /\ priority' = [priority EXCEPT ![k] = [d \in Devices |-> 0]]
  /\ online' = [online EXCEPT ![k] = {}]
  /\ pendingJoins' = [pendingJoins EXCEPT ![k] = {}]
  /\ owner' = [owner EXCEPT ![k] = None]
  /\ UNCHANGED joinSeq

\* Seeded fault: deletes the channel when its newest member expires.
ExpireLastAdmitted(k, d) ==
  /\ k \in channels
  /\ d \in Members(k)
  /\ IF \A e \in Members(k) : priority[k][e] <= priority[k][d]
     THEN DeleteChannel(k)
     ELSE SetOnline(k, d, FALSE)

\* The last step of a member's reconnect grace: the member goes offline, and
\* the channel goes with it when that leaves nobody to own it.
ExpireOfflineMember(k, d) ==
  /\ k \in channels
  /\ d \in Members(k)
  /\ IF ElectedOwner(priority[k], online[k] \ {d}) = None
     THEN DeleteChannel(k)
     ELSE SetOnline(k, d, FALSE)

Next ==
  \E k \in Keys :
    \/ \E d \in Devices : \/ CreateChannel(k, d)
                          \/ ConnectMember(k, d)
                          \/ RequestJoin(k, d)
                          \/ SetOnline(k, d, TRUE)
                          \/ SetOnline(k, d, FALSE)
                          \/ ExpireOfflineMember(k, d)
    \/ \E j \in pendingJoins[k] : \/ Approve(k, j)
                                  \/ Deny(k, j)
    \/ \E j \in pendingJoins[k], d \in Devices : \/ ApproveByOwner(k, d, j)
                                                 \/ DenyByOwner(k, d, j)

Spec == Init /\ [][Next]_registryVars

-----------------------------------------------------------------------------
\* The values the registry's fields take.  A channel exists while it has
\* members; only members are online, and only a channel has pending joins.
TypeOK ==
  /\ channels \subseteq Keys
  /\ priority \in [Keys -> [Devices -> Nat]]
  /\ online \in [Keys -> SUBSET Devices]
  /\ pendingJoins \in [Keys -> SUBSET Joins]
  /\ owner \in [Keys -> Devices \cup {None}]
  /\ joinSeq \in 0..MaxJoinSeq
  /\ \A k \in Keys : /\ k \in channels <=> Members(k) # {}
                     /\ online[k] \subseteq Members(k)
                     /\ k \in channels \/ pendingJoins[k] = {}

\* No stale owner: after every operation CurrentOwnerID is the online member
\* that was admitted first, and empty exactly when nobody is online, although
\* five operations change what the election looks at and each must redo it.
OwnerIsMostSenior ==
  \A k \in Keys :
    /\ owner[k] = None <=> online[k] = {}
    /\ owner[k] # None =>
         /\ owner[k] \in online[k]
         /\ \A d \in online[k] \ {owner[k]} : priority[k][owner[k]] < priority[k][d]

\* Priorities are 1..n with no tie and no gap: the order of admission, which
\* nextPriority rebuilds from the members each time, is a strict order.
SeniorityIsStrict ==
  \A k \in Keys :
    /\ \A d, e \in Members(k) : priority[k][d] = priority[k][e] => d = e
    /\ {priority[k][d] : d \in Members(k)} = 1..Cardinality(Members(k))

\* A device is a member of a channel, or waits with one request, or neither:
\* connecting again never makes a second request, and no approval leaves the
\* request it granted behind for a second decision.
OneStandingPerDevice ==
  \A k \in Keys :
    /\ \A j \in pendingJoins[k] : j.device \notin Members(k)
    /\ \A i, j \in pendingJoins[k] : i.device = j.device => i = j

\* Neither limit is passed, although a request made while there was room is
\* approved when others may have taken the last place.
WithinLimits ==
  \A k \in Keys : /\ Cardinality(Members(k)) <= MaxMembers
                  /\ Cardinality(pendingJoins[k]) <= MaxPendingJoins

\* A request that was decided, or that went with its channel, never waits again,
\* although the device that made it may ask again and the channel come back: a
\* second decision, of an owner who has not heard of the first, finds it gone.
NoRequestReturns ==
  [][\A k \in Keys, j \in Joins :
       j.seq <= joinSeq /\ j \notin pendingJoins[k] => j \notin pendingJoins'[k]]_registryVars

\* Ownership moves for a reason: the owner of a channel loses it only by going
\* offline, or to a more senior member that is back online.
OwnerYieldsOnlyToSenior ==
  [][\A k \in Keys :
       (owner[k] # None /\ owner'[k] # owner[k]) =>
         \/ owner[k] \notin online'[k]
         \/ /\ owner'[k] \notin online[k]
            /\ priority[k][owner'[k]] < priority[k][owner[k]]]_registryVars

-----------------------------------------------------------------------------
(* What a channel promises its devices, independently of priorities, IDs   *)
(* and sequence numbers, is LiveRoom: the registry implements it.          *)
Room == INSTANCE LiveRoom WITH
  Rooms   <- Keys,
  Guests  <- Devices,
  Nobody  <- None,
  admitted <- [k \in Keys |-> Members(k)],
  before   <- [k \in Keys |-> {p \in Members(k) \X Members(k) :
                                 priority[k][p[1]] < priority[k][p[2]]}],
  present  <- online,
  asking   <- [k \in Keys |-> {j.device : j \in pendingJoins[k]}],
  host     <- owner

\* The registry implements a room whose host is always the present guest
\* admitted before all others and which closes only when nobody is present.
ImplementsLiveRoom == Room!Spec
=============================================================================
