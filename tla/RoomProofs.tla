----------------------------- MODULE RoomProofs ------------------------------
(***************************************************************************)
(* The registry implements LiveRoom: with priorities read as an order of   *)
(* admission and requests as the devices that made them, every operation   *)
(* is one step of the room or leaves it as it is.                          *)
(***************************************************************************)
EXTENDS RegistryProofs

\* The room's variables, as the instance Room reads them off the registry.
Admitted == [k \in Keys |-> Members(k)]
Before == [k \in Keys |-> {p \in Members(k) \X Members(k) :
                             priority[k][p[1]] < priority[k][p[2]]}]
Asking == [k \in Keys |-> {j.device : j \in pendingJoins[k]}]

RoomSame == UNCHANGED <<Admitted, Before, online, Asking, owner>>

\* A room sees no more of the registry than the three functions above and two
\* of its variables.
LEMMA RoomSameStutters == RoomSame => UNCHANGED Room!roomVars
BY DEF RoomSame, Room!roomVars, Admitted, Before, Asking

\* What depends on priorities and requests stays where these stay.
LEMMA Frame ==
  ASSUME Inv
  PROVE  /\ UNCHANGED priority => UNCHANGED <<Admitted, Before>>
         /\ UNCHANGED pendingJoins => UNCHANGED Asking
BY DEF Admitted, Before, Asking, Members

\* An owner of the registry hosts the room.
LEMMA OwnerHosts ==
  ASSUME Inv, NEW k \in Keys
  PROVE  /\ Room!Hosts(owner[k], Before[k], online[k])
         /\ owner[k] \in Devices \cup {None}
<1>1. online[k] \subseteq Members(k) /\ owner[k] \in Devices \cup {None}
  BY DEF Inv, TypeOK
<1>2. CASE online[k] = {}
  BY <1>1, <1>2 DEF Inv, OwnerIsMostSenior, Room!Hosts
<1>3. CASE online[k] # {}
  <2>1. /\ owner[k] \in online[k]
        /\ \A d \in online[k] \ {owner[k]} : priority[k][owner[k]] < priority[k][d]
    BY <1>3 DEF Inv, OwnerIsMostSenior
  <2>2. \A d \in online[k] \ {owner[k]} : <<owner[k], d>> \in Before[k]
    BY <1>1, <2>1 DEF Before
  <2>3. QED BY <1>1, <1>3, <2>1, <2>2 DEF Room!Hosts
<1>4. QED BY <1>2, <1>3

\* The first Connect of a key opens the room for its device.
LEMMA CreateOpens ==
  ASSUME Inv, NEW k \in Keys, NEW d \in Devices, CreateChannel(k, d)
  PROVE  Room!Open(k, d)
<1> USE DEF Inv
<1>1. Members(k) = {} /\ pendingJoins[k] = {} /\ online[k] = {} /\ owner[k] = None
  BY DEF CreateChannel, TypeOK, OwnerIsMostSenior
<1>2. \A i \in Keys : Members(i)' = IF i = k THEN {d} ELSE Members(i)
  BY DEF CreateChannel, Members, TypeOK
<1>3. Admitted[k] = {} /\ Admitted' = [Admitted EXCEPT ![k] = {d}]
  BY <1>1, <1>2 DEF Admitted
<1>4. Before' = Before
  <2>1. \A i \in Keys \ {k} : priority'[i] = priority[i]
    BY DEF CreateChannel, TypeOK
  <2>2. \A i \in Keys \ {k} : Before'[i] = Before[i]
    BY <1>2, <2>1 DEF Before
  <2>3. Before[k] = {}
    BY <1>1 DEF Before
  <2>4. priority'[k][d] = 1
    BY DEF CreateChannel, TypeOK
  <2>5. Before'[k] = {}
    BY <1>2, <2>4 DEF Before
  <2>6. QED BY <2>2, <2>3, <2>5 DEF Before
<1>5. UNCHANGED <<online, pendingJoins, owner>>
  BY <1>1 DEF CreateChannel, TypeOK
<1>6. UNCHANGED Asking
  BY <1>5 DEF Asking
<1>7. QED BY <1>3, <1>4, <1>5, <1>6 DEF Room!Open, Admitted, Before, Asking

\* A new request is a guest that asks.
LEMMA RequestAsks ==
  ASSUME Inv, NEW k \in Keys, NEW d \in Devices, RequestJoin(k, d)
  PROVE  Room!Ask(k, d)
<1> USE DEF Inv
<1>1. Members(k) # {} /\ d \notin Members(k) /\ d \notin Asking[k]
  BY DEF RequestJoin, HasPendingJoin, TypeOK, Asking
<1>2. Asking' = [Asking EXCEPT ![k] = @ \cup {d}]
  <2>1. \A i \in Keys : pendingJoins'[i] =
          IF i = k THEN pendingJoins[k] \cup {[device |-> d, seq |-> joinSeq + 1]}
                   ELSE pendingJoins[i]
    BY DEF RequestJoin, NextJoin, TypeOK
  <2>2. Asking'[k] = Asking[k] \cup {d}
    <3> DEFINE new == [device |-> d, seq |-> joinSeq + 1]
    <3>1. new.device = d /\ pendingJoins'[k] = pendingJoins[k] \cup {new}
      BY <2>1
    <3>2. {j.device : j \in pendingJoins[k] \cup {new}}
            = {j.device : j \in pendingJoins[k]} \cup {new.device}
      <4> HIDE DEF new
      <4>1. QED OBVIOUS
    <3>3. QED BY <3>1, <3>2 DEF Asking
  <2>3. \A i \in Keys \ {k} : Asking'[i] = Asking[i]
    BY <2>1 DEF Asking
  <2>4. QED BY <2>2, <2>3 DEF Asking
<1>3. UNCHANGED <<Admitted, Before, online, owner>>
  BY Frame DEF RequestJoin
<1>4. QED BY <1>1, <1>2, <1>3 DEF Room!Ask, Admitted, Before, Asking

\* An approval admits the guest after all that were admitted before.
LEMMA ApproveAdmits ==
  ASSUME Inv, NEW k \in channels, NEW j \in pendingJoins[k], approveLocked(k, j)
  PROVE  Room!Admit(k, j.device)
<1> USE DEF Inv
<1> DEFINE d == j.device
           n == Cardinality(Members(k))
<1>1. /\ k \in Keys
      /\ d \in Devices
      /\ d \notin Members(k)
  BY DEF TypeOK, approveLocked, CanAdmit, Joins
<1>2. n \in Nat /\ NextPriority(k) = n + 1
  BY <1>1, MembersFinite, NextPriorityCounts
<1>3. /\ priority'[k] = [priority[k] EXCEPT ![d] = n + 1]
      /\ priority[k] \in [Devices -> Nat]
      /\ \A i \in Keys \ {k} : priority'[i] = priority[i]
  BY <1>1, <1>2 DEF approveLocked, TypeOK
<1>4. \A i \in Keys : Members(i)' = IF i = k THEN Members(k) \cup {d} ELSE Members(i)
  <2>1. \A i \in Keys \ {k} : Members(i)' = Members(i)
    BY <1>3 DEF Members
  <2>2. \A e \in Devices : priority'[k][e] > 0 <=> e \in Members(k) \cup {d}
    BY <1>1, <1>2, <1>3 DEF Members
  <2>3. Members(k)' = Members(k) \cup {d}
    BY <1>1, <2>2 DEF Members
  <2>4. QED BY <2>1, <2>3
<1>5. \A e \in Members(k) : priority[k][e] \in 1..n
  BY <1>1 DEF SeniorityIsStrict
<1>6. Admitted' = [Admitted EXCEPT ![k] = @ \cup {d}]
  BY <1>4 DEF Admitted
<1>7. Before' = [Before EXCEPT ![k] = @ \cup (Members(k) \X {d})]
  <2>1. \A i \in Keys \ {k} : Before'[i] = Before[i]
    BY <1>3, <1>4 DEF Before
  <2>2. \A e \in Members(k) : /\ e \in Devices
                              /\ e # d
                              /\ priority'[k][e] = priority[k][e]
                              /\ priority[k][e] \in Nat
                              /\ priority[k][e] < n + 1
    BY <1>1, <1>2, <1>3, <1>5 DEF Members
  <2>3. priority'[k][d] = n + 1
    BY <1>1, <1>3
  <2>4. Before'[k] = {p \in (Members(k) \cup {d}) \X (Members(k) \cup {d}) :
                        priority'[k][p[1]] < priority'[k][p[2]]}
    BY <1>1, <1>4 DEF Before
  <2>5. ASSUME NEW p \in (Members(k) \cup {d}) \X (Members(k) \cup {d})
        PROVE  (priority'[k][p[1]] < priority'[k][p[2]])
                 <=> p \in Before[k] \cup (Members(k) \X {d})
    <3>1. p = <<p[1], p[2]>> /\ p[1] \in Members(k) \cup {d} /\ p[2] \in Members(k) \cup {d}
      OBVIOUS
    <3>2. CASE p[1] = d
      <4>1. p \notin Before[k] /\ p \notin Members(k) \X {d}
        BY <1>1, <3>2 DEF Before
      <4>2. ~(priority'[k][p[1]] < priority'[k][p[2]])
        BY <1>2, <2>2, <2>3, <3>1, <3>2
      <4>3. QED BY <4>1, <4>2
    <3>3. CASE p[1] \in Members(k) /\ p[2] = d
      BY <1>2, <2>2, <2>3, <3>1, <3>3
    <3>4. CASE p[1] \in Members(k) /\ p[2] \in Members(k)
      <4>1. p \in Before[k] <=> priority[k][p[1]] < priority[k][p[2]]
        BY <1>1, <3>1, <3>4 DEF Before
      <4>2. p \notin Members(k) \X {d}
        BY <1>1, <3>4
      <4>3. QED BY <2>2, <3>4, <4>1, <4>2
    <3>5. QED BY <3>1, <3>2, <3>3, <3>4
  <2>6. Before[k] \subseteq Members(k) \X Members(k)
    BY <1>1 DEF Before
  <2>7. Before'[k] = Before[k] \cup (Members(k) \X {d})
    BY <2>4, <2>5, <2>6
  <2>8. QED BY <1>1, <2>1, <2>7 DEF Before
<1>8. d \in Asking[k] \ Members(k) /\ Asking' = [Asking EXCEPT ![k] = @ \ {d}]
  <2>1. \A i \in Keys : pendingJoins'[i] =
          IF i = k THEN {h \in pendingJoins[k] : h.device # d} ELSE pendingJoins[i]
    BY <1>1 DEF approveLocked, TypeOK
  <2>2. QED BY <1>1, <2>1 DEF Asking
<1>9. UNCHANGED <<online, owner>>
  <2>1. Inv'
    BY ApproveInv
  <2>2. online' = online
    BY DEF approveLocked
  <2>3. \A e \in online[k] : priority'[k][e] = priority[k][e] /\ e \in Members(k)
    BY <1>1, <1>3 DEF TypeOK
  <2>4. owner'[k] = owner[k]
    <3>1. online[k] = {} => owner'[k] = None /\ owner[k] = None
      BY <1>1, <2>1, <2>2 DEF OwnerIsMostSenior
    <3>2. ASSUME online[k] # {}, owner'[k] # owner[k] PROVE FALSE
      <4>1. /\ owner[k] \in online[k] /\ owner'[k] \in online[k]
            /\ priority[k][owner[k]] < priority[k][owner'[k]]
        BY <1>1, <2>1, <2>2, <3>2 DEF OwnerIsMostSenior
      <4>2. priority'[k][owner'[k]] < priority'[k][owner[k]]
        BY <1>1, <2>1, <2>2, <3>2 DEF OwnerIsMostSenior
      <4>3. /\ priority[k][owner[k]] \in Nat /\ priority[k][owner'[k]] \in Nat
        BY <1>3, <2>3, <4>1 DEF Members
      <4>4. QED BY <2>3, <4>1, <4>2, <4>3
    <3>3. QED BY <3>1, <3>2
  <2>5. owner' = owner
    BY <1>1, <2>4 DEF approveLocked, TypeOK
  <2>6. QED BY <2>2, <2>5
<1>10. QED
  BY <1>1, <1>6, <1>7, <1>8, <1>9 DEF Room!Admit, Admitted, Before, Asking

\* A denial refuses the guest: it had one request only.
LEMMA DenyRefuses ==
  ASSUME Inv, NEW k \in channels, NEW j \in pendingJoins[k], denyLocked(k, j)
  PROVE  Room!Refuse(k, j.device)
<1> USE DEF Inv
<1>1. k \in Keys
  BY DEF TypeOK
<1>2. \A i \in Keys : pendingJoins'[i] =
        IF i = k THEN pendingJoins[k] \ {j} ELSE pendingJoins[i]
  BY <1>1 DEF denyLocked, TypeOK
<1>3. \A h \in pendingJoins[k] : h.device = j.device => h = j
  BY <1>1 DEF OneStandingPerDevice
<1>4. j.device \in Asking[k] /\ Asking' = [Asking EXCEPT ![k] = @ \ {j.device}]
  <2>1. j.device \in Asking[k]
    BY <1>1 DEF Asking
  <2>2. \A i \in Keys : Asking'[i] = IF i = k THEN Asking[k] \ {j.device} ELSE Asking[i]
    BY <1>1, <1>2, <1>3 DEF Asking
  <2>3. QED BY <1>1, <2>1, <2>2 DEF Asking
<1>5. UNCHANGED <<Admitted, Before, online, owner>>
  BY Frame DEF denyLocked
<1>6. QED BY <1>4, <1>5 DEF Room!Refuse, Admitted, Before, Asking

\* A change of who is online moves a guest, and the owner is the host the room
\* then must have.
LEMMA SetOnlineMoves ==
  ASSUME Inv, NEW k \in Keys, NEW d \in Devices, NEW on \in BOOLEAN, SetOnline(k, d, on)
  PROVE  Room!Enter(k, d) \/ Room!Leave(k, d) \/ RoomSame
<1> USE DEF Inv
<1> DEFINE here == IF on THEN online[k] \cup {d} ELSE online[k] \ {d}
<1>1. Inv'
  BY SetOnlineInv
<1>2. UNCHANGED <<Admitted, Before, Asking>>
  BY Frame DEF SetOnline
<1>3. /\ d \in Members(k)
      /\ here \subseteq Members(k)
      /\ online' = [online EXCEPT ![k] = here]
      /\ online'[k] = here
  BY DEF SetOnline, TypeOK
<1>4. Room!Hosts(owner'[k], Before[k], here) /\ owner'[k] \in Devices \cup {None}
  <2>1. UNCHANGED priority /\ owner'[k] \in Devices \cup {None}
    BY <1>1 DEF SetOnline, TypeOK
  <2>2. here = {} => owner'[k] = None
    BY <1>1, <1>3 DEF OwnerIsMostSenior
  <2>3. here # {} => /\ owner'[k] \in here
                     /\ \A e \in here \ {owner'[k]} : priority[k][owner'[k]] < priority[k][e]
    BY <1>1, <1>3, <2>1 DEF OwnerIsMostSenior
  <2>4. here # {} => \A e \in here \ {owner'[k]} : <<owner'[k], e>> \in Before[k]
    BY <1>3, <2>3 DEF Before
  <2>5. QED BY <2>1, <2>2, <2>3, <2>4 DEF Room!Hosts
<1>5. owner' = [owner EXCEPT ![k] = owner'[k]]
  BY DEF SetOnline, TypeOK
<1>6. Room!Move(k, here)
  BY <1>2, <1>3, <1>4, <1>5 DEF Room!Move, Admitted, Before, Asking
<1>7. CASE here = online[k]
  <2>1. online' = online
    BY <1>3, <1>7 DEF TypeOK
  <2>2. owner'[k] = owner[k]
    <3>1. Room!Hosts(owner[k], Before[k], online[k])
      BY OwnerHosts
    <3>2. CASE online[k] = {}
      BY <1>4, <1>7, <3>1, <3>2 DEF Room!Hosts
    <3>3. ASSUME online[k] # {}, owner'[k] # owner[k] PROVE FALSE
      <4>1. <<owner[k], owner'[k]>> \in Before[k] /\ <<owner'[k], owner[k]>> \in Before[k]
        BY <1>4, <1>7, <3>1, <3>3 DEF Room!Hosts
      <4>2. /\ priority[k][owner[k]] < priority[k][owner'[k]]
            /\ priority[k][owner'[k]] < priority[k][owner[k]]
            /\ owner[k] \in Devices /\ owner'[k] \in Devices
        BY <4>1 DEF Before, Members
      <4>3. priority[k][owner[k]] \in Nat /\ priority[k][owner'[k]] \in Nat
        BY <4>2 DEF TypeOK
      <4>4. QED BY <4>2, <4>3
    <3>4. QED BY <3>2, <3>3
  <2>3. owner' = owner
    BY <1>5, <2>2 DEF TypeOK
  <2>4. QED BY <1>2, <2>1, <2>3 DEF RoomSame
<1>8. CASE here # online[k]
  <2>1. CASE on
    BY <1>3, <1>6, <1>8, <2>1 DEF Room!Enter, Admitted
  <2>2. CASE ~on
    BY <1>3, <1>6, <1>8, <2>2 DEF Room!Leave
  <2>3. QED BY <2>1, <2>2
<1>9. QED BY <1>7, <1>8

\* A connecting member changes nothing: its election has the result it had.
LEMMA ReconnectIsQuiet ==
  ASSUME Inv, NEW k \in Keys, NEW d \in Devices, ConnectMember(k, d)
  PROVE  RoomSame
<1> USE DEF Inv
<1>1. Inv'
  BY ConnectMemberInv
<1>2. UNCHANGED <<Admitted, Before, Asking, online>>
  BY Frame DEF ConnectMember
<1>3. UNCHANGED priority
  BY DEF ConnectMember
<1>4. owner'[k] = owner[k]
  <2>1. online[k] = {} => owner'[k] = None /\ owner[k] = None
    BY <1>1, <1>2 DEF OwnerIsMostSenior
  <2>2. ASSUME online[k] # {}, owner'[k] # owner[k] PROVE FALSE
    <3>1. /\ priority[k][owner[k]] < priority[k][owner'[k]]
          /\ priority[k][owner'[k]] < priority[k][owner[k]]
          /\ owner[k] \in online[k] /\ owner'[k] \in online[k]
      BY <1>1, <1>2, <1>3, <2>2 DEF OwnerIsMostSenior
    <3>2. priority[k][owner[k]] \in Nat /\ priority[k][owner'[k]] \in Nat
      BY <3>1 DEF TypeOK
    <3>3. QED BY <3>1, <3>2
  <2>3. QED BY <2>1, <2>2
<1>5. owner' = owner
  BY <1>4 DEF ConnectMember, TypeOK
<1>6. QED BY <1>2, <1>5 DEF RoomSame

\* A channel is deleted when its last online member expires: the room closes
\* with at most the guest present that leaves.
LEMMA ExpiryClosesOrMoves ==
  ASSUME Inv, NEW k \in Keys, NEW d \in Devices, ExpireOfflineMember(k, d)
  PROVE  Room!Close(k) \/ Room!Enter(k, d) \/ Room!Leave(k, d) \/ RoomSame
<1> USE DEF Inv
<1>1. CASE SetOnline(k, d, FALSE)
  BY <1>1, SetOnlineMoves
<1>2. CASE DeleteChannel(k) /\ ElectedOwner(priority[k], online[k] \ {d}) = None
  <2>1. \A i \in Keys : Members(i)' = IF i = k THEN {} ELSE Members(i)
    BY <1>2 DEF DeleteChannel, Members, TypeOK
  <2>2. Members(k) # {}
    BY DEF ExpireOfflineMember
  <2>3. online[k] \subseteq {d}
    <3> DEFINE here == online[k] \ {d}
    <3>1. /\ here \in SUBSET Devices /\ here \subseteq Members(k)
          /\ priority[k] \in [Devices -> Nat]
      BY DEF TypeOK, Members
    <3>2. \A e, f \in here : priority[k][e] = priority[k][f] => e = f
      BY <3>1 DEF SeniorityIsStrict
    <3>3. here # {} => ElectedOwner(priority[k], here) # None
      BY <3>1, <3>2, ElectionIsSenior
    <3>4. QED BY <1>2, <3>3
  <2>4. /\ Admitted' = [Admitted EXCEPT ![k] = {}]
        /\ Before' = [Before EXCEPT ![k] = {}]
        /\ Asking' = [Asking EXCEPT ![k] = {}]
        /\ online' = [online EXCEPT ![k] = {}]
        /\ owner' = [owner EXCEPT ![k] = None]
    <3>1. Admitted' = [Admitted EXCEPT ![k] = {}]
      BY <2>1 DEF Admitted
    <3>2. \A i \in Keys \ {k} : priority'[i] = priority[i]
      BY <1>2 DEF DeleteChannel, TypeOK
    <3>3. Before' = [Before EXCEPT ![k] = {}]
      BY <2>1, <3>2 DEF Before
    <3>4. pendingJoins' = [pendingJoins EXCEPT ![k] = {}]
      BY <1>2 DEF DeleteChannel
    <3>5. Asking' = [Asking EXCEPT ![k] = {}]
      BY <3>4 DEF Asking, TypeOK
    <3>6. QED BY <1>2, <3>1, <3>3, <3>5 DEF DeleteChannel
  <2>5. QED BY <2>2, <2>3, <2>4 DEF Room!Close, Admitted, Before, Asking
<1>3. QED BY <1>1, <1>2 DEF ExpireOfflineMember

\* Every step of the registry is a step of the room, or none.
LEMMA RegistrySteps == Inv /\ [Next]_registryVars => [Room!Next]_(Room!roomVars)
<1> SUFFICES ASSUME Inv, [Next]_registryVars
             PROVE  Room!Next \/ UNCHANGED Room!roomVars
  OBVIOUS
<1>1. CASE UNCHANGED registryVars
  BY <1>1, Frame, RoomSameStutters DEF registryVars, RoomSame
<1>2. ASSUME NEW k \in Keys, NEW d \in Devices,
             \/ CreateChannel(k, d) \/ RequestJoin(k, d)
             \/ SetOnline(k, d, TRUE) \/ SetOnline(k, d, FALSE)
             \/ ConnectMember(k, d) \/ ExpireOfflineMember(k, d)
      PROVE  Room!Next \/ UNCHANGED Room!roomVars
  BY <1>2, CreateOpens, RequestAsks, SetOnlineMoves, ReconnectIsQuiet,
     ExpiryClosesOrMoves, RoomSameStutters DEF Room!Next
<1>3. ASSUME NEW k \in Keys, NEW j \in pendingJoins[k], Approve(k, j) \/ Deny(k, j)
      PROVE  Room!Next
  <2>1. k \in channels /\ j.device \in Devices
    BY <1>3 DEF Approve, Deny, Inv, TypeOK, Joins
  <2>2. QED
    BY <1>3, <2>1, ApproveAdmits, DenyRefuses DEF Approve, Deny, Room!Next
<1>4. ASSUME NEW k \in Keys, NEW j \in pendingJoins[k], NEW d \in Devices,
             ApproveByOwner(k, d, j) \/ DenyByOwner(k, d, j)
      PROVE  Room!Next
  BY <1>3, <1>4 DEF ApproveByOwner, DenyByOwner, Approve, Deny
<1>5. QED BY <1>1, <1>2, <1>3, <1>4 DEF Next

\* The registry implements the room: its host is always the present guest that
\* was admitted first, guests are admitted after one request and one decision,
\* and a room that is not empty is never closed.
THEOREM RegistryImplementsRoom == Spec => ImplementsLiveRoom
<1>1. Init => Room!Init
  <2> SUFFICES ASSUME Init PROVE Room!Init
    OBVIOUS
  <2>1. \A k \in Keys : Members(k) = {}
    BY DEF Init, Members
  <2>2. QED BY <2>1 DEF Init, Room!Init
<1>2. Spec => []Inv
  BY InitInv, NextInv, PTL DEF Spec
<1>3. QED BY <1>1, <1>2, RegistrySteps, PTL DEF Spec, ImplementsLiveRoom, Room!Spec
=============================================================================
