--------------------------- MODULE RegistryProofs ---------------------------
(***************************************************************************)
(* Theorems about Registry, for every set of keys, every finite set of     *)
(* devices and every limit.                                                *)
(*                                                                         *)
(* OwnerIsMostSenior is not inductive: an election returns the one most    *)
(* senior member only if priorities are distinct, and nextPriority keeps   *)
(* them distinct only if they are exactly 1..n.  Inv is the conjunction    *)
(* that is inductive.                                                      *)
(***************************************************************************)
EXTENDS Registry, WellFoundedInduction, FiniteSetTheorems, TLAPS

Inv == /\ TypeOK
       /\ SeniorityIsStrict
       /\ OwnerIsMostSenior
       /\ OneStandingPerDevice
       /\ WithinLimits

-----------------------------------------------------------------------------
(* Numbers and elections                                                   *)

Precedes == {p \in Nat \X Nat : p[1] < p[2]}

\* Every non-empty set of natural numbers, such as the priorities of the
\* members online in recomputeOwner, has a least element.
LEMMA LeastNatural ==
  ASSUME NEW S, S \subseteq Nat, S # {}
  PROVE  \E m \in S : \A n \in S : m <= n
<1>1. IsWellFoundedOn(Precedes, Nat)
  BY NatLessThanWellFounded DEF Precedes, OpToRel
<1>2. PICK m \in S : \A n \in S : <<n, m>> \notin Precedes
  BY <1>1, WFMin
<1>3. ASSUME NEW n \in S PROVE m <= n
  <2>1. ~(n < m)
    BY <1>2 DEF Precedes
  <2>2. QED BY <2>1
<1>4. QED BY <1>3

\* recomputeOwner returns the most senior member online, if priorities are
\* distinct, and nobody exactly when nobody is online.
LEMMA ElectionIsSenior ==
  ASSUME NEW p \in [Devices -> Nat], NEW on \in SUBSET Devices,
         \A d, e \in on : p[d] = p[e] => d = e
  PROVE  /\ on = {} => ElectedOwner(p, on) = None
         /\ on # {} => /\ ElectedOwner(p, on) \in on
                       /\ ElectedOwner(p, on) # None
                       /\ \A d \in on \ {ElectedOwner(p, on)} :
                            p[ElectedOwner(p, on)] < p[d]
<1>1. CASE on = {}
  BY <1>1 DEF ElectedOwner
<1>2. CASE on # {}
  <2>1. PICK m \in {p[d] : d \in on} : \A n \in {p[d] : d \in on} : m <= n
    <3>1. {p[d] : d \in on} \subseteq Nat /\ {p[d] : d \in on} # {}
      BY <1>2
    <3>2. QED BY <3>1, LeastNatural
  <2>2. \E d \in on : \A e \in on : p[d] <= p[e]
    BY <2>1
  <2>3. /\ ElectedOwner(p, on) \in on
        /\ \A e \in on : p[ElectedOwner(p, on)] <= p[e]
    BY <1>2, <2>2 DEF ElectedOwner
  <2>4. \A d \in on \ {ElectedOwner(p, on)} : p[ElectedOwner(p, on)] < p[d]
    BY <2>3
  <2>5. QED BY <1>2, <2>3, <2>4, DevicesAssumption
<1>3. QED BY <1>1, <1>2

\* A channel has finitely many members, so len(ch.Members) is a number.
LEMMA MembersFinite ==
  ASSUME NEW k \in Keys
  PROVE  IsFiniteSet(Members(k)) /\ Cardinality(Members(k)) \in Nat
BY DevicesAssumption, FS_Subset, FS_CardinalityType DEF Members

\* nextPriority is the number of members plus one, because the priorities of
\* the members are 1..n.
LEMMA NextPriorityCounts ==
  ASSUME NEW k \in Keys, TypeOK, SeniorityIsStrict
  PROVE  NextPriority(k) = Cardinality(Members(k)) + 1
<1> DEFINE n == Cardinality(Members(k))
           S == {0} \cup {priority[k][d] : d \in Devices}
<1>1. n \in Nat
  BY MembersFinite
<1>2. {priority[k][d] : d \in Members(k)} = 1..n
  BY DEF SeniorityIsStrict
<1>3. S \subseteq 0..n
  <2>1. ASSUME NEW d \in Devices PROVE priority[k][d] \in 0..n
    <3>1. priority[k][d] \in Nat BY DEF TypeOK
    <3>2. CASE priority[k][d] = 0 BY <3>2, <1>1
    <3>3. CASE priority[k][d] > 0
      <4>1. d \in Members(k) BY <3>3 DEF Members
      <4>2. QED BY <4>1, <1>2, <1>1
    <3>4. QED BY <3>1, <3>2, <3>3
  <2>2. QED BY <2>1, <1>1
<1>4. n \in S
  <2>1. CASE n = 0 BY <2>1
  <2>2. CASE n # 0
    <3>1. n \in {priority[k][d] : d \in Members(k)} BY <2>2, <1>1, <1>2
    <3>2. QED BY <3>1 DEF Members
  <2>3. QED BY <2>1, <2>2
<1>5. \A x \in S : n >= x
  BY <1>1, <1>3
<1>6. Max(S) = n
  <2>1. /\ Max(S) \in S
        /\ \A x \in S : Max(S) >= x
    BY <1>4, <1>5 DEF Max
  <2>2. Max(S) <= n /\ Max(S) >= n /\ Max(S) \in Int
    BY <2>1, <1>1, <1>3, <1>4, <1>5
  <2>3. QED BY <2>2, <1>1
<1>7. QED BY <1>6 DEF NextPriority

-----------------------------------------------------------------------------
(* The steps of the registry preserve Inv                                  *)

\* NewRegistry: no channel at all satisfies every part of Inv.
LEMMA InitInv == Init => Inv
<1> SUFFICES ASSUME Init PROVE Inv
  OBVIOUS
<1>1. \A k \in Keys : Members(k) = {}
  BY DEF Init, Members
<1>2. TypeOK
  BY <1>1, JoinSeqAssumption DEF Init, TypeOK
<1>3. SeniorityIsStrict
  BY <1>1, FS_EmptySet DEF SeniorityIsStrict
<1>4. OwnerIsMostSenior
  BY DEF Init, OwnerIsMostSenior
<1>5. OneStandingPerDevice
  BY DEF Init, OneStandingPerDevice
<1>6. WithinLimits
  BY <1>1, FS_EmptySet, LimitsAssumption DEF Init, WithinLimits
<1>7. QED BY <1>2, <1>3, <1>4, <1>5, <1>6 DEF Inv

\* Creating a channel, on the first Connect of its key, makes one member.
LEMMA CreateChannelInv ==
  ASSUME Inv, NEW k \in Keys, NEW d \in Devices, CreateChannel(k, d)
  PROVE  Inv'
<1> USE DEF Inv
<1>1. \A i \in Keys : Members(i)' = IF i = k THEN {d} ELSE Members(i)
  BY DEF CreateChannel, Members, TypeOK
<1>2. TypeOK'
  <2>1. /\ channels' \subseteq Keys
        /\ priority' \in [Keys -> [Devices -> Nat]]
        /\ online' \in [Keys -> SUBSET Devices]
        /\ pendingJoins' \in [Keys -> SUBSET Joins]
        /\ owner' \in [Keys -> Devices \cup {None}]
        /\ joinSeq' \in 0..MaxJoinSeq
    BY DEF CreateChannel, TypeOK
  <2>2. ASSUME NEW i \in Keys
        PROVE  /\ i \in channels' <=> Members(i)' # {}
               /\ online'[i] \subseteq Members(i)'
               /\ i \in channels' \/ pendingJoins'[i] = {}
    <3>1. CASE i = k
      BY <1>1, <3>1 DEF CreateChannel, TypeOK
    <3>2. CASE i # k
      BY <1>1, <3>2 DEF CreateChannel, TypeOK
    <3>3. QED BY <3>1, <3>2
  <2>3. QED BY <2>1, <2>2 DEF TypeOK
<1>3. SeniorityIsStrict'
  <2>1. priority'[k][d] = 1
    BY DEF CreateChannel, TypeOK
  <2>2. \A i \in Keys \ {k} : priority'[i] = priority[i]
    BY DEF CreateChannel, TypeOK
  <2>3. Cardinality({d}) = 1
    BY FS_Singleton
  <2>4. ASSUME NEW i \in Keys
        PROVE  /\ \A a, b \in Members(i)' : priority'[i][a] = priority'[i][b] => a = b
               /\ {priority'[i][a] : a \in Members(i)'} = 1..Cardinality(Members(i)')
    <3>1. CASE i = k
      BY <1>1, <2>1, <2>3, <3>1
    <3>2. CASE i # k
      BY <1>1, <2>2, <3>2 DEF SeniorityIsStrict
    <3>3. QED BY <3>1, <3>2
  <2>5. QED BY <2>4 DEF SeniorityIsStrict
<1>4. OwnerIsMostSenior'
  BY DEF CreateChannel, TypeOK, OwnerIsMostSenior
<1>5. OneStandingPerDevice'
  BY <1>1 DEF CreateChannel, TypeOK, OneStandingPerDevice
<1>6. WithinLimits'
  <2>1. Cardinality({d}) = 1 /\ Cardinality({}) = 0
    BY FS_Singleton, FS_EmptySet
  <2>2. /\ pendingJoins'[k] = {}
        /\ \A i \in Keys \ {k} : pendingJoins'[i] = pendingJoins[i]
    BY DEF CreateChannel, TypeOK
  <2>3. 1 <= MaxMembers /\ 0 <= MaxPendingJoins
    BY LimitsAssumption
  <2>4. ASSUME NEW i \in Keys
        PROVE  /\ Cardinality(Members(i)') <= MaxMembers
               /\ Cardinality(pendingJoins'[i]) <= MaxPendingJoins
    <3>1. CASE i = k
      BY <1>1, <2>1, <2>2, <2>3, <3>1
    <3>2. CASE i # k
      BY <1>1, <2>2, <3>2 DEF WithinLimits
    <3>3. QED BY <3>1, <3>2
  <2>5. QED BY <2>4 DEF WithinLimits
<1>7. QED BY <1>2, <1>3, <1>4, <1>5, <1>6

\* A step that only redoes the election of one channel, over the members that
\* are online after it, preserves Inv.
LEMMA ReelectionInv ==
  ASSUME Inv, NEW k \in Keys, NEW on \in SUBSET Members(k),
         online' = [online EXCEPT ![k] = on],
         owner' = [owner EXCEPT ![k] = ElectedOwner(priority[k], on)],
         UNCHANGED <<channels, priority, pendingJoins, joinSeq>>
  PROVE  Inv'
<1> USE DEF Inv
<1>1. \A i \in Keys : Members(i)' = Members(i)
  BY DEF Members
<1>2. /\ on = {} => ElectedOwner(priority[k], on) = None
      /\ on # {} => /\ ElectedOwner(priority[k], on) \in on
                    /\ ElectedOwner(priority[k], on) # None
                    /\ \A d \in on \ {ElectedOwner(priority[k], on)} :
                         priority[k][ElectedOwner(priority[k], on)] < priority[k][d]
  <2>1. on \in SUBSET Devices /\ priority[k] \in [Devices -> Nat]
    BY DEF Members, TypeOK
  <2>2. \A d, e \in on : priority[k][d] = priority[k][e] => d = e
    BY DEF SeniorityIsStrict
  <2>3. QED BY <2>1, <2>2, ElectionIsSenior
<1>3. TypeOK'
  <2>1. ElectedOwner(priority[k], on) \in Devices \cup {None}
    BY <1>2 DEF Members
  <2>2. on \subseteq Devices
    BY DEF Members
  <2>3. QED BY <1>1, <2>1, <2>2 DEF TypeOK
<1>4. SeniorityIsStrict'
  BY <1>1 DEF SeniorityIsStrict
<1>5. OwnerIsMostSenior'
  <2>1. /\ owner'[k] = ElectedOwner(priority[k], on)
        /\ online'[k] = on
        /\ \A i \in Keys \ {k} : owner'[i] = owner[i] /\ online'[i] = online[i]
    BY DEF TypeOK
  <2>2. QED BY <1>2, <2>1 DEF OwnerIsMostSenior
<1>6. OneStandingPerDevice'
  BY <1>1 DEF OneStandingPerDevice
<1>7. WithinLimits'
  BY <1>1 DEF WithinLimits
<1>8. QED BY <1>3, <1>4, <1>5, <1>6, <1>7

\* Connect lets a member back in and redoes an election that does not change.
LEMMA ConnectMemberInv ==
  ASSUME Inv, NEW k \in Keys, NEW d \in Devices, ConnectMember(k, d)
  PROVE  Inv'
<1>1. online' = [online EXCEPT ![k] = online[k]]
  BY DEF ConnectMember, Inv, TypeOK
<1>2. online[k] \in SUBSET Members(k)
  BY DEF Inv, TypeOK
<1>3. QED BY <1>1, <1>2, ReelectionInv DEF ConnectMember

\* setOnlineLocked, without the deletion, is a re-election.
LEMMA SetOnlineInv ==
  ASSUME Inv, NEW k \in Keys, NEW d \in Devices, NEW on \in BOOLEAN,
         SetOnline(k, d, on)
  PROVE  Inv'
<1> DEFINE here == IF on THEN online[k] \cup {d} ELSE online[k] \ {d}
<1>1. here \in SUBSET Members(k)
  BY DEF SetOnline, Inv, TypeOK
<1>2. online' = [online EXCEPT ![k] = here] /\ online'[k] = here
  BY DEF SetOnline, Inv, TypeOK
<1>3. QED BY <1>1, <1>2, ReelectionInv DEF SetOnline

\* recomputeOwner: where somebody is online, the owner is.
LEMMA OwnerOnline ==
  ASSUME Inv, NEW k \in Keys, online[k] # {}
  PROVE  owner[k] \in online[k]
BY DEF Inv, OwnerIsMostSenior

\* A step that only changes the requests of one channel preserves Inv, if the
\* requests are of devices that are no members, one each, and within the limit.
LEMMA RequestsInv ==
  ASSUME Inv, NEW k \in channels, NEW asked \in SUBSET Joins,
         pendingJoins' = [pendingJoins EXCEPT ![k] = asked],
         joinSeq' \in 0..MaxJoinSeq,
         UNCHANGED <<channels, priority, online, owner>>,
         Cardinality(asked) <= MaxPendingJoins,
         \A j \in asked : j.device \notin Members(k),
         \A i, j \in asked : i.device = j.device => i = j
  PROVE  Inv'
<1> USE DEF Inv
<1>1. \A i \in Keys : Members(i)' = Members(i)
  BY DEF Members
<1>2. /\ k \in Keys
      /\ pendingJoins'[k] = asked
      /\ \A i \in Keys \ {k} : pendingJoins'[i] = pendingJoins[i]
  BY DEF TypeOK
<1>3. TypeOK'
  BY <1>1, <1>2 DEF TypeOK
<1>4. SeniorityIsStrict'
  BY <1>1 DEF SeniorityIsStrict
<1>5. OwnerIsMostSenior'
  BY DEF OwnerIsMostSenior
<1>6. OneStandingPerDevice'
  BY <1>1, <1>2 DEF OneStandingPerDevice
<1>7. WithinLimits'
  BY <1>1, <1>2 DEF WithinLimits
<1>8. QED BY <1>3, <1>4, <1>5, <1>6, <1>7

\* A channel has finitely many requests, so len(ch.PendingJoins) is a number.
LEMMA RequestsFinite ==
  ASSUME Inv, NEW k \in Keys
  PROVE  IsFiniteSet(pendingJoins[k]) /\ Cardinality(pendingJoins[k]) \in Nat
<1>1. IsFiniteSet(1..MaxJoinSeq)
  BY JoinSeqAssumption, FS_Interval
<1>2. IsFiniteSet(Devices \X (1..MaxJoinSeq))
  BY <1>1, DevicesAssumption, FS_Product
<1> DEFINE f == [j \in Joins |-> <<j.device, j.seq>>]
<1>3. f \in Injection(Joins, Devices \X (1..MaxJoinSeq))
  BY DEF Joins, Injection, IsInjective
<1>4. IsFiniteSet(Joins)
  BY <1>2, <1>3, FS_Injection
<1>5. pendingJoins[k] \in SUBSET Joins
  BY DEF Inv, TypeOK
<1>6. QED BY <1>4, <1>5, FS_Subset, FS_CardinalityType

\* Connect of a device that is no member adds one request, within the limit.
LEMMA RequestJoinInv ==
  ASSUME Inv, NEW k \in Keys, NEW d \in Devices, RequestJoin(k, d)
  PROVE  Inv'
<1> DEFINE new == NextJoin(k, d)
           asked == pendingJoins[k] \cup {new}
<1> USE DEF NextJoin
<1>1. new \in Joins /\ joinSeq' \in 0..MaxJoinSeq
  BY JoinSeqAssumption DEF RequestJoin, Joins, Inv, TypeOK
<1>2. asked \in SUBSET Joins
  BY <1>1 DEF Inv, TypeOK
<1>3. Cardinality(asked) <= MaxPendingJoins
  <2>1. Cardinality(pendingJoins[k]) < MaxPendingJoins
    BY DEF RequestJoin
  <2>2. IsFiniteSet(pendingJoins[k]) /\ Cardinality(pendingJoins[k]) \in Nat
    BY RequestsFinite
  <2>3. \/ Cardinality(asked) = Cardinality(pendingJoins[k])
        \/ Cardinality(asked) = Cardinality(pendingJoins[k]) + 1
    BY <2>2, FS_AddElement
  <2>4. QED BY <2>1, <2>2, <2>3, LimitsAssumption
<1>4. \A j \in asked : j.device \notin Members(k)
  BY DEF RequestJoin, Inv, OneStandingPerDevice
<1>5. \A i, j \in asked : i.device = j.device => i = j
  BY DEF RequestJoin, HasPendingJoin, Inv, OneStandingPerDevice
<1>6. QED BY <1>1, <1>2, <1>3, <1>4, <1>5, RequestsInv DEF RequestJoin

\* Deny, by the owner or not, takes one request away.
LEMMA DenyInv ==
  ASSUME Inv, NEW k \in channels, NEW j \in pendingJoins[k], denyLocked(k, j)
  PROVE  Inv'
<1> DEFINE asked == pendingJoins[k] \ {j}
<1>1. k \in Keys /\ asked \in SUBSET Joins
  BY DEF Inv, TypeOK
<1>2. Cardinality(asked) <= MaxPendingJoins
  <2>1. Cardinality(pendingJoins[k]) <= MaxPendingJoins
    BY <1>1 DEF Inv, WithinLimits
  <2>2. IsFiniteSet(pendingJoins[k]) /\ Cardinality(pendingJoins[k]) \in Nat
    BY <1>1, RequestsFinite
  <2>3. Cardinality(asked) = Cardinality(pendingJoins[k]) - 1
    BY <2>2, FS_RemoveElement
  <2>4. QED BY <2>1, <2>2, <2>3, LimitsAssumption
<1>3. \A i \in asked : i.device \notin Members(k)
  BY <1>1 DEF Inv, OneStandingPerDevice
<1>4. \A h, i \in asked : h.device = i.device => h = i
  BY <1>1 DEF Inv, OneStandingPerDevice
<1>5. joinSeq' \in 0..MaxJoinSeq
  BY DEF denyLocked, Inv, TypeOK
<1>6. QED BY <1>1, <1>2, <1>3, <1>4, <1>5, RequestsInv DEF denyLocked

\* An approval gives the admitted device the priority after the last one and
\* leaves the election as it was, because the device is offline.
LEMMA ApproveInv ==
  ASSUME Inv, NEW k \in channels, NEW j \in pendingJoins[k], approveLocked(k, j)
  PROVE  Inv'
<1> USE DEF Inv
<1> DEFINE d == j.device
           n == Cardinality(Members(k))
<1>1. /\ k \in Keys
      /\ d \in Devices
      /\ d \notin Members(k)
      /\ n < MaxMembers
  BY DEF TypeOK, approveLocked, CanAdmit, Joins
<1>2. n \in Nat /\ NextPriority(k) = n + 1
  BY <1>1, MembersFinite, NextPriorityCounts
<1>3. /\ priority'[k] = [priority[k] EXCEPT ![d] = n + 1]
      /\ priority'[k] \in [Devices -> Nat]
      /\ \A i \in Keys \ {k} : priority'[i] = priority[i]
  BY <1>1, <1>2 DEF approveLocked, TypeOK
<1>4. /\ Members(k)' = Members(k) \cup {d}
      /\ \A i \in Keys \ {k} : Members(i)' = Members(i)
  <2>1. \A a \in Devices : priority'[k][a] = IF a = d THEN n + 1 ELSE priority[k][a]
    BY <1>1, <1>3 DEF TypeOK
  <2>2. \A a \in Devices : priority'[k][a] > 0 <=> a = d \/ priority[k][a] > 0
    BY <1>2, <2>1
  <2>3. Members(k)' = Members(k) \cup {d}
    BY <1>1, <2>2 DEF Members
  <2>4. QED BY <1>3, <2>3 DEF Members
<1>5. Cardinality(Members(k)') = n + 1
  BY <1>1, <1>4, MembersFinite, FS_AddElement
<1>6. /\ pendingJoins'[k] = {i \in pendingJoins[k] : i.device # d}
      /\ \A i \in Keys \ {k} : pendingJoins'[i] = pendingJoins[i]
      /\ pendingJoins' \in [Keys -> SUBSET Joins]
  BY <1>1 DEF approveLocked, TypeOK
<1>7. SeniorityIsStrict'
  <2>1. ASSUME NEW a \in Members(k)
        PROVE  priority'[k][a] = priority[k][a] /\ priority[k][a] \in 1..n
    <3>1. a \in Devices /\ a # d
      BY <1>1 DEF Members
    <3>2. priority'[k][a] = priority[k][a]
      BY <1>1, <1>3, <3>1 DEF TypeOK
    <3>3. {priority[k][b] : b \in Members(k)} = 1..n
      BY <1>1 DEF SeniorityIsStrict
    <3>4. QED BY <3>2, <3>3
  <2>2. priority'[k][d] = n + 1
    BY <1>1, <1>3 DEF TypeOK
  <2>3. \A a, b \in Members(k)' : priority'[k][a] = priority'[k][b] => a = b
    BY <1>1, <1>2, <1>4, <2>1, <2>2 DEF SeniorityIsStrict
  <2>4. {priority'[k][a] : a \in Members(k)'} = (1..n) \cup {n + 1}
    BY <1>1, <1>4, <2>1, <2>2 DEF SeniorityIsStrict
  <2>5. (1..n) \cup {n + 1} = 1..(n + 1)
    BY <1>2
  <2>6. ASSUME NEW i \in Keys
        PROVE  /\ \A a, b \in Members(i)' : priority'[i][a] = priority'[i][b] => a = b
               /\ {priority'[i][a] : a \in Members(i)'} = 1..Cardinality(Members(i)')
    <3>1. CASE i = k
      BY <1>5, <2>3, <2>4, <2>5, <3>1
    <3>2. CASE i # k
      BY <1>3, <1>4, <3>2 DEF SeniorityIsStrict
    <3>3. QED BY <3>1, <3>2
  <2>7. QED BY <2>6 DEF SeniorityIsStrict
<1>8. online[k] \subseteq Members(k) /\ d \notin online[k]
  BY <1>1 DEF TypeOK
<1>9. owner' = owner
  <2>1. \A a \in online[k] : priority'[k][a] = priority[k][a]
    BY <1>1, <1>3, <1>8 DEF Members, TypeOK
  <2>2. /\ online[k] = {} => ElectedOwner(priority'[k], online[k]) = None
        /\ online[k] # {} =>
             /\ ElectedOwner(priority'[k], online[k]) \in online[k]
             /\ \A a \in online[k] \ {ElectedOwner(priority'[k], online[k])} :
                  priority'[k][ElectedOwner(priority'[k], online[k])] < priority'[k][a]
    <3>1. \A a, b \in online[k] : priority'[k][a] = priority'[k][b] => a = b
      BY <1>1, <1>8, <2>1 DEF SeniorityIsStrict
    <3>2. online[k] \in SUBSET Devices
      BY <1>1 DEF TypeOK
    <3>3. QED BY <1>3, <3>1, <3>2, ElectionIsSenior
  <2>3. ElectedOwner(priority'[k], online[k]) = owner[k]
    <3>1. CASE online[k] = {}
      BY <1>1, <2>2, <3>1 DEF OwnerIsMostSenior
    <3>2. CASE online[k] # {}
      <4> DEFINE e == ElectedOwner(priority'[k], online[k])
      <4>1. e \in online[k] /\ \A a \in online[k] \ {e} : priority[k][e] < priority[k][a]
        BY <2>1, <2>2, <3>2
      <4>2. owner[k] \in online[k]
            /\ \A a \in online[k] \ {owner[k]} : priority[k][owner[k]] < priority[k][a]
        BY <1>1, <3>2, OwnerOnline DEF OwnerIsMostSenior
      <4>3. \A a \in online[k] : priority[k][a] \in Nat
        BY <1>1 DEF TypeOK
      <4>4. QED BY <4>1, <4>2, <4>3
    <3>3. QED BY <3>1, <3>2
  <2>4. QED BY <1>1, <2>3 DEF approveLocked, TypeOK
<1>10. TypeOK'
  <2>1. ASSUME NEW i \in Keys
        PROVE  /\ i \in channels' <=> Members(i)' # {}
               /\ online'[i] \subseteq Members(i)'
               /\ i \in channels' \/ pendingJoins'[i] = {}
    BY <1>1, <1>4, <1>6 DEF approveLocked, TypeOK
  <2>2. priority' \in [Keys -> [Devices -> Nat]]
    BY <1>1, <1>2 DEF approveLocked, TypeOK
  <2>3. QED BY <1>6, <1>9, <2>1, <2>2 DEF approveLocked, TypeOK
<1>11. OwnerIsMostSenior'
  <2>1. ASSUME NEW i \in Keys, NEW a \in online[i]
        PROVE  priority'[i][a] = priority[i][a]
    BY <1>1, <1>3, <1>8 DEF TypeOK
  <2>2. online' = online
    BY DEF approveLocked
  <2>3. ASSUME NEW i \in Keys
        PROVE  /\ owner'[i] = None <=> online'[i] = {}
               /\ owner'[i] # None =>
                    /\ owner'[i] \in online'[i]
                    /\ \A a \in online'[i] \ {owner'[i]} :
                         priority'[i][owner'[i]] < priority'[i][a]
    BY <1>9, <2>1, <2>2 DEF OwnerIsMostSenior
  <2>4. QED BY <2>3 DEF OwnerIsMostSenior
<1>12. OneStandingPerDevice'
  BY <1>1, <1>4, <1>6 DEF OneStandingPerDevice
<1>13. WithinLimits'
  <2>1. pendingJoins'[k] \subseteq pendingJoins[k]
    BY <1>6
  <2>2. Cardinality(pendingJoins'[k]) <= MaxPendingJoins
    BY <1>1, <2>1, RequestsFinite, FS_Subset, FS_CardinalityType, LimitsAssumption
       DEF WithinLimits
  <2>3. n + 1 <= MaxMembers
    BY <1>1, <1>2, LimitsAssumption
  <2>4. QED BY <1>4, <1>5, <1>6, <2>2, <2>3 DEF WithinLimits
<1>14. QED BY <1>7, <1>10, <1>11, <1>12, <1>13

\* Deleting a channel leaves nothing of it: as if its key had never been used.
LEMMA DeleteChannelInv ==
  ASSUME Inv, NEW k \in Keys, DeleteChannel(k)
  PROVE  Inv'
<1> USE DEF Inv
<1>1. \A i \in Keys : Members(i)' = IF i = k THEN {} ELSE Members(i)
  BY DEF DeleteChannel, Members, TypeOK
<1>2. TypeOK'
  <2>1. /\ channels' \subseteq Keys
        /\ priority' \in [Keys -> [Devices -> Nat]]
        /\ online' \in [Keys -> SUBSET Devices]
        /\ pendingJoins' \in [Keys -> SUBSET Joins]
        /\ owner' \in [Keys -> Devices \cup {None}]
        /\ joinSeq' \in 0..MaxJoinSeq
    BY DEF DeleteChannel, TypeOK
  <2>2. ASSUME NEW i \in Keys
        PROVE  /\ i \in channels' <=> Members(i)' # {}
               /\ online'[i] \subseteq Members(i)'
               /\ i \in channels' \/ pendingJoins'[i] = {}
    BY <1>1 DEF DeleteChannel, TypeOK
  <2>3. QED BY <2>1, <2>2 DEF TypeOK
<1>3. Cardinality({}) = 0
  BY FS_EmptySet
<1>4. /\ pendingJoins'[k] = {}
      /\ \A i \in Keys \ {k} : /\ priority'[i] = priority[i]
                              /\ pendingJoins'[i] = pendingJoins[i]
  BY DEF DeleteChannel, TypeOK
<1>5. SeniorityIsStrict'
  <2>1. ASSUME NEW i \in Keys
        PROVE  /\ \A a, b \in Members(i)' : priority'[i][a] = priority'[i][b] => a = b
               /\ {priority'[i][a] : a \in Members(i)'} = 1..Cardinality(Members(i)')
    <3>1. CASE i = k
      BY <1>1, <1>3, <3>1
    <3>2. CASE i # k
      BY <1>1, <1>4, <3>2 DEF SeniorityIsStrict
    <3>3. QED BY <3>1, <3>2
  <2>2. QED BY <2>1 DEF SeniorityIsStrict
<1>6. OwnerIsMostSenior'
  BY DEF DeleteChannel, TypeOK, OwnerIsMostSenior
<1>7. OneStandingPerDevice'
  BY <1>1, <1>4 DEF OneStandingPerDevice
<1>8. WithinLimits'
  BY <1>1, <1>3, <1>4, LimitsAssumption DEF WithinLimits
<1>9. QED BY <1>2, <1>5, <1>6, <1>7, <1>8

\* ExpireOfflineMember is a deletion or a re-election.
LEMMA ExpireOfflineMemberInv ==
  ASSUME Inv, NEW k \in Keys, NEW d \in Devices, ExpireOfflineMember(k, d)
  PROVE  Inv'
BY DeleteChannelInv, SetOnlineInv DEF ExpireOfflineMember

\* Every operation of the registry preserves Inv.
LEMMA NextInv == Inv /\ [Next]_registryVars => Inv'
<1> SUFFICES ASSUME Inv, [Next]_registryVars PROVE Inv'
  OBVIOUS
<1>1. CASE UNCHANGED registryVars
  <2>1. \A k \in Keys : Members(k)' = Members(k)
    BY <1>1 DEF registryVars, Members
  <2>2. TypeOK'
    BY <1>1, <2>1 DEF registryVars, Inv, TypeOK
  <2>3. SeniorityIsStrict'
    BY <1>1, <2>1 DEF registryVars, Inv, SeniorityIsStrict
  <2>4. OwnerIsMostSenior'
    BY <1>1 DEF registryVars, Inv, OwnerIsMostSenior
  <2>5. OneStandingPerDevice' /\ WithinLimits'
    BY <1>1, <2>1 DEF registryVars, Inv, OneStandingPerDevice, WithinLimits
  <2>6. QED BY <2>2, <2>3, <2>4, <2>5 DEF Inv
<1>2. ASSUME NEW k \in Keys, NEW d \in Devices, CreateChannel(k, d) PROVE Inv'
  BY <1>2, CreateChannelInv
<1>3. ASSUME NEW k \in Keys, NEW d \in Devices, ConnectMember(k, d) PROVE Inv'
  BY <1>3, ConnectMemberInv
<1>4. ASSUME NEW k \in Keys, NEW d \in Devices, RequestJoin(k, d) PROVE Inv'
  BY <1>4, RequestJoinInv
<1>5. ASSUME NEW k \in Keys, NEW d \in Devices, NEW on \in BOOLEAN,
             SetOnline(k, d, on)
      PROVE  Inv'
  BY <1>5, SetOnlineInv
<1>6. ASSUME NEW k \in Keys, NEW d \in Devices, ExpireOfflineMember(k, d)
      PROVE  Inv'
  BY <1>6, ExpireOfflineMemberInv
<1>7. ASSUME NEW k \in Keys, NEW j \in pendingJoins[k],
             \/ Approve(k, j)
             \/ \E d \in Devices : ApproveByOwner(k, d, j)
      PROVE  Inv'
  BY <1>7, ApproveInv DEF Approve, ApproveByOwner
<1>8. ASSUME NEW k \in Keys, NEW j \in pendingJoins[k],
             \/ Deny(k, j)
             \/ \E d \in Devices : DenyByOwner(k, d, j)
      PROVE  Inv'
  BY <1>8, DenyInv DEF Deny, DenyByOwner
<1>9. QED
  BY <1>1, <1>2, <1>3, <1>4, <1>5, <1>6, <1>7, <1>8 DEF Next

-----------------------------------------------------------------------------
\* The registry's fields keep their types, a channel exists exactly while it
\* has members, and only members are online, under every sequence of calls.
THEOREM TypeCorrect == Spec => []TypeOK
<1>1. Spec => []Inv
  BY InitInv, NextInv, PTL DEF Spec
<1>2. Inv => TypeOK
  BY DEF Inv
<1>3. QED BY <1>1, <1>2, PTL

\* Priorities are a strict order of admission without gaps, after any history of
\* admissions and deletions.
THEOREM SeniorityCorrect == Spec => []SeniorityIsStrict
<1>1. Spec => []Inv
  BY InitInv, NextInv, PTL DEF Spec
<1>2. Inv => SeniorityIsStrict
  BY DEF Inv
<1>3. QED BY <1>1, <1>2, PTL

\* The owner of a channel is the online member admitted first, after whichever of
\* the operations that change what the election looks at.
THEOREM OwnerCorrect == Spec => []OwnerIsMostSenior
<1>1. Spec => []Inv
  BY InitInv, NextInv, PTL DEF Spec
<1>2. Inv => OwnerIsMostSenior
  BY DEF Inv
<1>3. QED BY <1>1, <1>2, PTL

\* A device is a member, or waits with one request, or neither.
THEOREM AdmissionCorrect == Spec => []OneStandingPerDevice
<1>1. Spec => []Inv
  BY InitInv, NextInv, PTL DEF Spec
<1>2. Inv => OneStandingPerDevice
  BY DEF Inv
<1>3. QED BY <1>1, <1>2, PTL

\* Neither the limit of members nor that of requests is ever passed, although
\* requests made while there was room are approved later.
THEOREM LimitsCorrect == Spec => []WithinLimits
<1>1. Spec => []Inv
  BY InitInv, NextInv, PTL DEF Spec
<1>2. Inv => WithinLimits
  BY DEF Inv
<1>3. QED BY <1>1, <1>2, PTL

\* A member keeps its priority while it is online: only creation, approval and
\* deletion write priorities, and none of them that of an online member.
LEMMA OnlineKeepPriority ==
  ASSUME Inv, [Next]_registryVars, NEW k \in Keys, NEW d \in online'[k]
  PROVE  priority'[k][d] = priority[k][d]
<1> USE DEF Inv
<1>1. CASE UNCHANGED registryVars
  BY <1>1 DEF registryVars
<1>2. CASE priority' = priority
  BY <1>2
<1>3. ASSUME NEW i \in Keys, NEW e \in Devices, CreateChannel(i, e)
      PROVE  priority'[k][d] = priority[k][d]
  BY <1>3 DEF CreateChannel, TypeOK
<1>4. ASSUME NEW i \in Keys, DeleteChannel(i)
      PROVE  priority'[k][d] = priority[k][d]
  BY <1>4 DEF DeleteChannel, TypeOK
<1>5. ASSUME NEW i \in Keys, NEW j \in pendingJoins[i], approveLocked(i, j)
      PROVE  priority'[k][d] = priority[k][d]
  <2>1. online'[k] \subseteq Members(k)
    BY <1>5 DEF approveLocked, TypeOK
  <2>2. k # i \/ d # j.device
    BY <1>5, <2>1 DEF approveLocked, CanAdmit
  <2>3. QED BY <1>5, <2>2 DEF approveLocked, TypeOK
<1>6. QED
  BY <1>1, <1>2, <1>3, <1>4, <1>5
     DEF Next, ConnectMember, RequestJoin, SetOnline, ExpireOfflineMember,
         Approve, ApproveByOwner, Deny, DenyByOwner, denyLocked

\* The owner of a channel loses it only by going offline or to a more senior
\* member that has just come online.
THEOREM OwnerStable == Spec => OwnerYieldsOnlyToSenior
<1> DEFINE Yields ==
      \A k \in Keys :
        (owner[k] # None /\ owner'[k] # owner[k]) =>
          \/ owner[k] \notin online'[k]
          \/ /\ owner'[k] \notin online[k]
             /\ priority[k][owner'[k]] < priority[k][owner[k]]
<1>1. Spec => []Inv
  BY InitInv, NextInv, PTL DEF Spec
<1>2. Inv /\ [Next]_registryVars => [Yields]_registryVars
  <2> SUFFICES ASSUME Inv, [Next]_registryVars,
                      NEW k \in Keys, owner[k] # None, owner'[k] # owner[k],
                      owner[k] \in online'[k]
               PROVE  /\ owner'[k] \notin online[k]
                      /\ priority[k][owner'[k]] < priority[k][owner[k]]
    OBVIOUS
  <2>1. Inv'
    BY NextInv
  <2>2. /\ owner'[k] \in online'[k]
        /\ priority'[k][owner'[k]] < priority'[k][owner[k]]
    BY <2>1 DEF Inv, OwnerIsMostSenior
  <2>3. priority[k][owner'[k]] < priority[k][owner[k]]
    BY <2>2, OnlineKeepPriority
  <2>4. /\ owner[k] \in Devices
        /\ owner'[k] \in Devices
        /\ priority[k] \in [Devices -> Nat]
    BY <2>1, <2>2 DEF Inv, TypeOK
  <2>5. owner'[k] \notin online[k]
    BY <2>3, <2>4 DEF Inv, OwnerIsMostSenior
  <2>6. QED BY <2>3, <2>5
<1>3. QED BY <1>1, <1>2, PTL DEF Spec, OwnerYieldsOnlyToSenior

\* What a step does to the requests: it takes some away, or adds the next one.
LEMMA RequestsGrow ==
  ASSUME Inv, [Next]_registryVars
  PROVE  /\ joinSeq' \in {joinSeq, joinSeq + 1}
         /\ \A k \in Keys : \A j \in pendingJoins'[k] :
              j \in pendingJoins[k] \/ j.seq = joinSeq + 1
<1>1. pendingJoins \in [Keys -> SUBSET Joins]
  BY DEF Inv, TypeOK
<1>2. CASE UNCHANGED <<pendingJoins, joinSeq>>
  BY <1>2
<1>3. ASSUME NEW i \in Keys, NEW d \in Devices, RequestJoin(i, d)
      PROVE  /\ joinSeq' = joinSeq + 1
             /\ \A k \in Keys : \A j \in pendingJoins'[k] :
                  j \in pendingJoins[k] \/ j.seq = joinSeq + 1
  BY <1>1, <1>3 DEF RequestJoin, NextJoin
<1>4. ASSUME NEW i \in Keys, NEW kept \in SUBSET pendingJoins[i],
             pendingJoins' = [pendingJoins EXCEPT ![i] = kept], UNCHANGED joinSeq
      PROVE  /\ joinSeq' = joinSeq
             /\ \A k \in Keys : pendingJoins'[k] \subseteq pendingJoins[k]
  BY <1>1, <1>4
<1>5. ASSUME NEW i \in Keys,
             \/ DeleteChannel(i) \/ \E d \in Devices : CreateChannel(i, d)
      PROVE  /\ pendingJoins' = [pendingJoins EXCEPT ![i] = {}]
             /\ UNCHANGED joinSeq
  BY <1>5 DEF DeleteChannel, CreateChannel
<1>6. ASSUME NEW i \in Keys, NEW j \in pendingJoins[i], approveLocked(i, j)
      PROVE  /\ pendingJoins' = [pendingJoins EXCEPT ![i] =
                                    {h \in pendingJoins[i] : h.device # j.device}]
             /\ UNCHANGED joinSeq
  BY <1>6 DEF approveLocked
<1>7. ASSUME NEW i \in Keys, NEW j \in pendingJoins[i], denyLocked(i, j)
      PROVE  /\ pendingJoins' = [pendingJoins EXCEPT ![i] = pendingJoins[i] \ {j}]
             /\ UNCHANGED joinSeq
  BY <1>7 DEF denyLocked
<1>8. CASE \E i \in Keys : \E d \in Devices : CreateChannel(i, d) \/ RequestJoin(i, d)
  BY <1>3, <1>4, <1>5, <1>8
<1>9. CASE \E i \in Keys : DeleteChannel(i)
  BY <1>4, <1>5, <1>9
<1>10. CASE \E i \in Keys : \E j \in pendingJoins[i] : approveLocked(i, j) \/ denyLocked(i, j)
  BY <1>4, <1>6, <1>7, <1>10
<1>11. CASE UNCHANGED registryVars
  BY <1>2, <1>11 DEF registryVars
<1>12. QED
  BY <1>2, <1>8, <1>9, <1>10, <1>11
     DEF Next, ConnectMember, SetOnline, ExpireOfflineMember, Approve, ApproveByOwner,
         Deny, DenyByOwner

\* A request that is gone stays gone: the next one has another number.
LEMMA GoneRequestStaysGone ==
  ASSUME Inv, [Next]_registryVars, NEW k \in Keys, NEW j \in Joins,
         j.seq <= joinSeq, j \notin pendingJoins[k]
  PROVE  j \notin pendingJoins'[k]
<1>1. joinSeq \in Nat /\ j.seq \in Nat
  BY JoinSeqAssumption DEF Inv, TypeOK, Joins
<1>2. QED BY <1>1, RequestsGrow

\* A request is decided at most once: when it is off the list it never comes back
\* there, however often its device asks again and its channel is made anew.
THEOREM RequestsDecidedOnce == Spec => NoRequestReturns
<1>1. Spec => []Inv
  BY InitInv, NextInv, PTL DEF Spec
<1>2. Inv /\ [Next]_registryVars =>
        [\A k \in Keys, j \in Joins :
           j.seq <= joinSeq /\ j \notin pendingJoins[k] => j \notin pendingJoins'[k]]_registryVars
  BY GoneRequestStaysGone
<1>3. QED BY <1>1, <1>2, PTL DEF Spec, NoRequestReturns
=============================================================================
