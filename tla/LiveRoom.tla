------------------------------ MODULE LiveRoom ------------------------------
(***************************************************************************)
(* What a channel promises, with no priorities and no identifiers.  A room *)
(* opens for its first guest; other guests ask, and are admitted or        *)
(* refused; admitted guests come and go.  The host is the present guest    *)
(* that was admitted before every other present one.  A room is closed, and*)
(* forgets everybody, only when nobody is present.                         *)
(***************************************************************************)
CONSTANTS Rooms, Guests, Nobody

VARIABLES
  admitted,  \* the guests of each room; an open room has at least one
  before,    \* the pairs of guests of which the first was admitted earlier
  present,   \* the admitted guests that are in the room
  asking,    \* the guests waiting for a decision
  host       \* the guest that decides, Nobody in an empty room

roomVars == <<admitted, before, present, asking, host>>

\* h hosts a room with this order of admission and these guests present.
Hosts(h, order, here) ==
  IF here = {} THEN h = Nobody
               ELSE h \in here /\ \A g \in here \ {h} : <<h, g>> \in order

Init ==
  /\ admitted = [r \in Rooms |-> {}]
  /\ before = [r \in Rooms |-> {}]
  /\ present = [r \in Rooms |-> {}]
  /\ asking = [r \in Rooms |-> {}]
  /\ host = [r \in Rooms |-> Nobody]

Open(r, g) ==
  /\ admitted[r] = {}
  /\ admitted' = [admitted EXCEPT ![r] = {g}]
  /\ UNCHANGED <<before, present, asking, host>>

Ask(r, g) ==
  /\ admitted[r] # {}
  /\ g \notin admitted[r] \cup asking[r]
  /\ asking' = [asking EXCEPT ![r] = @ \cup {g}]
  /\ UNCHANGED <<admitted, before, present, host>>

Admit(r, g) ==
  /\ g \in asking[r] \ admitted[r]
  /\ asking' = [asking EXCEPT ![r] = @ \ {g}]
  /\ admitted' = [admitted EXCEPT ![r] = @ \cup {g}]
  /\ before' = [before EXCEPT ![r] = @ \cup (admitted[r] \X {g})]
  /\ UNCHANGED <<present, host>>

Refuse(r, g) ==
  /\ g \in asking[r]
  /\ asking' = [asking EXCEPT ![r] = @ \ {g}]
  /\ UNCHANGED <<admitted, before, present, host>>

\* A guest enters or leaves, and the room has the host it then must have.
Move(r, here) ==
  /\ here \subseteq admitted[r]
  /\ present' = [present EXCEPT ![r] = here]
  /\ \E h \in Guests \cup {Nobody} :
       Hosts(h, before[r], here) /\ host' = [host EXCEPT ![r] = h]
  /\ UNCHANGED <<admitted, before, asking>>

Enter(r, g) == g \in admitted[r] \ present[r] /\ Move(r, present[r] \cup {g})

Leave(r, g) == g \in present[r] /\ Move(r, present[r] \ {g})

Close(r) ==
  /\ admitted[r] # {}
  /\ \E g \in Guests : present[r] \subseteq {g}  \* who is still there leaves with it
  /\ admitted' = [admitted EXCEPT ![r] = {}]
  /\ before' = [before EXCEPT ![r] = {}]
  /\ present' = [present EXCEPT ![r] = {}]
  /\ asking' = [asking EXCEPT ![r] = {}]
  /\ host' = [host EXCEPT ![r] = Nobody]

Next ==
  \E r \in Rooms :
    \/ Close(r)
    \/ \E g \in Guests : \/ Open(r, g)
                         \/ Ask(r, g)
                         \/ Admit(r, g)
                         \/ Refuse(r, g)
                         \/ Enter(r, g)
                         \/ Leave(r, g)

Spec == Init /\ [][Next]_roomVars
=============================================================================
