------------------------------ MODULE Courier -------------------------------
(***************************************************************************)
(* What the extension promises the agent about an operation that asks the  *)
(* relay for something: the relay does it at most once, and the result     *)
(* never claims more than is known.  "ok": it is done; "failed": it is not *)
(* done and never will be; "unknown": delivery_unknown, decision_unknown.  *)
(***************************************************************************)
EXTENDS Naturals

CONSTANT Ops

VARIABLES
  done,    \* how often each operation was carried out
  result   \* what was reported of it

vars == <<done, result>>

Init == done = [o \in Ops |-> 0] /\ result = [o \in Ops |-> "none"]

CarryOut(o) ==
  /\ done[o] = 0 /\ result[o] # "failed"
  /\ done' = [done EXCEPT ![o] = 1]
  /\ UNCHANGED result

Honest(o) == {"unknown", IF done[o] = 1 THEN "ok" ELSE "failed"}

\* One event may settle several operations: the loss of a connection does.
Report ==
  /\ result' \in [Ops -> {"none", "ok", "failed", "unknown"}]
  /\ \A o \in Ops : result'[o] # result[o] => result[o] = "none" /\ result'[o] \in Honest(o)
  /\ UNCHANGED done

Next == Report \/ \E o \in Ops : CarryOut(o)

Spec == Init /\ [][Next]_vars
=============================================================================
