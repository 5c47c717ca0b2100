------------------------------- MODULE MCTool -------------------------------
(***************************************************************************)
(* Instances of Tool for TLC.  Two operations, so that one can repeat or   *)
(* overtake the other; two websockets, of which one may be the client's    *)
(* while the relay still works off the other; one request, an ask or a     *)
(* join request; two channels, of two names or of one name and two PINs.   *)
(***************************************************************************)
EXTENDS Tool
=============================================================================
