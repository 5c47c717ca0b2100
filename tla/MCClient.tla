------------------------------ MODULE MCClient ------------------------------
(* Instances of Client for TLC: a few activities of each kind, enough for  *)
(* one that is outdated, one that is current and one that comes next.      *)
EXTENDS Client
=============================================================================
