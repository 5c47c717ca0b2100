------------------------------ MODULE MCRelay ------------------------------
EXTENDS Relay, TLC
Symmetry == Permutations(Conns) \cup Permutations(Devices)
=============================================================================
