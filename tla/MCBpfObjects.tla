---------------------------- MODULE MCBpfObjects ----------------------------
EXTENDS BpfObjects, TLC
MCMaxId == [map |-> 1, prog |-> 2]
Symmetry == Permutations(Thread)
=============================================================================
