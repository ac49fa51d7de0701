---------------------------- MODULE MCFilesystem ----------------------------
EXTENDS Filesystem, TLC

CONSTANTS p1, p2, a, b, i1, i2, i3

MCMetas == {[lineage |-> 1, serial |-> 2], [lineage |-> 0, serial |-> 1]}
Symmetry == Permutations(Inode) \cup Permutations(Proc) \cup Permutations(State)
=============================================================================
