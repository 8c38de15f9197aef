---------------------------- MODULE MCVaultIndex ----------------------------
EXTENDS VaultIndex, TLC

EqualSize == [b \in Bodies |-> 1]
Perms == Permutations(Paths) \cup Permutations(Bodies)
=============================================================================
