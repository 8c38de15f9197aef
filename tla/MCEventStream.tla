---------------------------- MODULE MCEventStream ---------------------------
EXTENDS EventStream, TLC

Perms == Permutations(Vaults) \cup Permutations(Streams)
=============================================================================
