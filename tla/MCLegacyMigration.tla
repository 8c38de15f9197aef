--------------------------- MODULE MCLegacyMigration ---------------------------
EXTENDS LegacyMigration, TLC

Perms == Permutations(Ids)
=============================================================================
