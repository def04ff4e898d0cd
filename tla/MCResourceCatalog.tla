------------------------- MODULE MCResourceCatalog -------------------------
(* ResourceCatalog for TLC.                                                *)
EXTENDS ResourceCatalog, TLC

ThreadSymmetry == Permutations(Threads) \union Permutations(Orgs)
=============================================================================
