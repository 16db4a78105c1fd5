------------------------ MODULE MCEnhancedCollection ------------------------
(* Values for checking EnhancedCollection.                                 *)
EXTENDS EnhancedCollection, TLC

RaidSymmetry == Permutations(Raids)
=============================================================================
