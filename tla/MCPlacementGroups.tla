------------------------- MODULE MCPlacementGroups --------------------------
(***************************************************************************)
(* The worker delegate on small instances, and the disturbances of each    *)
(* run.                                                                    *)
(***************************************************************************)
EXTENDS PlacementGroups, TLC

Everything == DisturbanceKinds

OnlyPoolChanges == {"changePools"}

Symmetry == Permutations(Pools) \cup Permutations(GroupIDs)
=============================================================================
