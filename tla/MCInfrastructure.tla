-------------------------- MODULE MCInfrastructure --------------------------
(***************************************************************************)
(* The infrastructure actuator on small instances: the disturbances of     *)
(* each run, and the symmetry of keys and network IDs.                     *)
(***************************************************************************)
EXTENDS Infrastructure, TLC

Everything == DisturbanceKinds

OnlyFailingRequests == {"requestFails"}

Symmetry == Permutations(Keys) \cup Permutations(NetworkIDs)
=============================================================================
