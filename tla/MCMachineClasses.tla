-------------------------- MODULE MCMachineClasses --------------------------
(***************************************************************************)
(* Machine classes on a small instance: two class names, so that a rolling *)
(* update has a class of an earlier hash.                                  *)
(***************************************************************************)
EXTENDS MachineClasses

Everything == DisturbanceKinds

OldOrOpaque == {"bare", "opaque"}
=============================================================================
