------------------------- MODULE MCNodePreparation -------------------------
(***************************************************************************)
(* The control plane and the nodes' operating system configs together, on  *)
(* the instances of MCControlPlane.                                        *)
(***************************************************************************)
EXTENDS NodePreparation, MCControlPlane
=============================================================================
