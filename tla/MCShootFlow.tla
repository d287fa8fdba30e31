----------------------------- MODULE MCShootFlow -----------------------------
(***************************************************************************)
(* Infrastructure and Worker together, with the disturbances under which   *)
(* keys converge.                                                          *)
(***************************************************************************)
EXTENDS ShootFlow

\* All failures, but a key rotates only after the last one was reconciled.
OrderlyDisturbances == {"requestFails", "responseLost", "deleteFails",
                        "cleanupFails", "crash", "rotate", "noSSH"}
=============================================================================
