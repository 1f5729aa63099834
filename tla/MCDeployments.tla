--------------------------- MODULE MCDeployments ----------------------------
(***************************************************************************)
(* Small instances of Deployments.                                         *)
(***************************************************************************)
EXTENDS Deployments
=============================================================================
