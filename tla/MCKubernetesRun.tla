-------------------------- MODULE MCKubernetesRun --------------------------
(***************************************************************************)
(* The bounds are numbers and stand in the cfg.                            *)
(***************************************************************************)
EXTENDS KubernetesRun
=============================================================================
