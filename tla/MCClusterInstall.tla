-------------------------- MODULE MCClusterInstall ---------------------------
(***************************************************************************)
(* ClusterInstall for TLC.  Hosts are interchangeable, and so are the      *)
(* operators of each type.                                                 *)
(***************************************************************************)
EXTENDS ClusterInstall, TLC

SymmetricHosts == Permutations(Hosts)
=============================================================================
