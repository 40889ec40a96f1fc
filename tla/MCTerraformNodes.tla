-------------------------- MODULE MCTerraformNodes ---------------------------
(***************************************************************************)
(* TerraformNodes for TLC: which names contain which.                      *)
(***************************************************************************)
EXTENDS TerraformNodes, TLC

Reflexive == {<<s, s>> : s \in Sessions}

\* The names of the sessions have nothing in common, the skipped ones are
\* matched by every filter.
DistinctNames == Reflexive \cup (Sessions \X SkipList)

\* Every name contains the name of one session: CLUSTER_NAME=ci and ci-2.
PrefixNames == Reflexive \cup {<<CHOOSE s \in Sessions : TRUE, t>> : t \in Sessions}
=============================================================================
