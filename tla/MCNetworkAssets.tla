-------------------------- MODULE MCNetworkAssets --------------------------
(* Instances of NetworkAssets for TLC. *)
EXTENDS NetworkAssets, TLC

Net(fam, lo, size) == [fam |-> fam, lo |-> lo, size |-> size]

\* The default asset: tt1 and stt1, and next to each machine network the
\* provisioning one, so that moving one of them up meets the other.
DefaultAsset ==
    [cidr |-> <<Net(4, 0, 4), Net(6, 0, 4), Net(4, 8, 4), Net(6, 4, 4)>>,
     bridge |-> [primary |-> [prefix |-> "tt", index |-> 1],
                 secondary |-> [prefix |-> "stt", index |-> 1]]]

SameAsset == [p \in Procs |-> DefaultAsset]

\* One session asks, with MACHINE_CIDR_IPV4, for a larger machine network that
\* contains the default one.
MixedPrefixes ==
    [p \in Procs |-> IF p = CHOOSE q \in Procs : TRUE
                     THEN DefaultAsset ELSE [DefaultAsset EXCEPT !.cidr[1].size = 16]]

Symmetric == Permutations(Procs)
=============================================================================
