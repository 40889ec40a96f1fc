----------------------------- MODULE AssetPool -----------------------------
(***************************************************************************)
(* What LibvirtNetworkAssets promises to the test sessions that share a    *)
(* hypervisor: get hands out an asset that conflicts with no asset in the  *)
(* hands of another session, an asset does not change while it is held,    *)
(* and it leaves a session's hands only when this session returns it, or   *)
(* when it fails or is killed.                                             *)
(***************************************************************************)
CONSTANTS
    Procs,
    NoAsset,             \* the session holds nothing
    Conflicting(_, _)    \* two assets that must not be used side by side

VARIABLE held            \* the asset of each session, or NoAsset

Init == held = [p \in Procs |-> NoAsset]

Take(p) ==
    /\ held[p] = NoAsset
    /\ held'[p] # NoAsset
    /\ held' = [held EXCEPT ![p] = held'[p]]
    /\ \A q \in Procs \ {p} : held[q] # NoAsset => ~Conflicting(held'[p], held[q])

Return(p) ==
    /\ held[p] # NoAsset
    /\ held' = [held EXCEPT ![p] = NoAsset]

Next == \E p \in Procs : Take(p) \/ Return(p)

Spec == Init /\ [][Next]_held
=============================================================================
