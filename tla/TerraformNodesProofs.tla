------------------------ MODULE TerraformNodesProofs -------------------------
(***************************************************************************)
(* Proofs about TerraformNodes, for any number of sessions, attempts and   *)
(* failures of terraform.                                                  *)
(***************************************************************************)
EXTENDS TerraformNodes, TLAPS

\* Initially nothing is listed and no session has done anything.
LEMMA TerraformInitHolds == Init => TerraformIInv
<1> SUFFICES ASSUME Init PROVE TerraformIInv
  OBVIOUS
<1>1. TerraformTypeOK
  BY TerraformAssumption DEF Init, TerraformTypeOK, Resources, Owners, PC, Kinds
<1>2. OnlyInCleanup
  BY DEF Init, OnlyInCleanup
<1>3. ListsAreOwn /\ ReadyNodesStay
  BY DEF Init, ListsAreOwn, ReadyNodesStay
<1>4. CleanupComplete
  BY DEF Init, CleanupComplete, ListedKinds
<1> QED
  BY <1>1, <1>2, <1>3, <1>4 DEF TerraformIInv

\* virsh prints nothing that does not exist.
LEMMA ListedExists ==
  ASSUME NEW s, NEW k
  PROVE  Listed(s, k) \subseteq exists
BY DEF Listed

\* Every step keeps the state well typed.
LEMMA TypePreserved ==
  ASSUME TerraformTypeOK, [Next]_vars
  PROVE  TerraformTypeOK'
<1> USE TerraformAssumption DEF TerraformTypeOK
<1>1. CASE UNCHANGED vars
  BY <1>1 DEF vars
<1>2. ASSUME NEW s \in Sessions, Run(s) \/ crash(s)
      PROVE  TerraformTypeOK'
  <2>1. CASE prepare_nodes(s)
    BY <2>1 DEF prepare_nodes, Goto, PC
  <2>2. ASSUME NEW k \in Kinds, create_resource(s, k) PROVE TerraformTypeOK'
    BY <2>2 DEF create_resource, Fault, Resources, Owners
  <2>3. CASE applySucceeds(s)
    BY <2>3 DEF applySucceeds, Goto, PC
  <2>4. CASE applyFails(s)
    <3>1. faults' \in 0 .. MaxFaults
      BY <2>4 DEF applyFails, Fault
    <3>2. pc' \in [Sessions -> PC] /\ attempts' \in [Sessions -> 1 .. Attempts]
      BY <2>4 DEF applyFails, PC
    <3> QED
      BY <2>4, <3>1, <3>2 DEF applyFails
  <2>5. CASE try_to_delete_nodes(s)
    BY <2>5 DEF try_to_delete_nodes, Fault, PC
  <2>6. CASE clean_virsh_resources(s)
    BY <2>6, ListedExists DEF clean_virsh_resources, Goto, PC
  <2>7. CASE clean_one(s)
    BY <2>7 DEF clean_one
  <2>8. CASE clean_pools(s) \/ clean_networks(s)
    BY <2>8, ListedExists DEF clean_pools, clean_networks, clean_next, Goto, PC
  <2>9. CASE leaveLock(s)
    BY <2>9 DEF leaveLock, Goto, PC
  <2>10. CASE remove_state(s)
    BY <2>10 DEF remove_state, Goto, PC
  <2>11. CASE crash(s)
    BY <2>11 DEF crash, PC
  <2> QED
    BY <1>2, <2>1, <2>2, <2>3, <2>4, <2>5, <2>6, <2>7, <2>8, <2>9, <2>10, <2>11 DEF Run
<1> QED
  BY <1>1, <1>2 DEF Next
-----------------------------------------------------------------------------
\* Only a session in the cleanup has a list.
LEMMA OnlyInCleanupPreserved ==
  ASSUME TerraformTypeOK, OnlyInCleanup, [Next]_vars
  PROVE  OnlyInCleanup'
<1> USE DEF TerraformTypeOK, OnlyInCleanup, Cleaning
<1>1. CASE UNCHANGED vars
  BY <1>1 DEF vars
<1>2. ASSUME NEW s \in Sessions, Run(s) \/ crash(s)
      PROVE  OnlyInCleanup'
  <2>1. CASE prepare_nodes(s)
    BY <2>1 DEF prepare_nodes, Goto
  <2>2. ASSUME NEW k \in Kinds, create_resource(s, k) PROVE OnlyInCleanup'
    BY <2>2 DEF create_resource
  <2>3. CASE applySucceeds(s) \/ applyFails(s)
    BY <2>3 DEF applySucceeds, applyFails, Goto
  <2>4. CASE try_to_delete_nodes(s)
    BY <2>4 DEF try_to_delete_nodes
  <2>5. CASE clean_virsh_resources(s)
    BY <2>5 DEF clean_virsh_resources, Goto
  <2>6. CASE clean_one(s)
    BY <2>6 DEF clean_one
  <2>7. CASE clean_pools(s) \/ clean_networks(s)
    BY <2>7 DEF clean_pools, clean_networks, clean_next, Goto
  <2>8. CASE leaveLock(s) \/ remove_state(s)
    BY <2>8 DEF leaveLock, remove_state, Goto
  <2>9. CASE crash(s)
    BY <2>9 DEF crash
  <2> QED
    BY <1>2, <2>1, <2>2, <2>3, <2>4, <2>5, <2>6, <2>7, <2>8, <2>9 DEF Run
<1> QED
  BY <1>1, <1>2 DEF Next

\* If no name contains another one, virsh lists what the session owns.
LEMMA ListedIsOwn ==
  ASSUME TerraformTypeOK, NamesDistinct, NEW s \in Sessions, NEW k \in Kinds
  PROVE  Listed(s, k) \subseteq ({s} \cup SkipList) \X Kinds
<1> SUFFICES ASSUME NEW r \in Listed(s, k)
             PROVE  r \in ({s} \cup SkipList) \X Kinds
  OBVIOUS
<1>1. r \in exists /\ r \in Owners \X Kinds
  BY DEF Listed, TerraformTypeOK, Resources
<1>2. <<s, r[1]>> \in Contains
  BY DEF Listed
<1>3. r[1] \in Sessions => r[1] = s
  BY <1>2 DEF NamesDistinct
<1> QED
  BY <1>1, <1>3 DEF Owners

\* A list stays within what the session owns.
LEMMA ListsAreOwnPreserved ==
  ASSUME TerraformTypeOK, NamesDistinct, ListsAreOwn, [Next]_vars
  PROVE  ListsAreOwn'
<1> USE DEF ListsAreOwn
<1>1. CASE UNCHANGED vars
  BY <1>1 DEF vars
<1>2. ASSUME NEW s \in Sessions, Run(s) \/ crash(s)
      PROVE  ListsAreOwn'
  <2>1. CASE UNCHANGED listed
    BY <2>1
  <2>2. ASSUME NEW k \in Kinds, listed' = [listed EXCEPT ![s] = Listed(s, k)]
        PROVE  ListsAreOwn'
    BY <2>2, ListedIsOwn DEF TerraformTypeOK
  <2>3. CASE clean_one(s)
    BY <2>3 DEF clean_one, TerraformTypeOK
  <2>4. CASE crash(s)
    BY <2>4 DEF crash, TerraformTypeOK
  <2>5. CASE clean_virsh_resources(s) \/ clean_pools(s) \/ clean_networks(s)
    BY <2>5, <2>2 DEF clean_virsh_resources, clean_pools, clean_networks, clean_next, Kinds
  <2>6. ASSUME NEW k \in Kinds, create_resource(s, k) PROVE ListsAreOwn'
    BY <2>6 DEF create_resource
  <2> QED
    BY <1>2, <2>1, <2>3, <2>4, <2>5, <2>6
    DEF Run, prepare_nodes, applySucceeds, applyFails, try_to_delete_nodes, leaveLock, remove_state
<1> QED
  BY <1>1, <1>2 DEF Next

\* What a session takes away from the hypervisor is its own.
LEMMA OnlyOwnGoes ==
  ASSUME TerraformTypeOK, ListsAreOwn, NEW s \in Sessions, Run(s) \/ crash(s)
  PROVE  exists \ exists' \subseteq {s} \X Kinds
<1>1. CASE try_to_delete_nodes(s)
  BY <1>1 DEF try_to_delete_nodes, TerraformTypeOK
<1>2. CASE clean_one(s)
  <2>1. PICK r \in listed[s] : exists' = exists \/ (r[1] \notin SkipList /\ exists' = exists \ {r})
    BY <1>2 DEF clean_one
  <2>2. r \in ({s} \cup SkipList) \X Kinds
    BY <2>1 DEF ListsAreOwn
  <2> QED
    BY <2>1, <2>2
<1>3. ASSUME NEW k \in Kinds, create_resource(s, k) PROVE exists \ exists' = {}
  BY <1>3 DEF create_resource
<1> QED
  BY <1>1, <1>2, <1>3
  DEF Run, prepare_nodes, applySucceeds, applyFails, clean_virsh_resources, clean_pools,
      clean_networks, clean_next, leaveLock, remove_state, crash

\* The nodes of a ready session stay.
LEMMA ReadyNodesStayPreserved ==
  ASSUME TerraformTypeOK, ListsAreOwn, ReadyNodesStay, [Next]_vars
  PROVE  ReadyNodesStay'
<1>1. CASE UNCHANGED vars
  BY <1>1 DEF vars, ReadyNodesStay
<1>2. ASSUME NEW s \in Sessions, Run(s) \/ crash(s)
      PROVE  ReadyNodesStay'
  <2>1. exists \ exists' \subseteq {s} \X Kinds
    BY <1>2, OnlyOwnGoes
  <2>2. SkipList \X Kinds \subseteq exists'
    <3>1. SkipList \cap Sessions = {}
      BY TerraformAssumption
    <3> QED
      BY <2>1, <3>1 DEF ReadyNodesStay
  <2>3. ASSUME NEW t \in Sessions, pc'[t] = "ready"
        PROVE  {t} \X Kinds \subseteq exists'
    <3>1. CASE t # s
      <4>1. pc'[t] = pc[t]
        BY <1>2, <3>1
        DEF Run, prepare_nodes, create_resource, applySucceeds, applyFails, try_to_delete_nodes,
            clean_virsh_resources, clean_one, clean_pools, clean_networks, clean_next, leaveLock,
            remove_state, crash, Goto, TerraformTypeOK
      <4> QED
        BY <2>1, <2>3, <3>1, <4>1 DEF ReadyNodesStay
    <3>2. CASE t = s /\ applySucceeds(s)
      BY <3>2 DEF applySucceeds
    <3>3. CASE t = s /\ ~applySucceeds(s)
      \* Any other step leads elsewhere, or does not start from ready.
      BY <1>2, <2>3, <3>3
      DEF Run, prepare_nodes, create_resource, applyFails, try_to_delete_nodes,
          clean_virsh_resources, clean_one, clean_pools, clean_networks, clean_next, leaveLock,
          remove_state, crash, Goto, TerraformTypeOK, Cleaning
    <3> QED
      BY <3>1, <3>2, <3>3
  <2> QED
    BY <2>2, <2>3 DEF ReadyNodesStay
<1> QED
  BY <1>1, <1>2 DEF Next

\* With all sessions on the local hypervisor virsh lists all a session owns.
LEMMA ListedIsComplete ==
  ASSUME Sessions \subseteq Local, NEW s \in Sessions, NEW k \in Kinds, <<s, k>> \in exists
  PROVE  <<s, k>> \in Listed(s, k)
BY TerraformAssumption DEF Listed

\* The cleanup of a session leaves out nothing.
LEMMA CleanupCompletePreserved ==
  ASSUME TerraformTypeOK, Sessions \subseteq Local, OnlyInCleanup, CleanupComplete, [Next]_vars
  PROVE  CleanupComplete'
<1>1. CASE UNCHANGED vars
  BY <1>1 DEF vars, CleanupComplete, ListedKinds
<1>2. ASSUME NEW s \in Sessions, Run(s) \/ crash(s)
      PROVE  CleanupComplete'
  <2> SUFFICES ASSUME NEW t \in Sessions, NEW k \in ListedKinds(t)', <<t, k>> \in exists'
               PROVE  <<t, k>> \in listed'[t] \cup missed'
    BY DEF CleanupComplete
  <2>0. k \in Kinds
    BY DEF ListedKinds, Kinds
  <2>1. missed \subseteq missed'
    BY <1>2
    DEF Run, prepare_nodes, create_resource, applySucceeds, applyFails, try_to_delete_nodes,
        clean_virsh_resources, clean_one, clean_pools, clean_networks, clean_next, leaveLock,
        remove_state, crash
  <2>2. CASE t # s
    <3>1. pc'[t] = pc[t] /\ listed'[t] = listed[t]
      BY <1>2, <2>2
      DEF Run, prepare_nodes, create_resource, applySucceeds, applyFails, try_to_delete_nodes,
          clean_virsh_resources, clean_one, clean_pools, clean_networks, clean_next, leaveLock,
          remove_state, crash, Goto, TerraformTypeOK
    <3>2. <<t, k>> \in exists
      <4>1. ASSUME NEW j \in Kinds, create_resource(s, j) PROVE <<t, k>> \in exists
        <5>1. exists' = exists \cup {<<s, j>>}
          BY <4>1 DEF create_resource
        <5> QED
          BY <2>2, <5>1
      <4>2. CASE try_to_delete_nodes(s)
        BY <4>2 DEF try_to_delete_nodes
      <4>3. CASE clean_one(s)
        BY <4>3 DEF clean_one
      <4>4. CASE \/ prepare_nodes(s) \/ applySucceeds(s) \/ applyFails(s)
                 \/ clean_virsh_resources(s) \/ clean_pools(s) \/ clean_networks(s)
                 \/ leaveLock(s) \/ remove_state(s) \/ crash(s)
        BY <4>4
        DEF prepare_nodes, applySucceeds, applyFails, clean_virsh_resources, clean_pools,
            clean_networks, clean_next, leaveLock, remove_state, crash
      <4> QED
        BY <1>2, <4>1, <4>2, <4>3, <4>4 DEF Run
    <3>3. k \in ListedKinds(t)
      BY <3>1 DEF ListedKinds
    <3> QED
      BY <2>1, <3>1, <3>2, <3>3 DEF CleanupComplete
  <2>3. CASE t = s
    <3>1. CASE prepare_nodes(s) \/ applySucceeds(s) \/ applyFails(s) \/ try_to_delete_nodes(s)
                 \/ crash(s)
      <4>1. pc'[s] \in {"apply", "ready", "raised", "clean", "killed"}
        BY <3>1
        DEF prepare_nodes, applySucceeds, applyFails, try_to_delete_nodes, crash, Goto,
            TerraformTypeOK
      <4> QED
        BY <2>3, <4>1 DEF ListedKinds
    <3>2. ASSUME NEW j \in Kinds, create_resource(s, j) PROVE FALSE
      BY <2>3, <3>2 DEF create_resource, ListedKinds
    <3>3. CASE clean_virsh_resources(s)
      <4>1. /\ pc'[s] = "domains" /\ exists' = exists
            /\ listed'[s] = Listed(s, "domain")
        BY <3>3 DEF clean_virsh_resources, Goto, TerraformTypeOK
      <4>2. k = "domain"
        BY <2>3, <4>1 DEF ListedKinds
      <4> QED
        BY <2>0, <2>3, <4>1, <4>2, ListedIsComplete
    <3>4. CASE clean_one(s)
      <4>1. pc' = pc /\ \E r \in listed[s] :
                /\ listed' = [listed EXCEPT ![s] = @ \ {r}]
                /\ \/ r[1] \in SkipList /\ exists' = exists /\ missed' = missed
                   \/ exists' = exists \ {r} /\ missed' = missed
                   \/ exists' = exists /\ missed' = missed \cup {r}
        BY <3>4 DEF clean_one
      <4>2. k \in ListedKinds(s) /\ <<s, k>> \in exists
        BY <2>3, <4>1 DEF ListedKinds
      <4>3. <<s, k>> \in listed[s] \cup missed
        BY <4>2 DEF CleanupComplete
      <4>4. <<s, k>>[1] \notin SkipList
        BY TerraformAssumption
      <4> QED
        BY <2>3, <4>1, <4>3, <4>4 DEF TerraformTypeOK
    <3>5. CASE clean_pools(s)
      <4>1. /\ pc[s] = "domains" /\ pc'[s] = "pools" /\ exists' = exists /\ missed' = missed
            /\ listed[s] = {} /\ listed'[s] = Listed(s, "pool")
        BY <3>5 DEF clean_pools, clean_next, Goto, TerraformTypeOK
      <4>2. k = "pool" \/ k \in ListedKinds(s)
        BY <2>3, <4>1 DEF ListedKinds
      <4> QED
        BY <2>0, <2>3, <4>1, <4>2, ListedIsComplete DEF CleanupComplete
    <3>6. CASE clean_networks(s)
      <4>1. /\ pc[s] = "pools" /\ pc'[s] = "networks" /\ exists' = exists /\ missed' = missed
            /\ listed[s] = {} /\ listed'[s] = Listed(s, "network")
        BY <3>6 DEF clean_networks, clean_next, Goto, TerraformTypeOK
      <4>2. k = "network" \/ k \in ListedKinds(s)
        BY <2>0, <4>1 DEF ListedKinds, Kinds
      <4> QED
        BY <2>0, <2>3, <4>1, <4>2, ListedIsComplete DEF CleanupComplete
    <3>7. CASE leaveLock(s) \/ remove_state(s)
      <4>1. /\ pc[s] \in {"networks", "remove_state"}
            /\ exists' = exists /\ missed' = missed /\ listed' = listed
        BY <3>7 DEF leaveLock, remove_state, Goto
      <4>2. k \in ListedKinds(s)
        BY <2>0, <4>1 DEF ListedKinds
      <4> QED
        BY <2>3, <4>1, <4>2 DEF CleanupComplete
    <3> QED
      BY <1>2, <3>1, <3>2, <3>3, <3>4, <3>5, <3>6, <3>7 DEF Run
  <2> QED
    BY <2>2, <2>3
<1> QED
  BY <1>1, <1>2 DEF Next
-----------------------------------------------------------------------------
\* The inductive invariant holds in every reachable state.
LEMMA TerraformInvariant == Spec => []TerraformIInv
<1>1. TerraformIInv /\ [Next]_vars => TerraformIInv'
  <2> SUFFICES ASSUME TerraformIInv, [Next]_vars PROVE TerraformIInv'
    OBVIOUS
  <2>1. TerraformTypeOK' /\ OnlyInCleanup'
    BY TypePreserved, OnlyInCleanupPreserved DEF TerraformIInv
  <2>2. ASSUME NamesDistinct PROVE ListsAreOwn' /\ ReadyNodesStay'
    BY <2>2, ListsAreOwnPreserved, ReadyNodesStayPreserved DEF TerraformIInv
  <2>3. ASSUME Sessions \subseteq Local PROVE CleanupComplete'
    BY <2>3, CleanupCompletePreserved DEF TerraformIInv
  <2>4. NamesDistinct' = NamesDistinct
    BY DEF NamesDistinct
  <2> QED
    BY <2>1, <2>2, <2>3, <2>4 DEF TerraformIInv
<1> QED
  BY <1>1, TerraformInitHolds, PTL DEF Spec

(***************************************************************************)
(* The state is well typed: in particular apply never goes below its last  *)
(* attempt (TerraformUtils.apply).                                         *)
(***************************************************************************)
THEOREM TerraformTypeCorrect == Spec => []TerraformTypeOK
<1>1. TerraformIInv => TerraformTypeOK
  BY DEF TerraformIInv
<1> QED
  BY <1>1, TerraformInvariant, PTL

(***************************************************************************)
(* If no session's name contains another's, a teardown never takes nodes   *)
(* of a session that is ready (clean_virsh_resources and its grep).        *)
(***************************************************************************)
THEOREM ReadyNodesAreKept ==
  ASSUME NamesDistinct
  PROVE  Spec => []ReadyNodesStay
<1>1. TerraformIInv => ReadyNodesStay
  BY DEF TerraformIInv
<1> QED
  BY <1>1, TerraformInvariant, PTL

(***************************************************************************)
(* On the local hypervisor destroy_all_nodes leaves nothing of a session   *)
(* but what virsh failed to delete, whatever terraform did before.         *)
(***************************************************************************)
THEOREM DestroyIsComplete ==
  ASSUME Sessions \subseteq Local
  PROVE  Spec => []DestroyedLeavesNothing
<1>1. TerraformIInv => DestroyedLeavesNothing
  <2> SUFFICES ASSUME TerraformIInv, NEW s \in Sessions, pc[s] = "done",
                      NEW k \in Kinds, <<s, k>> \in exists
               PROVE  <<s, k>> \in missed
    BY DEF DestroyedLeavesNothing
  <2>1. listed[s] = {}
    BY DEF TerraformIInv, OnlyInCleanup, Cleaning
  <2>2. <<s, k>> \in listed[s] \cup missed
    BY DEF TerraformIInv, CleanupComplete, ListedKinds
  <2> QED
    BY <2>1, <2>2
<1> QED
  BY <1>1, TerraformInvariant, PTL
=============================================================================
