-------------------------- MODULE HypervisorProofs --------------------------
(***************************************************************************)
(* Proofs about a hypervisor and the nodes on it: first the devices of a   *)
(* libvirt node and the controllers of other platforms, one inductive      *)
(* invariant for each, then the theorems about the specification that      *)
(* takes all the parts together.                                           *)
(***************************************************************************)
EXTENDS MCHypervisor, HostProofs, FileLockProofs, SequenceTheorems

(***************************************************************************)
(* terraform nodes: TFController, vSphere and Nutanix.                     *)
(***************************************************************************)
LEMMA TfInitHolds == TfInit => TfIInv
<1> SUFFICES ASSUME TfInit PROVE TfIInv
  OBVIOUS
<1>1. Len(TfVms) \in Nat /\ MaxTfFaults \in Nat
  BY TfAssumption
<1>2. tfAt \in 1..Len(TfVms) + 1 /\ tfFaults \in 0..MaxTfFaults
  BY <1>1 DEF TfInit
<1>3. TfTypeOK
  BY <1>2 DEF TfInit, TfTypeOK
<1> QED
  BY <1>3 DEF TfInit, TfIInv, TasksAreOfLoops, LoopIsEffective, TfOperationTookEffect, TfLoops

\* A loop goes over all machines, and what it has done to one it does not undo.
LEMMA TfStep == TfIInv /\ [TfNext]_tfVars => TfIInv'
<1> SUFFICES ASSUME TfIInv, [TfNext]_tfVars PROVE TfIInv'
  OBVIOUS
<1>0. /\ Len(TfVms) \in Nat /\ MaxTfFaults \in Nat
      /\ \A i \in 1..Len(TfVms) : TfVms[i] \in TfVm
      /\ \A v \in TfVm : \E i \in 1..Len(TfVms) : v = TfVms[i]
  BY TfAssumption DEF TfVm
<1> USE <1>0 DEF TfIInv, TfTypeOK, TasksAreOfLoops, LoopIsEffective, TfOperationTookEffect, TfLoops
<1>1. CASE UNCHANGED tfVars               BY <1>1 DEF tfVars
<1>2. CASE tf_prepare_nodes               BY <1>2 DEF tf_prepare_nodes
<1>3. ASSUME NEW op \in TfLoops, tf_begin(op) PROVE TfIInv'
  <2>0. tfTask' # "running" /\ tfAt' \in 1..Len(TfVms) + 1
    BY <1>3 DEF tf_begin, TfResting
  <2>1. TfTypeOK' /\ TasksAreOfLoops'
    <3>1. tfPc' \in TfLoops /\ (tfPc' = "notify" => tfProvider' = "vsphere") /\ tfSpoiled' = FALSE
      BY <1>3 DEF tf_begin
    <3> QED
      BY <1>3, <2>0, <3>1 DEF tf_begin
  <2>2. tfAt' = 1 /\ tfPc' \in TfLoops
    BY <1>3 DEF tf_begin
  <2>3. LoopIsEffective' /\ TfOperationTookEffect'
    BY <2>2
  <2> QED
    BY <2>1, <2>3
<1>4. CASE run_on_vm                      BY <1>4 DEF run_on_vm
<1>5. CASE task_over
  <2>0. /\ tfPc \in TfLoops /\ tfAt \in 1..Len(TfVms) /\ tfTask' = "none" /\ tfAt' = tfAt + 1
        /\ UNCHANGED <<tfProvider, tfPc, tfIso>> /\ TfVms[tfAt] \in TfVm
    BY <1>5 DEF task_over
  <2>1. tfFaults' \in 0..MaxTfFaults
    BY <1>5 DEF task_over
  <2>2. tfPower' \in [TfVm -> BOOLEAN] /\ tfSpoiled' \in BOOLEAN
    BY <1>5 DEF task_over
  <2>3. TfTypeOK' /\ TasksAreOfLoops' /\ TfOperationTookEffect'
    BY <2>0, <2>1, <2>2
  <2>4. ASSUME ~tfSpoiled' PROVE ~tfSpoiled /\ tfPower' = [tfPower EXCEPT ![TfVms[tfAt]] = (tfPc = "start")]
    BY <1>5, <2>4 DEF task_over
  <2>5. ASSUME NEW i \in 1..Len(TfVms), i < tfAt' PROVE i < tfAt \/ i = tfAt
    BY <2>0, <2>5
  <2>6. LoopIsEffective'
    BY <2>0, <2>4, <2>5
  <2> QED
    BY <2>3, <2>6
<1>6. CASE nutanix_power
  <2>0. /\ tfProvider = "nutanix" /\ tfPc \in TfLoops /\ tfAt \in 1..Len(TfVms) /\ tfAt' = tfAt + 1
        /\ UNCHANGED <<tfProvider, tfPc, tfTask, tfIso, tfSpoiled, tfFaults>> /\ TfVms[tfAt] \in TfVm
    BY <1>6 DEF nutanix_power
  <2>1. tfPower' = [tfPower EXCEPT ![TfVms[tfAt]] = (tfPc = "start") \/ tfPower[TfVms[tfAt]]]
    BY <1>6 DEF nutanix_power
  <2>2. TfTypeOK' /\ TasksAreOfLoops' /\ TfOperationTookEffect'
    BY <2>0, <2>1
  <2>3. ASSUME NEW i \in 1..Len(TfVms), i < tfAt' PROVE i < tfAt \/ i = tfAt
    BY <2>0, <2>3
  <2>4. LoopIsEffective'
    BY <2>0, <2>1, <2>3
  <2> QED
    BY <2>2, <2>4
<1>7. CASE tf_loop_over                   BY <1>7 DEF tf_loop_over
<1>8. CASE notify_iso_ready               BY <1>8 DEF notify_iso_ready
<1>9. CASE tf_destroy_all_nodes           BY <1>9 DEF tf_destroy_all_nodes, TfResting
<1> QED
  BY <1>1, <1>2, <1>3, <1>4, <1>5, <1>6, <1>7, <1>8, <1>9 DEF TfNext
-----------------------------------------------------------------------------
(***************************************************************************)
(* KVM on s390x.                                                           *)
(***************************************************************************)

\* Taking one element out of a sequence keeps the others.
LEMMA RemoveAtKeeps ==
    ASSUME NEW S, NEW seq \in Seq(S), NEW i \in 1..Len(seq)
    PROVE  /\ RemoveAt(seq, i) \in Seq(S) /\ Len(RemoveAt(seq, i)) = Len(seq) - 1
           /\ Range(seq) \subseteq Range(RemoveAt(seq, i)) \cup {seq[i]}
<1> DEFINE rest == RemoveAt(seq, i)
           before == SubSeq(seq, 1, i - 1)
           after == SubSeq(seq, i + 1, Len(seq))
<1>0. Len(seq) \in Nat /\ i \in Int /\ \A k \in 1..Len(seq) : seq[k] \in S
  OBVIOUS
<1>1. before \in Seq(S) /\ Len(before) = i - 1 /\ \A k \in 1..i - 1 : before[k] = seq[k]
  <2>1. before \in Seq(S) /\ Len(before) = (IF 1 <= i - 1 THEN i - 1 - 1 + 1 ELSE 0)
        /\ \A k \in 1..(i - 1) - 1 + 1 : before[k] = seq[1 + k - 1]
    BY <1>0, SubSeqProperties
  <2> HIDE DEF before
  <2> QED
    BY <1>0, <2>1
<1>2. after \in Seq(S) /\ Len(after) = Len(seq) - i /\ \A k \in 1..Len(seq) - i : after[k] = seq[i + k]
  <2>1. after \in Seq(S) /\ Len(after) = (IF i + 1 <= Len(seq) THEN Len(seq) - (i + 1) + 1 ELSE 0)
        /\ \A k \in 1..Len(seq) - (i + 1) + 1 : after[k] = seq[(i + 1) + k - 1]
    BY <1>0, SubSeqProperties
  <2> HIDE DEF after
  <2> QED
    BY <1>0, <2>1
<1>3. /\ rest \in Seq(S) /\ Len(rest) = Len(before) + Len(after)
      /\ \A k \in 1..Len(before) + Len(after) :
            rest[k] = IF k <= Len(before) THEN before[k] ELSE after[k - Len(before)]
  BY <1>1, <1>2, ConcatProperties DEF RemoveAt
<1> HIDE DEF rest, before, after
<1>4. ASSUME NEW j \in 1..Len(seq), j < i PROVE rest[j] = seq[j]
  <2>1. j \in 1..i - 1 /\ j \in 1..Len(before) + Len(after) /\ j <= Len(before)
    BY <1>0, <1>1, <1>2, <1>4
  <2>2. rest[j] = before[j]
    BY <1>3, <2>1
  <2> QED
    BY <1>1, <2>1, <2>2
<1>5. ASSUME NEW j \in 1..Len(seq), j > i PROVE rest[j - 1] = seq[j]
  <2>1. j - 1 \in 1..Len(before) + Len(after) /\ ~(j - 1 <= Len(before)) /\ j - 1 - Len(before) = j - i
    BY <1>0, <1>1, <1>2, <1>5
  <2>2. rest[j - 1] = after[j - i]
    BY <1>3, <2>1
  <2>3. j - i \in 1..Len(seq) - i /\ i + (j - i) = j
    BY <1>0, <1>5
  <2>4. after[j - i] = seq[i + (j - i)]
    BY <1>2, <2>3
  <2> QED
    BY <2>2, <2>3, <2>4
<1>6. ASSUME NEW j \in 1..Len(seq), j # i PROVE seq[j] \in Range(rest)
  <2>1. DOMAIN rest = 1..Len(seq) - 1
    BY <1>0, <1>1, <1>2, <1>3
  <2>2. CASE j < i
    BY <1>3, <1>4, <2>1, <2>2 DEF Range
  <2>3. CASE j > i
    <3>1. j - 1 \in DOMAIN rest
      BY <2>1, <2>3
    <3> QED
      BY <1>5, <2>3, <3>1 DEF Range
  <2> QED
    BY <1>6, <2>2, <2>3
<1>7. Range(seq) \subseteq Range(rest) \cup {seq[i]}
  <2>1. DOMAIN seq = 1..Len(seq)
    OBVIOUS
  <2> QED
    BY <1>6, <2>1 DEF Range
<1> QED
  BY <1>0, <1>1, <1>2, <1>3, <1>7 DEF rest

\* The list of the domains of the machine has every node.
LEMMA ListHasGuests ==
    /\ Guests \o Others \in Seq(KvmDomain) /\ Len(Guests \o Others) = Len(Guests) + Len(Others)
    /\ Guest \subseteq Range(Guests \o Others)
    /\ Len(Guests) \in Nat /\ Len(Others) \in Nat
<1>1. /\ Guests \in Seq(KvmDomain) /\ Others \in Seq(KvmDomain)
      /\ DOMAIN Guests = 1..Len(Guests) /\ Len(Guests) \in Nat /\ Len(Others) \in Nat
  BY KvmAssumption DEF KvmDomain, Guest
<1>2. /\ Guests \o Others \in Seq(KvmDomain) /\ Len(Guests \o Others) = Len(Guests) + Len(Others)
      /\ \A i \in 1..Len(Guests) + Len(Others) :
           (Guests \o Others)[i] = IF i <= Len(Guests) THEN Guests[i] ELSE Others[i - Len(Guests)]
  BY <1>1, ConcatProperties
<1>3. DOMAIN (Guests \o Others) = 1..Len(Guests) + Len(Others)
  BY <1>2
<1>4. ASSUME NEW i \in DOMAIN Guests PROVE Guests[i] \in Range(Guests \o Others)
  <2>1. i \in DOMAIN (Guests \o Others) /\ (Guests \o Others)[i] = Guests[i]
    BY <1>1, <1>2, <1>3
  <2> QED
    BY <2>1 DEF Range
<1> QED
  BY <1>1, <1>2, <1>4 DEF Guest, Range

LEMMA KvmInitHolds == KvmInit => KvmIInv
<1> SUFFICES ASSUME KvmInit PROVE KvmIInv
  OBVIOUS
<1>0. kvmIndex \in 1..Len(Guests) + Len(Others) + 1
  BY ListHasGuests DEF KvmInit
<1>1. KvmTypeOK
  <2>1. kvmDom \in [KvmDomain -> {"absent", "off", "installing", "rebooted", "running"}]
    BY DEF KvmInit
  <2>2. kvmDomains \in Seq(KvmDomain)
    BY EmptySeq DEF KvmInit
  <2>3. kvmPc = "idle" /\ kvmFound \in BOOLEAN
    BY DEF KvmInit
  <2> QED
    BY <1>0, <2>1, <2>2, <2>3 DEF KvmTypeOK
<1>2. \A d \in Range(Others) : kvmDom[d] = "off"
  BY KvmAssumption DEF KvmInit, KvmDomain, Guest
<1> QED
  BY <1>1, <1>2 DEF KvmInit, KvmIInv, ListHasTheRest, KvmWaitIsComplete

\* A pass that has seen no node has seen the whole list.
LEMMA KvmStep == KvmIInv /\ [KvmNext]_kvmVars => KvmIInv'
<1> SUFFICES ASSUME KvmIInv, [KvmNext]_kvmVars PROVE KvmIInv'
  OBVIOUS
<1>0. /\ Len(Guests) \in Nat /\ Len(Others) \in Nat
      /\ Guest \subseteq KvmDomain /\ Range(Others) \subseteq KvmDomain /\ Guest \cap Range(Others) = {}
  BY ListHasGuests, KvmAssumption DEF KvmDomain, Guest
<1> USE <1>0 DEF KvmIInv, KvmTypeOK, ListHasTheRest, KvmWaitIsComplete
<1>1. CASE UNCHANGED kvmVars                    BY <1>1 DEF kvmVars
<1>2. CASE kvm_prepare_nodes                    BY <1>2 DEF kvm_prepare_nodes
<1>3. CASE kvm_shutdown_all_nodes               BY <1>3 DEF kvm_shutdown_all_nodes
<1>4. CASE remove_all_nodes                     BY <1>4 DEF remove_all_nodes
<1>5. CASE kvm_create_nodes                     BY <1>5 DEF kvm_create_nodes
<1>6. CASE check_vms_for_first_reboot_and_start
  <2>1. /\ kvmDomains' \in Seq(KvmDomain) /\ Len(kvmDomains') = Len(Guests) + Len(Others)
        /\ Guest \subseteq Range(kvmDomains')
    BY <1>6, ListHasGuests DEF check_vms_for_first_reboot_and_start
  <2>2. kvmIndex' = 1 /\ kvmFound' = FALSE /\ kvmPc' = "pass" /\ kvmDom' = kvmDom
    BY <1>6 DEF check_vms_for_first_reboot_and_start
  <2>3. kvmIndex' \in 1..Len(Guests) + Len(Others) + 1 /\ \A i \in 1..Len(kvmDomains') : ~(i < kvmIndex')
    BY <2>1, <2>2
  <2>4. Len(kvmDomains') <= Len(Guests) + Len(Others)
    BY <2>1
  <2>5. KvmTypeOK'
    BY <2>1, <2>2, <2>3
  <2>6. ListHasTheRest'
    BY <2>1, <2>2, <2>3, <2>4
  <2>7. KvmWaitIsComplete'
    BY <2>2
  <2> QED
    BY <2>5, <2>6, <2>7
<1>7. ASSUME NEW d \in Guest, undefine_node(d) PROVE KvmIInv'
  BY <1>7 DEF undefine_node
<1>8. ASSUME NEW d \in Guest, first_reboot(d) PROVE KvmIInv'
  BY <1>8 DEF first_reboot
<1>9. CASE look_at_domain
  <2> DEFINE d == kvmDomains[kvmIndex]
  <2>1. /\ kvmIndex \in 1..Len(kvmDomains) /\ d \in KvmDomain /\ kvmPc = "pass" /\ kvmPc' = "pass"
        /\ kvmIndex' = kvmIndex + 1
    BY <1>9 DEF look_at_domain
  <2>2. CASE d \in Guest /\ kvmDom[d] = "rebooted"
    <3>1. /\ kvmFound' = TRUE /\ kvmDom' = [kvmDom EXCEPT ![d] = "running"]
          /\ kvmDomains' = RemoveAt(kvmDomains, kvmIndex)
      BY <1>9, <2>2 DEF look_at_domain
    <3>2. /\ kvmDomains' \in Seq(KvmDomain) /\ Len(kvmDomains') = Len(kvmDomains) - 1
          /\ Range(kvmDomains) \subseteq Range(kvmDomains') \cup {d}
      BY <2>1, <3>1, RemoveAtKeeps
    <3>3. kvmIndex' \in 1..Len(Guests) + Len(Others) + 1 /\ Len(kvmDomains') <= Len(Guests) + Len(Others)
      BY <2>1, <3>2
    <3> HIDE DEF d
    <3>4. \A g \in Guest : kvmDom'[g] = "running" \/ g \in Range(kvmDomains')
      BY <2>1, <3>1, <3>2
    <3>5. \A o \in Range(Others) : kvmDom'[o] = "off"
      BY <2>2, <3>1
    <3> QED
      BY <2>1, <3>1, <3>2, <3>3, <3>4, <3>5
  <2>3. CASE ~(d \in Guest /\ kvmDom[d] = "rebooted")
    <3>1. UNCHANGED <<kvmDom, kvmDomains>> /\ kvmFound' = (kvmFound \/ d \in Guest)
      BY <1>9, <2>3 DEF look_at_domain
    <3>2. kvmIndex' \in 1..Len(Guests) + Len(Others) + 1
      BY <2>1
    <3>3. kvmFound' \in BOOLEAN
      BY <3>1
    <3>4. ASSUME ~kvmFound', NEW i \in 1..Len(kvmDomains), i < kvmIndex' PROVE kvmDomains[i] \notin Guest
      <4>1. i < kvmIndex \/ i = kvmIndex
        BY <2>1, <3>4
      <4>2. ~kvmFound /\ d \notin Guest
        BY <3>1, <3>4
      <4> QED
        BY <2>1, <4>1, <4>2
    <3> QED
      BY <2>1, <3>1, <3>2, <3>3, <3>4
  <2> QED
    BY <2>2, <2>3
<1>10. CASE pass_over
  <2>1. kvmIndex' = 1 /\ kvmFound' = FALSE /\ UNCHANGED <<kvmDom, kvmDomains>> /\ kvmPc = "pass"
        /\ kvmPc' = (IF kvmFound THEN "pass" ELSE "started") /\ kvmIndex > Len(kvmDomains)
    BY <1>10 DEF pass_over
  <2>2. ASSUME ~kvmFound PROVE \A g \in Guest : kvmDom[g] = "running"
    <3>1. \A i \in 1..Len(kvmDomains) : kvmDomains[i] \notin Guest
      BY <2>1, <2>2
    <3>2. \A g \in Guest : g \notin Range(kvmDomains)
      BY <3>1 DEF Range
    <3> QED
      BY <2>1, <3>2
  <2>3. kvmIndex' \in 1..Len(Guests) + Len(Others) + 1 /\ \A i \in 1..Len(kvmDomains') : ~(i < kvmIndex')
    BY <2>1
  <2>4. CASE kvmFound
    BY <2>1, <2>3, <2>4
  <2>5. CASE ~kvmFound
    BY <2>1, <2>2, <2>3, <2>5
  <2> QED
    BY <2>4, <2>5
<1>11. CASE kvm_timeout
  BY <1>11 DEF kvm_timeout
<1> QED
  BY <1>1, <1>2, <1>3, <1>4, <1>5, <1>6, <1>7, <1>8, <1>9, <1>10, <1>11 DEF KvmNext
-----------------------------------------------------------------------------
(***************************************************************************)
(* Bare-metal machines: RedfishController.                                 *)
(***************************************************************************)
LEMMA MachineFacts ==
    /\ Len(Machines) \in Nat /\ Len(Machines) > 0 /\ MaxRedfishFaults \in Nat
    /\ \A i \in 1..Len(Machines) : Machines[i] \in Machine
    /\ \A m \in Machine : \E i \in 1..Len(Machines) : m = Machines[i]
    /\ \A i, j \in 1..Len(Machines) : Machines[i] = Machines[j] => i = j
  BY RedfishAssumption DEF Machine

LEMMA RedfishInitHolds == RedfishInit => RedfishIInv
<1> SUFFICES ASSUME RedfishInit PROVE RedfishIInv
  OBVIOUS
<1>1. rfAt \in 1..Len(Machines) + 1 /\ rfFaults \in 0..MaxRedfishFaults
  BY MachineFacts DEF RedfishInit
<1>2. RedfishTypeOK
  BY <1>1 DEF RedfishInit, RedfishTypeOK
<1> QED
  BY <1>2 DEF RedfishInit, RedfishIInv, ResetsAreOver, LoopsDidTheirWork, RedfishLoop

RedfishThread(m) == reset_idrac_node(m) \/ idrac_recovers(m) \/ wait_os_running(m)
RedfishCall == RedfishEjectIso \/ RedfishSetIsoOnce \/ RedfishInsertIso \/ RedfishRestart

LEMMA RedfishTypeStep ==
    ASSUME RedfishIInv, [RedfishNext]_rfVars
    PROVE  RedfishTypeOK'
<1> USE MachineFacts DEF RedfishIInv, RedfishTypeOK
<1>1. CASE UNCHANGED rfVars BY <1>1 DEF rfVars
<1>2. CASE reset_idrac      BY <1>2 DEF reset_idrac
<1>3. CASE join_threads     BY <1>3 DEF join_threads
<1>4. ASSUME NEW m \in Machine, RedfishThread(m) PROVE RedfishTypeOK'
  <2>1. rfFaults' \in 0..MaxRedfishFaults /\ rfTroubled' \subseteq Machine
    BY <1>4 DEF RedfishThread, reset_idrac_node, idrac_recovers, wait_os_running, RedfishFault
  <2>2. /\ rfThread' \in [Machine -> {"none", "reset", "waiting", "over"}]
        /\ rfIdrac' \in [Machine -> BOOLEAN]
    BY <1>4 DEF RedfishThread, reset_idrac_node, idrac_recovers, wait_os_running
  <2> QED
    BY <1>4, <2>1, <2>2 DEF RedfishThread, reset_idrac_node, idrac_recovers, wait_os_running
<1>5. CASE RedfishCall
  <2>0. rfAt \in 1..Len(Machines) /\ Here \in Machine
    <3>1. rfPc \in {"eject", "once", "insert", "restart"}
      BY <1>5 DEF RedfishCall, RedfishEjectIso, RedfishSetIsoOnce, RedfishInsertIso, RedfishRestart
    <3>2. rfAt <= Len(Machines)
      BY <3>1 DEF LoopsDidTheirWork, RedfishLoop
    <3> QED
      BY <3>2 DEF Here
  <2>1. rfFaults' \in 0..MaxRedfishFaults /\ rfTroubled' \subseteq Machine
    BY <1>5, <2>0 DEF RedfishCall, RedfishEjectIso, RedfishSetIsoOnce, RedfishInsertIso, RedfishRestart,
                Caught, RedfishFault
  <2>2. rfMedia' \in [Machine -> {"none", "old", "new"}] /\ rfOnce' \in [Machine -> BOOLEAN]
    <3>1. CASE RedfishEjectIso   BY <2>0, <3>1 DEF RedfishEjectIso, Caught
    <3>2. CASE RedfishSetIsoOnce BY <2>0, <3>2 DEF RedfishSetIsoOnce, Caught
    <3>3. CASE RedfishInsertIso  BY <2>0, <3>3 DEF RedfishInsertIso, Caught
    <3>4. CASE RedfishRestart    BY <2>0, <3>4 DEF RedfishRestart
    <3> QED
      BY <1>5, <3>1, <3>2, <3>3, <3>4 DEF RedfishCall
  <2>3. rfAt' \in 1..Len(Machines) + 1
    <3>1. rfAt' \in {1, rfAt, rfAt + 1}
      BY <1>5 DEF RedfishCall, RedfishEjectIso, RedfishSetIsoOnce, RedfishInsertIso, RedfishRestart
    <3> QED
      BY <2>0, <3>1
  <2>4. rfBooted' \in [Machine -> {"disk", "none", "old", "new"}]
    <3>1. CASE RedfishRestart
      <4>1. (IF rfOnce[Here] THEN rfMedia[Here] ELSE "disk") \in {"disk", "none", "old", "new"}
        BY <2>0
      <4>2. \/ rfBooted' = [rfBooted EXCEPT ![Here] = IF rfOnce[Here] THEN rfMedia[Here] ELSE "disk"]
            \/ rfBooted' = rfBooted
        BY <3>1 DEF RedfishRestart
      <4> QED
        BY <2>0, <4>1, <4>2
    <3> QED
      BY <1>5, <3>1 DEF RedfishCall, RedfishEjectIso, RedfishSetIsoOnce, RedfishInsertIso
  <2>5. rfPc' \in {"eject", "once", "insert", "restart", "prepared", "raised"} /\ UNCHANGED <<rfThread, rfIdrac>>
    BY <1>5 DEF RedfishCall, RedfishEjectIso, RedfishSetIsoOnce, RedfishInsertIso, RedfishRestart
  <2> QED
    BY <2>1, <2>2, <2>3, <2>4, <2>5
<1>6. CASE redfish_again    BY <1>6 DEF redfish_again
<1> QED
  BY <1>1, <1>2, <1>3, <1>4, <1>5, <1>6 DEF RedfishNext, RedfishThread, RedfishCall

\* No reset begins after the join, and trouble is not forgotten before the next
\* prepare_nodes.
LEMMA ResetsStep ==
    ASSUME RedfishIInv, [RedfishNext]_rfVars
    PROVE  ResetsAreOver'
<1> USE MachineFacts DEF RedfishIInv, RedfishTypeOK, ResetsAreOver, RedfishLoop
<1>1. CASE UNCHANGED rfVars BY <1>1 DEF rfVars
<1>2. CASE reset_idrac      BY <1>2 DEF reset_idrac
<1>3. CASE join_threads     BY <1>3 DEF join_threads
<1>4. ASSUME NEW m \in Machine, RedfishThread(m) PROVE ResetsAreOver'
  <2>1. CASE reset_idrac_node(m)
    <3>0. UNCHANGED rfPc /\ rfThread[m] # "over"
      BY <2>1 DEF reset_idrac_node
    <3>1. rfPc \notin RedfishLoop \cup {"restart"}
      BY <3>0
    <3>2. CASE /\ rfThread' = [rfThread EXCEPT ![m] = "waiting"]
               /\ rfIdrac' = [rfIdrac EXCEPT ![m] = FALSE] /\ UNCHANGED rfTroubled
      BY <3>0, <3>1, <3>2
    <3>3. CASE /\ rfThread' = [rfThread EXCEPT ![m] = "over"]
               /\ UNCHANGED rfIdrac /\ rfTroubled' = rfTroubled \cup {m}
      BY <3>0, <3>1, <3>3
    <3> QED
      BY <2>1, <3>2, <3>3 DEF reset_idrac_node, RedfishFault
  <2>2. CASE idrac_recovers(m)   BY <2>2 DEF idrac_recovers
  <2>3. CASE wait_os_running(m)  BY <2>3 DEF wait_os_running, RedfishFault
  <2> QED
    BY <1>4, <2>1, <2>2, <2>3 DEF RedfishThread
<1>5. CASE RedfishCall
  <2>1. /\ rfTroubled \subseteq rfTroubled' /\ UNCHANGED <<rfThread, rfIdrac>>
        /\ rfPc \in {"eject", "once", "insert", "restart"}
    BY <1>5 DEF RedfishCall, RedfishEjectIso, RedfishSetIsoOnce, RedfishInsertIso, RedfishRestart,
                Caught, RedfishFault
  <2> QED
    BY <2>1
<1>6. CASE redfish_again    BY <1>6 DEF redfish_again
<1> QED
  BY <1>1, <1>2, <1>3, <1>4, <1>5, <1>6 DEF RedfishNext, RedfishThread, RedfishCall

\* One call of the loops changes the machine they are at, and no other.
LEMMA LoopsStep ==
    ASSUME RedfishIInv, [RedfishNext]_rfVars
    PROVE  LoopsDidTheirWork'
<1> USE MachineFacts DEF RedfishIInv, RedfishTypeOK, LoopsDidTheirWork, RedfishLoop
<1>1. CASE UNCHANGED rfVars BY <1>1 DEF rfVars
<1>2. CASE reset_idrac      BY <1>2 DEF reset_idrac
<1>3. CASE join_threads     BY <1>3 DEF join_threads
<1>4. ASSUME NEW m \in Machine, RedfishThread(m) PROVE LoopsDidTheirWork'
  <2>1. rfTroubled \subseteq rfTroubled' /\ UNCHANGED <<rfPc, rfAt, rfMedia, rfOnce, rfBooted>>
    BY <1>4 DEF RedfishThread, reset_idrac_node, idrac_recovers, wait_os_running, RedfishFault
  <2> QED
    BY <2>1
<1>5. CASE RedfishCall
  <2>0. /\ rfPc \in {"eject", "once", "insert", "restart"} /\ rfAt \in 1..Len(Machines)
        /\ Here \in Machine /\ Here = Machines[rfAt]
    <3>1. rfPc \in {"eject", "once", "insert", "restart"}
      BY <1>5 DEF RedfishCall, RedfishEjectIso, RedfishSetIsoOnce, RedfishInsertIso, RedfishRestart
    <3>2. rfAt \in 1..Len(Machines)
      BY <3>1
    <3> QED
      BY <3>1, <3>2 DEF Here
  <2>1. \A i \in 1..Len(Machines) : Machines[i] = Here => i = rfAt
    BY <2>0
  <2>2. rfTroubled \subseteq rfTroubled'
    BY <1>5 DEF RedfishCall, RedfishEjectIso, RedfishSetIsoOnce, RedfishInsertIso, RedfishRestart,
                Caught, RedfishFault
  <2>3. Here \notin rfTroubled' => rfIdrac[Here]
    BY <2>0, <2>2 DEF ResetsAreOver
  <2>4. CASE RedfishEjectIso
    <3>1. /\ rfPc' \in {"once", "raised"} /\ UNCHANGED <<rfAt, rfBooted, rfOnce>>
      BY <2>4 DEF RedfishEjectIso, Caught
    <3>2. rfPc' = "once" /\ Here \notin rfTroubled' => rfMedia' = [rfMedia EXCEPT ![Here] = "none"]
      BY <2>3, <2>4 DEF RedfishEjectIso, Caught, RedfishFault
    <3>3. \A m \in Machine \ {Here} : rfMedia'[m] = rfMedia[m]
      BY <2>0, <2>4 DEF RedfishEjectIso, Caught
    <3>4. rfPc = "eject"
      BY <2>4 DEF RedfishEjectIso
    <3> QED
      BY <2>0, <2>1, <2>2, <3>1, <3>2, <3>3, <3>4
  <2>5. CASE RedfishSetIsoOnce
    <3>1. rfPc = "once" /\ rfPc' = "insert" /\ UNCHANGED <<rfAt, rfBooted, rfMedia>>
      BY <2>5 DEF RedfishSetIsoOnce, Caught
    <3>2. Here \notin rfTroubled' => rfOnce' = [rfOnce EXCEPT ![Here] = TRUE]
      BY <2>3, <2>5 DEF RedfishSetIsoOnce, Caught, RedfishFault
    <3>3. \A m \in Machine \ {Here} : rfOnce'[m] = rfOnce[m]
      BY <2>0, <2>5 DEF RedfishSetIsoOnce, Caught
    <3> QED
      BY <2>0, <2>1, <2>2, <3>1, <3>2, <3>3
  <2>6. CASE RedfishInsertIso
    <3>1. rfPc = "insert" /\ UNCHANGED <<rfBooted, rfOnce>>
      BY <2>6 DEF RedfishInsertIso, Caught
    <3>2. Here \notin rfTroubled' => rfMedia'[Here] = "new" /\ rfOnce'[Here]
      <4>1. Here \notin rfTroubled' => rfMedia[Here] = "none" /\ rfOnce[Here]
        BY <2>0, <2>2, <3>1
      <4>2. Here \notin rfTroubled' =>
              rfMedia' = [rfMedia EXCEPT ![Here] = IF rfMedia[Here] = "none" THEN "new" ELSE rfMedia[Here]]
        BY <2>3, <2>6 DEF RedfishInsertIso, Caught, RedfishFault
      <4> QED
        BY <2>0, <3>1, <4>1, <4>2
    <3>3. \A m \in Machine \ {Here} : rfMedia'[m] = rfMedia[m]
      BY <2>0, <2>6 DEF RedfishInsertIso, Caught
    <3>4. CASE rfAt < Len(Machines)
      <4>1. rfPc' = "eject" /\ rfAt' = rfAt + 1
        BY <2>6, <3>4 DEF RedfishInsertIso
      <4>2. \A i \in 1..Len(Machines) : i < rfAt' => i < rfAt \/ i = rfAt
        BY <2>0, <4>1
      <4> QED
        BY <2>0, <2>1, <2>2, <3>1, <3>2, <3>3, <3>4, <4>1, <4>2
    <3>5. CASE ~(rfAt < Len(Machines))
      <4>1. rfPc' = "restart" /\ rfAt' = 1
        BY <2>6, <3>5 DEF RedfishInsertIso
      <4>2. \A i \in 1..Len(Machines) : ~(i < rfAt') /\ (i < rfAt \/ i = rfAt)
        BY <2>0, <3>5, <4>1
      <4> QED
        BY <2>0, <2>1, <2>2, <3>1, <3>2, <3>3, <4>1, <4>2
    <3> QED
      BY <3>4, <3>5
  <2>7. CASE RedfishRestart
    <3>1. CASE rfPc' = "raised"
      BY <3>1
    <3>2. CASE rfPc' # "raised"
      <4>1. /\ rfPc = "restart" /\ rfAt' = rfAt + 1 /\ UNCHANGED <<rfMedia, rfTroubled>>
            /\ rfPc' = (IF rfAt < Len(Machines) THEN "restart" ELSE "prepared")
            /\ rfBooted' = [rfBooted EXCEPT ![Here] = IF rfOnce[Here] THEN rfMedia[Here] ELSE "disk"]
            /\ rfOnce' = [rfOnce EXCEPT ![Here] = FALSE]
        BY <2>7, <3>2 DEF RedfishRestart
      <4>2. Here \notin rfTroubled => rfBooted'[Here] = "new"
        BY <2>0, <4>1
      <4>3. \A m \in Machine \ {Here} : rfBooted'[m] = rfBooted[m] /\ rfOnce'[m] = rfOnce[m]
        BY <2>0, <4>1
      <4>4. ASSUME NEW i \in 1..Len(Machines)
            PROVE  /\ i < rfAt' => i < rfAt \/ i = rfAt
                   /\ i >= rfAt' => i >= rfAt /\ i # rfAt
                   /\ rfPc' = "prepared" => i < rfAt \/ i = rfAt
                   /\ rfPc' = "restart" => rfAt' <= Len(Machines)
        BY <2>0, <4>1
      <4>5. rfPc' \in {"restart", "prepared"} /\ (rfPc' = "restart" => rfAt' <= Len(Machines))
        BY <2>0, <4>1
      <4> QED
        BY <2>0, <2>1, <4>1, <4>2, <4>3, <4>4, <4>5
    <3> QED
      BY <3>1, <3>2
  <2> QED
    BY <1>5, <2>4, <2>5, <2>6, <2>7 DEF RedfishCall
<1>6. CASE redfish_again    BY <1>6 DEF redfish_again
<1> QED
  BY <1>1, <1>2, <1>3, <1>4, <1>5, <1>6 DEF RedfishNext, RedfishThread, RedfishCall

LEMMA RedfishStep == RedfishIInv /\ [RedfishNext]_rfVars => RedfishIInv'
  BY RedfishTypeStep, ResetsStep, LoopsStep DEF RedfishIInv

LEMMA RedfishConclusion == RedfishIInv => RedfishBootsNewIso
  BY MachineFacts DEF RedfishIInv, LoopsDidTheirWork, RedfishBootsNewIso
-----------------------------------------------------------------------------
(***************************************************************************)
(* The devices and the addresses of a libvirt node.                        *)
(***************************************************************************)

\* What the operations on a definition do to the disks that it names.
LEMMA EmptyDefinition ==
    NoDevices \in Definitions /\ InUse(NoDevices) = {} /\ NoDevices.nics = {} /\ OneLetter(NoDevices)
  BY DevicesAssumption DEF NoDevices, Definitions, InUse, NoDisk, OneLetter

\* A definition with one more disk, and one with the disks of some letters gone.
With(def, letter, file) == [def EXCEPT !.disks[letter] = file]
Without(def, D) == [def EXCEPT !.disks = [l \in Letters |-> IF l \in D THEN NoDisk ELSE def.disks[l]]]

LEMMA DiskAttached ==
    ASSUME NEW def \in Definitions, NEW letter \in Letters, def.disks[letter] = NoDisk,
           NEW file \in 1..MaxDisks, OneLetter(def), file \notin InUse(def)
    PROVE  LET new == With(def, letter, file)
           IN /\ new \in Definitions /\ InUse(new) = InUse(def) \cup {file} /\ new.nics = def.nics
              /\ OneLetter(new)
<1> DEFINE new == With(def, letter, file)
<1>1. /\ new.nics = def.nics /\ new.disks = [def.disks EXCEPT ![letter] = file]
      /\ new = [disks |-> new.disks, nics |-> new.nics]
      /\ def.disks \in [Letters -> 0..MaxDisks] /\ def.nics \in SUBSET TestNetworks
  BY DEF Definitions, With
<1> HIDE DEF new
<1>2. new.disks \in [Letters -> 0..MaxDisks] /\ file # NoDisk
  BY <1>1, DevicesAssumption DEF NoDisk
<1>3. new \in Definitions
  BY <1>1, <1>2 DEF Definitions
<1>4. \A l \in Letters : new.disks[l] = IF l = letter THEN file ELSE def.disks[l]
  BY <1>1
<1>5. InUse(new) = InUse(def) \cup {file}
  BY <1>1, <1>2, <1>4 DEF InUse
<1>6. OneLetter(new)
  BY <1>2, <1>4 DEF OneLetter, InUse
<1> QED
  BY <1>1, <1>3, <1>5, <1>6 DEF new

LEMMA DisksDetached ==
    ASSUME NEW def \in Definitions, NEW D \in SUBSET Letters
    PROVE  LET new == Without(def, D)
           IN /\ new \in Definitions /\ InUse(new) \subseteq InUse(def) /\ new.nics = def.nics
              /\ OneLetter(def) => InUse(new) = InUse(def) \ {def.disks[l] : l \in D} /\ OneLetter(new)
<1> DEFINE new == Without(def, D)
<1>1. /\ new.nics = def.nics /\ new.disks = [l \in Letters |-> IF l \in D THEN NoDisk ELSE def.disks[l]]
      /\ new = [disks |-> new.disks, nics |-> new.nics]
      /\ def.disks \in [Letters -> 0..MaxDisks] /\ def.nics \in SUBSET TestNetworks
  BY DEF Definitions, Without
<1> HIDE DEF new
<1>2. new.disks \in [Letters -> 0..MaxDisks]
  BY <1>1, DevicesAssumption DEF NoDisk
<1>3. new \in Definitions
  BY <1>1, <1>2 DEF Definitions
<1>4. \A l \in Letters : new.disks[l] = IF l \in D THEN NoDisk ELSE def.disks[l]
  BY <1>1
<1>5. InUse(new) \subseteq InUse(def) /\ InUse(def) \ {def.disks[l] : l \in D} \subseteq InUse(new)
  BY <1>4 DEF InUse
<1>6. ASSUME OneLetter(def), NEW f \in InUse(new), NEW k \in D, f = def.disks[k] PROVE FALSE
  BY <1>4, <1>6 DEF OneLetter, InUse
<1>7. OneLetter(def) => OneLetter(new)
  BY <1>4 DEF OneLetter
<1> QED
  BY <1>1, <1>3, <1>5, <1>6, <1>7 DEF new

LEMMA NicsChanged ==
    ASSUME NEW def \in Definitions, NEW nics \in SUBSET TestNetworks,
           NEW new, new = [def EXCEPT !.nics = nics]
    PROVE  new \in Definitions /\ InUse(new) = InUse(def) /\ new.nics = nics /\ (OneLetter(def) => OneLetter(new))
<1>1. new.disks = def.disks /\ new.nics = nics /\ new = [disks |-> new.disks, nics |-> new.nics]
  BY DEF Definitions
<1>2. new \in Definitions
  BY <1>1 DEF Definitions
<1> QED
  BY <1>1, <1>2 DEF InUse, OneLetter

LEMMA DevicesInitHolds == DevicesInit => DevicesIInv
<1> SUFFICES ASSUME DevicesInit PROVE DevicesIInv
  OBVIOUS
<1>1. DevicesTypeOK
  <2>1. /\ 0 \in 0..MaxDisks /\ 0 \in 0..MaxStarts /\ cached \in [list : BOOLEAN, ips : 0..MaxStarts]
    BY DevicesAssumption DEF DevicesInit, NoList
  <2> QED
    BY <2>1, EmptyDefinition DEF DevicesInit, DevicesTypeOK
<1>2. InUse(confDev) = {} /\ InUse(liveDev) = {} /\ cached.ips = 0 /\ confDev.nics = {} /\ liveDev.nics = {}
  BY EmptyDefinition DEF DevicesInit, NoList
<1>3. OneLetter(confDev) /\ OneLetter(liveDev) /\ files = {} /\ address = 0 /\ lostBy = NoOp
  BY EmptyDefinition DEF DevicesInit
<1>4. NamesAreOld /\ RunningHasItsDevices /\ MissingIsExplained /\ LeftFilesAreExplained
  BY <1>2, <1>3 DEF NamesAreOld, RunningHasItsDevices, MissingIsExplained, LeftFilesAreExplained
<1>5. ConfIsLive /\ OffIsEmpty
  BY DEF DevicesInit, ConfIsLive, OffIsEmpty
<1>6. AddressWhenOn /\ CacheIsFresh /\ LossIsExplained
  BY <1>2, <1>3 DEF AddressWhenOn, CacheIsFresh, LossIsExplained
<1> QED
  BY <1>1, <1>4, <1>5, <1>6 DEF DevicesIInv

\* Operations on the devices leave the power and the addresses alone.
LEMMA AddressesLeftAlone ==
    ASSUME DevicesIInv, UNCHANGED <<on, address, starts, cached, lostBy>>
    PROVE  AddressWhenOn' /\ CacheIsFresh' /\ LossIsExplained'
  BY DEF DevicesIInv, AddressWhenOn, CacheIsFresh, LossIsExplained, Remembers

\* attach_test_disk: the file of a disk that libvirt refuses is noted.
LEMMA AttachStep ==
    ASSUME DevicesIInv, NEW persistent \in BOOLEAN, attach_test_disk(persistent)
    PROVE  DevicesIInv'
<1> DEFINE file == created + 1
<1> USE DEF DevicesIInv
<1>0. liveDev \in Definitions /\ confDev \in Definitions
  BY DEF DevicesTypeOK
<1>1. file \in 1..MaxDisks /\ created' = file /\ files' = files \cup {file}
      /\ UNCHANGED <<on, nets, added, address, starts, cached, lostBy>>
  BY DevicesAssumption DEF attach_test_disk, DevicesTypeOK
<1> HIDE DEF file
<1>2. PICK letter \in Letters \ Visible :
        IF on /\ (persistent => confDev.disks[letter] = NoDisk)
        THEN /\ liveDev' = With(liveDev, letter, file)
             /\ confDev' = IF persistent THEN With(confDev, letter, file) ELSE confDev
             /\ UNCHANGED because
        ELSE Note("refused", {file}) /\ UNCHANGED <<liveDev, confDev>>
  BY DEF attach_test_disk, AttachTo, With, file
<1>3. 1..created \cup {file} \subseteq 1..created' /\ file \notin 1..created
  BY <1>1 DEF DevicesTypeOK, file
<1>4. AddressWhenOn' /\ CacheIsFresh' /\ LossIsExplained'
  BY <1>1, AddressesLeftAlone
<1>7. /\ OneLetter(liveDev) /\ OneLetter(confDev)
      /\ file \notin InUse(liveDev) /\ file \notin InUse(confDev)
  BY <1>3 DEF NamesAreOld
<1>5. CASE on /\ (persistent => confDev.disks[letter] = NoDisk)
  <2>1. liveDev.disks[letter] = NoDisk
    BY <1>2, <1>5 DEF Visible, XMLDesc
  <2>2. liveDev' \in Definitions /\ InUse(liveDev') = InUse(liveDev) \cup {file} /\ liveDev'.nics = liveDev.nics
        /\ OneLetter(liveDev')
    <3> HIDE DEF DevicesIInv
    <3>1. liveDev' = With(liveDev, letter, file)
      BY <1>2, <1>5
    <3> QED
      BY <1>0, <1>1, <1>7, <2>1, <3>1, DiskAttached
  <2>3. /\ confDev' \in Definitions /\ confDev'.nics = confDev.nics
        /\ InUse(confDev') \in {InUse(confDev), InUse(confDev) \cup {file}}
        /\ OneLetter(confDev')
    <3> HIDE DEF DevicesIInv
    <3>1. CASE persistent
      <4>1. confDev' = With(confDev, letter, file) /\ confDev.disks[letter] = NoDisk
        BY <1>2, <1>5, <3>1
      <4> QED
        BY <1>0, <1>1, <1>7, <4>1, DiskAttached
    <3>2. CASE ~persistent
      BY <1>0, <1>2, <1>5, <1>7, <3>2
    <3> QED
      BY <3>1, <3>2
  <2>4. because' = because
    BY <1>2, <1>5
  <2>5. DevicesTypeOK'
    BY <1>1, <2>2, <2>3 DEF DevicesTypeOK
  <2>6. NamesAreOld' /\ ConfIsLive' /\ OffIsEmpty'
    BY <1>1, <1>3, <1>5, <2>2, <2>3 DEF NamesAreOld, ConfIsLive, OffIsEmpty
  <2>7. RunningHasItsDevices' /\ MissingIsExplained' /\ LeftFilesAreExplained'
    BY <1>1, <2>2, <2>3, <2>4 DEF RunningHasItsDevices, MissingIsExplained, LeftFilesAreExplained
  <2> QED
    BY <1>4, <2>5, <2>6, <2>7
<1>6. CASE ~(on /\ (persistent => confDev.disks[letter] = NoDisk))
  <2>1. UNCHANGED <<liveDev, confDev>> /\ because' = because \cup {<<"refused", file>>}
    BY <1>2, <1>6 DEF Note
  <2>2. DevicesTypeOK'
    BY <1>0, <1>1, <2>1 DEF DevicesTypeOK
  <2>3. NamesAreOld' /\ ConfIsLive' /\ OffIsEmpty'
    BY <1>1, <1>3, <1>7, <2>1 DEF OneLetter, NamesAreOld, ConfIsLive, OffIsEmpty
  <2>4. RunningHasItsDevices' /\ MissingIsExplained' /\ LeftFilesAreExplained'
    BY <1>1, <2>1 DEF RunningHasItsDevices, MissingIsExplained, LeftFilesAreExplained
  <2> QED
    BY <1>4, <2>2, <2>3, <2>4
<1> QED
  BY <1>5, <1>6

\* detach_all_test_disks: the file of a disk that is detached is removed, and
\* noted when the persistent definition may keep it.  A file has one letter, so
\* no disk that stays attached loses its file.
LEMMA DetachStep ==
    ASSUME DevicesIInv, detach_all_test_disks
    PROVE  DevicesIInv'
<1> USE DEF DevicesIInv
<1>0. /\ liveDev \in Definitions /\ confDev \in Definitions /\ Detached \in SUBSET Letters
      /\ files' = files \ {XMLDesc.disks[l] : l \in Detached}
      /\ UNCHANGED <<on, created, nets, added, address, starts, cached, lostBy>>
  BY DEF DevicesTypeOK, Detached, Visible, detach_all_test_disks, Removed
<1>b. OneLetter(liveDev) /\ OneLetter(confDev)
  BY DEF NamesAreOld
<1>a. AddressWhenOn' /\ CacheIsFresh' /\ LossIsExplained'
  BY <1>0, AddressesLeftAlone
<1>1. CASE on
  <2>1. liveDev' = Without(liveDev, Detached)
        /\ confDev' = confDev
    BY <1>1 DEF detach_all_test_disks, DetachFrom, Without
  <2>2. /\ liveDev' \in Definitions /\ InUse(liveDev') \subseteq InUse(liveDev) /\ liveDev'.nics = liveDev.nics
        /\ InUse(liveDev') = InUse(liveDev) \ {liveDev.disks[l] : l \in Detached} /\ OneLetter(liveDev')
    <3> HIDE DEF DevicesIInv
    <3> QED
      BY <1>0, <1>b, <2>1, DisksDetached
  <2>3. files' = files \ {liveDev.disks[l] : l \in Detached}
    BY <1>0, <1>1 DEF XMLDesc
  <2>4. because' = because \cup ({"detached live"} \X {liveDev.disks[l] : l \in Detached})
    BY <1>1 DEF detach_all_test_disks, Note, Removed, XMLDesc
  <2>5. DevicesTypeOK'
    BY <1>0, <2>1, <2>2 DEF DevicesTypeOK
  <2>7. NamesAreOld' /\ OffIsEmpty' /\ ConfIsLive'
    BY <1>0, <1>1, <2>1, <2>2, <2>3 DEF NamesAreOld, ConfIsLive, OffIsEmpty
  <2>8. RunningHasItsDevices' /\ MissingIsExplained' /\ LeftFilesAreExplained'
    BY <1>0, <2>1, <2>2, <2>3, <2>4 DEF RunningHasItsDevices, MissingIsExplained, LeftFilesAreExplained
  <2> QED
    BY <1>a, <2>5, <2>7, <2>8
<1>2. CASE ~on
  <2>1. confDev' = Without(confDev, Detached)
        /\ liveDev' = liveDev /\ because' = because
    BY <1>2 DEF detach_all_test_disks, DetachFrom, Without
  <2>2. /\ confDev' \in Definitions /\ InUse(confDev') \subseteq InUse(confDev) /\ confDev'.nics = confDev.nics
        /\ InUse(confDev') = InUse(confDev) \ {confDev.disks[l] : l \in Detached} /\ OneLetter(confDev')
    <3> HIDE DEF DevicesIInv
    <3>1. confDev \in Definitions /\ Detached \in SUBSET Letters /\ OneLetter(confDev)
      BY <1>0, <1>b
    <3> QED
      BY <2>1, <3>1, DisksDetached
  <2>3. files' = files \ {confDev.disks[l] : l \in Detached}
    BY <1>0, <1>2 DEF XMLDesc
  <2>5. DevicesTypeOK'
    BY <1>0, <2>1, <2>2 DEF DevicesTypeOK
  <2>6. NamesAreOld' /\ OffIsEmpty' /\ ConfIsLive'
    BY <1>0, <1>2, <2>1, <2>2, <2>3 DEF NamesAreOld, ConfIsLive, OffIsEmpty
  <2>7. RunningHasItsDevices'
    BY <1>0, <1>2, <2>1, EmptyDefinition DEF RunningHasItsDevices, OffIsEmpty, NoDevices
  <2>8. MissingIsExplained' /\ LeftFilesAreExplained'
    BY <1>0, <2>1, <2>2, <2>3 DEF MissingIsExplained, LeftFilesAreExplained
  <2> QED
    BY <1>a, <2>5, <2>6, <2>7, <2>8
<1> QED
  BY <1>1, <1>2

\* Defining the domain takes over the disks in force.
LEMMA DefineStep ==
    ASSUME DevicesIInv, define_xml
    PROVE  DevicesIInv'
<1> USE DEF DevicesIInv
<1>0. /\ UNCHANGED <<on, liveDev, files, created, nets, added, address, starts, cached, lostBy, because>>
      /\ confDev' = (IF on THEN liveDev ELSE confDev)
  BY DEF define_xml, XMLDesc
<1>1. DevicesTypeOK'
  BY <1>0 DEF DevicesTypeOK
<1>2. NamesAreOld' /\ OffIsEmpty' /\ ConfIsLive'
  BY <1>0 DEF NamesAreOld, ConfIsLive, OffIsEmpty
<1>3. RunningHasItsDevices' /\ MissingIsExplained' /\ LeftFilesAreExplained'
  \* What is in force of a running domain is there.
  <2>1. CASE on
    <3>1. LeftFilesAreExplained'
      BY <1>0, <2>1 DEF LeftFilesAreExplained, ConfIsLive
    <3> QED
      BY <1>0, <2>1, <3>1 DEF RunningHasItsDevices, MissingIsExplained
  <2>2. CASE ~on
    BY <1>0, <2>2 DEF RunningHasItsDevices, MissingIsExplained, LeftFilesAreExplained
  <2> QED
    BY <2>1, <2>2
<1>4. AddressWhenOn' /\ CacheIsFresh' /\ LossIsExplained'
  BY <1>0, AddressesLeftAlone
<1> QED
  BY <1>1, <1>2, <1>3, <1>4

\* Networks and interfaces leave the disks alone; a network is destroyed only
\* after the interface left the definition in force.
LEMMA InterfaceStep ==
    ASSUME DevicesIInv, NEW n \in TestNetworks,
           create_network(n) \/ add_interface(n) \/ undefine_interface(n)
    PROVE  DevicesIInv'
<1> USE DEF DevicesIInv
<1>0. /\ liveDev \in Definitions /\ confDev \in Definitions
      /\ liveDev.nics \in SUBSET TestNetworks /\ confDev.nics \in SUBSET TestNetworks
      /\ liveDev.nics \subseteq nets
      /\ \A k \in confDev.nics \ nets : <<"detached live", k>> \in because
  BY DEF DevicesTypeOK, Definitions, RunningHasItsDevices, MissingIsExplained
<1>1. UNCHANGED <<on, files, created, address, starts, cached, lostBy>> /\ because \subseteq because'
  BY DEF create_network, add_interface, undefine_interface, Note
<1>2. nets' \subseteq TestNetworks /\ added' \subseteq TestNetworks
  BY DEF create_network, add_interface, undefine_interface, DevicesTypeOK
<1> DEFINE Fits(live, conf) ==
        /\ live \in SUBSET TestNetworks /\ conf \in SUBSET TestNetworks
        /\ liveDev' = [liveDev EXCEPT !.nics = live] /\ confDev' = [confDev EXCEPT !.nics = conf]
        /\ ~on => liveDev' = liveDev
        /\ live \subseteq nets' /\ \A k \in conf \ nets' : <<"detached live", k>> \in because'
<1>3. \E live, conf : Fits(live, conf)
  <2>1. liveDev = [liveDev EXCEPT !.nics = liveDev.nics] /\ confDev = [confDev EXCEPT !.nics = confDev.nics]
    BY <1>0 DEF Definitions
  <2>2. CASE create_network(n)
    <3>1. UNCHANGED <<liveDev, confDev, because>> /\ nets \subseteq nets'
      BY <2>2 DEF create_network
    <3>2. Fits(liveDev.nics, confDev.nics)
      BY <1>0, <2>1, <3>1
    <3> HIDE DEF Fits
    <3> QED
      BY <3>2
  <2>3. CASE add_interface(n)
    <3>1. /\ n \in nets /\ nets' = nets /\ because' = because
          /\ confDev' = [confDev EXCEPT !.nics = confDev.nics \cup {n}]
          /\ liveDev' = IF on THEN [liveDev EXCEPT !.nics = liveDev.nics \cup {n}] ELSE liveDev
      BY <2>3 DEF add_interface
    <3>2. Fits(IF on THEN liveDev.nics \cup {n} ELSE liveDev.nics, confDev.nics \cup {n})
      <4>1. CASE on
        BY <1>0, <3>1, <4>1
      <4>2. CASE ~on
        BY <1>0, <2>1, <3>1, <4>2
      <4> QED
        BY <4>1, <4>2
    <3> HIDE DEF Fits
    <3> QED
      BY <3>2
  <2>4. CASE undefine_interface(n)
    <3>1. CASE n \notin XMLDesc.nics
      <4>1. UNCHANGED <<liveDev, confDev, nets, because>>
        BY <2>4, <3>1 DEF undefine_interface
      <4>2. Fits(liveDev.nics, confDev.nics)
        BY <1>0, <2>1, <4>1
      <4> HIDE DEF Fits
      <4> QED
        BY <4>2
    <3>2. CASE n \in XMLDesc.nics /\ on
      <4>1. /\ liveDev' = [liveDev EXCEPT !.nics = liveDev.nics \ {n}] /\ confDev' = confDev
            /\ nets' = nets \ {n}
        BY <2>4, <3>2 DEF undefine_interface
      <4>2. because' = because \cup ({"detached live"} \X {n})
        BY <2>4, <3>2 DEF undefine_interface, Note
      <4>3. <<"detached live", n>> \in because'
        BY <4>2
      <4>4. \A k \in confDev.nics \ nets' : <<"detached live", k>> \in because'
        BY <1>0, <1>1, <4>1, <4>3
      <4>5. Fits(liveDev.nics \ {n}, confDev.nics)
        BY <1>0, <2>1, <3>2, <4>1, <4>4
      <4> HIDE DEF Fits
      <4> QED
        BY <4>5
    <3>3. CASE n \in XMLDesc.nics /\ ~on
      <4>1. /\ confDev' = [confDev EXCEPT !.nics = confDev.nics \ {n}] /\ liveDev' = liveDev
            /\ nets' = nets \ {n} /\ because' = because
        BY <2>4, <3>3 DEF undefine_interface
      <4>2. liveDev.nics = {}
        BY <3>3, EmptyDefinition DEF OffIsEmpty
      <4>3. Fits(liveDev.nics, confDev.nics \ {n})
        BY <1>0, <2>1, <4>1, <4>2
      <4> HIDE DEF Fits
      <4> QED
        BY <4>3
    <3> QED
      BY <3>1, <3>2, <3>3
  <2> QED
    BY <2>2, <2>3, <2>4
<1>p. PICK live, conf : Fits(live, conf)
  <2> HIDE DEF Fits
  <2> QED
    BY <1>3
<1>4. /\ liveDev' \in Definitions /\ InUse(liveDev') = InUse(liveDev) /\ liveDev'.nics = live
      /\ OneLetter(liveDev) => OneLetter(liveDev')
  BY <1>0, <1>p, NicsChanged
<1>5. /\ confDev' \in Definitions /\ InUse(confDev') = InUse(confDev) /\ confDev'.nics = conf
      /\ OneLetter(confDev) => OneLetter(confDev')
  BY <1>0, <1>p, NicsChanged
<1>6. DevicesTypeOK'
  BY <1>1, <1>2, <1>4, <1>5 DEF DevicesTypeOK
<1>7. NamesAreOld' /\ OffIsEmpty' /\ ConfIsLive'
  BY <1>1, <1>p, <1>4, <1>5 DEF NamesAreOld, ConfIsLive, OffIsEmpty
<1>8. RunningHasItsDevices' /\ MissingIsExplained' /\ LeftFilesAreExplained'
  BY <1>1, <1>p, <1>4, <1>5 DEF RunningHasItsDevices, MissingIsExplained, LeftFilesAreExplained
<1>9. AddressWhenOn' /\ CacheIsFresh' /\ LossIsExplained'
  BY <1>1, AddressesLeftAlone
<1> QED
  BY <1>6, <1>7, <1>8, <1>9

\* What does not touch the devices keeps what is known of them.
LEMMA DevicesLeftAlone ==
    ASSUME DevicesIInv, UNCHANGED <<on, liveDev, confDev, files, created, nets, because>>
    PROVE  /\ NamesAreOld' /\ OffIsEmpty' /\ ConfIsLive'
           /\ RunningHasItsDevices' /\ MissingIsExplained' /\ LeftFilesAreExplained'
  BY DEF DevicesIInv, NamesAreOld, ConfIsLive, OffIsEmpty, RunningHasItsDevices, MissingIsExplained,
         LeftFilesAreExplained

\* Reading, forgetting and getting an address.
LEMMA AddressStep ==
    ASSUME DevicesIInv, read_ips \/ drop_cache \/ guest_address
    PROVE  DevicesIInv'
<1> USE DEF DevicesIInv
<1>0. UNCHANGED <<on, liveDev, confDev, files, created, nets, added, starts, because>>
  BY DEF read_ips, drop_cache, guest_address
<1>a. /\ NamesAreOld' /\ OffIsEmpty' /\ ConfIsLive'
      /\ RunningHasItsDevices' /\ MissingIsExplained' /\ LeftFilesAreExplained'
  BY <1>0, DevicesLeftAlone
<1>b. /\ cached \in [list : BOOLEAN, ips : 0 .. MaxStarts] /\ address \in 0 .. MaxStarts /\ 0 \in 0 .. MaxStarts
      /\ lostBy \in {NoOp} \cup [name : PowerOps, raised : BOOLEAN]
  BY DevicesAssumption DEF DevicesTypeOK
<1>1. CASE read_ips
  <2>1. address' = address
    BY <1>1 DEF read_ips
  <2>2. CASE Remembers
    <3>1. cached' = cached /\ lostBy' = lostBy
      BY <1>1, <2>2 DEF read_ips
    <3>2. DevicesTypeOK'
      BY <1>0, <2>1, <3>1 DEF DevicesTypeOK
    <3> QED
      BY <1>0, <1>a, <2>1, <3>1, <3>2, AddressesLeftAlone
  <2>3. CASE ~Remembers
    <3>1. cached' = [list |-> TRUE, ips |-> address] /\ lostBy' = NoOp
      BY <1>1, <2>3 DEF read_ips, Cache
    <3>2. cached' \in [list : BOOLEAN, ips : 0 .. MaxStarts] /\ cached'.ips = address
      BY <1>b, <3>1
    <3>3. DevicesTypeOK'
      BY <1>0, <2>1, <3>1, <3>2 DEF DevicesTypeOK
    <3>4. AddressWhenOn' /\ CacheIsFresh' /\ LossIsExplained'
      BY <1>0, <2>1, <3>1, <3>2 DEF AddressWhenOn, CacheIsFresh, LossIsExplained
    <3> QED
      BY <1>a, <3>3, <3>4
  <2> QED
    BY <2>2, <2>3
<1>2. CASE drop_cache
  <2>1. cached' = NoList /\ lostBy' = NoOp /\ address' = address
    BY <1>2 DEF drop_cache
  <2>2. cached' \in [list : BOOLEAN, ips : 0 .. MaxStarts] /\ cached'.ips = 0
    BY <1>b, <2>1 DEF NoList
  <2>3. DevicesTypeOK'
    BY <1>0, <2>1, <2>2 DEF DevicesTypeOK
  <2>4. AddressWhenOn' /\ CacheIsFresh' /\ LossIsExplained'
    BY <1>0, <2>1, <2>2 DEF AddressWhenOn, CacheIsFresh, LossIsExplained
  <2> QED
    BY <1>a, <2>3, <2>4
<1>3. CASE guest_address
  <2>1. on /\ address = 0 /\ cached' = cached /\ lostBy' = lostBy
    BY <1>3 DEF guest_address
  <2>2. address' \in 0..MaxStarts
    BY <1>3, DevicesAssumption DEF guest_address, DevicesTypeOK
  <2>3. DevicesTypeOK'
    BY <1>0, <2>1, <2>2 DEF DevicesTypeOK
  <2>4. AddressWhenOn' /\ CacheIsFresh' /\ LossIsExplained'
    BY <1>0, <2>1 DEF AddressWhenOn, CacheIsFresh, LossIsExplained
  <2> QED
    BY <1>a, <2>3, <2>4
<1> QED
  BY <1>1, <1>2, <1>3

\* What an operation does to what is remembered: the list is dropped, or the
\* operation is the first one that lost the address, or it changes nothing.
LEMMA AfterOpFacts ==
    ASSUME DevicesIInv, NEW name \in PowerOps, NEW raised \in BOOLEAN, AfterOp(name, raised)
    PROVE  /\ because \subseteq because'
           /\ Off(name) /\ on => \A f \in InUse(liveDev) \ InUse(Defined(name)) : <<"powered off", f>> \in because'
           /\ cached' \in [list : BOOLEAN, ips : 0 .. MaxStarts]
           /\ lostBy' \in {NoOp} \cup [name : PowerOps, raised : BOOLEAN]
           /\ LossIsExplained'
           /\ lostBy' = NoOp => cached'.ips = 0 \/ (cached' = cached /\ lostBy = NoOp /\ (~Off(name) \/ ~on))
<1>0. /\ cached \in [list : BOOLEAN, ips : 0 .. MaxStarts] /\ 0 \in 0..MaxStarts
      /\ lostBy \in {NoOp} \cup [name : PowerOps, raised : BOOLEAN] /\ LossIsExplained
  BY DevicesAssumption DEF DevicesIInv, DevicesTypeOK
<1>1. because \subseteq because'
  BY DEF AfterOp, Note
<1>2. ASSUME Off(name), on, NEW f \in InUse(liveDev) \ InUse(Defined(name)) PROVE <<"powered off", f>> \in because'
  BY <1>2 DEF AfterOp, Note
<1>3. CASE DropsCache(name) /\ ~raised
  <2>1. cached' = [list |-> FALSE, ips |-> 0] /\ lostBy' = NoOp
    BY <1>3 DEF AfterOp, NoList
  <2> QED
    BY <1>0, <1>1, <1>2, <2>1 DEF LossIsExplained
<1>4. CASE ~(DropsCache(name) /\ ~raised) /\ Off(name) /\ on /\ lostBy = NoOp
  <2>1. cached' = cached /\ lostBy' = [name |-> name, raised |-> raised]
    BY <1>4 DEF AfterOp
  <2>2. lostBy' \in [name : PowerOps, raised : BOOLEAN] /\ lostBy'.name = name /\ lostBy'.raised = raised
    BY <2>1
  <2>3. raised \/ name \in KeepsList
    BY <1>4 DEF DropsCache, Off, PowerOps, OfNodes, KeepsList
  <2>4. name # "none"
    BY DEF PowerOps, OfNodes
  <2>5. lostBy' # NoOp
    BY <2>2, <2>4 DEF NoOp
  <2> QED
    BY <1>0, <1>1, <1>2, <2>1, <2>2, <2>3, <2>5 DEF LossIsExplained
<1>5. CASE ~(DropsCache(name) /\ ~raised) /\ ~(Off(name) /\ on /\ lostBy = NoOp)
  <2>1. cached' = cached /\ lostBy' = lostBy
    BY <1>5 DEF AfterOp
  <2> QED
    BY <1>0, <1>1, <1>2, <1>5, <2>1 DEF LossIsExplained
<1> QED
  BY <1>3, <1>4, <1>5

\* The operations that change the power of the node: it goes off, or it is
\* created from its persistent definition.
LEMMA PowerStep ==
    ASSUME DevicesIInv, NEW name \in PowerOps, power_op(name)
    PROVE  DevicesIInv'
<1> USE DEF DevicesIInv
<1>0. /\ liveDev \in Definitions /\ confDev \in Definitions /\ Defined(name) \in Definitions
      /\ confDev' = Defined(name) /\ UNCHANGED <<files, created, nets, added>>
      /\ starts \in 0..MaxStarts /\ (starts < MaxStarts => starts + 1 \in 0..MaxStarts) /\ 0 \in 0..MaxStarts
  BY DevicesAssumption DEF power_op, DevicesTypeOK, Defined, XMLDesc
<1>a. Defined(name) = confDev \/ (on /\ Off(name) /\ Defined(name) = liveDev)
  BY DEF Defined, XMLDesc, Off
<1>b. /\ OneLetter(Defined(name)) /\ InUse(Defined(name)) \subseteq 1..created
      /\ \A f \in InUse(Defined(name)) \ files : <<"detached live", f>> \in because
      /\ \A n \in Defined(name).nics \ nets : <<"detached live", n>> \in because
  BY <1>a DEF NamesAreOld, RunningHasItsDevices, MissingIsExplained
<1>1. ASSUME NEW raised \in BOOLEAN, AfterOp(name, raised),
             Off(name) \/ ~on, address' = 0, starts' \in 0..MaxStarts,
             \/ on' = FALSE /\ liveDev' = NoDevices
             \/ on' = TRUE /\ liveDev' = Defined(name) /\ Startable(Defined(name))
      PROVE  DevicesIInv'
  <2>1. /\ because \subseteq because' /\ cached' \in [list : BOOLEAN, ips : 0 .. MaxStarts]
        /\ lostBy' \in {NoOp} \cup [name : PowerOps, raised : BOOLEAN] /\ LossIsExplained'
        /\ lostBy' = NoOp => cached'.ips = 0 \/ (cached' = cached /\ lostBy = NoOp /\ (~Off(name) \/ ~on))
        /\ Off(name) /\ on => \A f \in InUse(liveDev) \ InUse(Defined(name)) : <<"powered off", f>> \in because'
    BY <1>1, AfterOpFacts
  <2>2. /\ liveDev' \in Definitions /\ OneLetter(liveDev') /\ InUse(liveDev') \subseteq InUse(Defined(name))
        /\ on' \in BOOLEAN /\ InUse(liveDev') \subseteq files /\ liveDev'.nics \subseteq nets
        /\ ~on' => liveDev' = NoDevices
        /\ on' => liveDev' = Defined(name)
    <3>1. CASE on' = FALSE /\ liveDev' = NoDevices
      BY <3>1, EmptyDefinition
    <3>2. CASE on' = TRUE /\ liveDev' = Defined(name) /\ Startable(Defined(name))
      BY <1>0, <1>b, <3>2 DEF Startable
    <3> QED
      BY <1>1, <3>1, <3>2
  <2>3. DevicesTypeOK'
    BY <1>0, <1>1, <2>1, <2>2 DEF DevicesTypeOK
  <2>4. NamesAreOld' /\ OffIsEmpty' /\ ConfIsLive'
    BY <1>0, <1>b, <2>2 DEF NamesAreOld, OffIsEmpty, ConfIsLive
  <2>5. RunningHasItsDevices' /\ MissingIsExplained'
    BY <1>0, <1>b, <2>1, <2>2 DEF RunningHasItsDevices, MissingIsExplained
  <2>6. LeftFilesAreExplained'
    <3>1. ASSUME NEW f \in files, f \notin InUse(Defined(name))
          PROVE  <<"powered off", f>> \in because' \/ <<"refused", f>> \in because'
      <4>1. CASE f \in InUse(liveDev)
        <5>1. Off(name) /\ on
          BY <1>1, <4>1, EmptyDefinition DEF OffIsEmpty
        <5> QED
          BY <2>1, <3>1, <4>1, <5>1
      <4>2. CASE f \notin InUse(liveDev) /\ f \notin InUse(confDev)
        BY <2>1, <3>1, <4>2 DEF LeftFilesAreExplained
      <4>3. CASE f \notin InUse(liveDev) /\ f \in InUse(confDev)
        \* A persistent disk whose file is there is in force while the node is on.
        BY <1>a, <3>1, <4>3 DEF ConfIsLive
      <4> QED
        BY <4>1, <4>2, <4>3
    <3> QED
      BY <1>0, <3>1 DEF LeftFilesAreExplained
  <2>7. CacheIsFresh'
    \* A node that was off already has no address to remember, unless one was lost.
    BY <1>1, <2>1 DEF CacheIsFresh
  <2>8. AddressWhenOn'
    BY <1>1 DEF AddressWhenOn
  <2> QED
    BY <2>1, <2>3, <2>4, <2>5, <2>6, <2>7, <2>8
<1>2. MayRaise(name) \subseteq BOOLEAN
  BY DEF MayRaise
<1>3. CASE ~On(name) /\ PoweredOff
  <2>1. PICK raised \in BOOLEAN : AfterOp(name, raised)
    BY <1>2, <1>3 DEF power_op
  <2>2. Off(name) /\ address' = 0 /\ starts' = starts /\ on' = FALSE /\ liveDev' = NoDevices
    BY <1>3 DEF On, Off, PoweredOff
  <2> QED
    BY <1>0, <1>1, <2>1, <2>2
<1>4. CASE ~Off(name) /\ on /\ UNCHANGED <<on, liveDev, address, starts>> /\ \E raised \in MayRaise(name) : AfterOp(name, raised)
  <2>1. PICK raised \in BOOLEAN : AfterOp(name, raised)
    BY <1>2, <1>4
  <2>2. /\ because \subseteq because' /\ cached' \in [list : BOOLEAN, ips : 0 .. MaxStarts]
        /\ lostBy' \in {NoOp} \cup [name : PowerOps, raised : BOOLEAN] /\ LossIsExplained'
        /\ lostBy' = NoOp => cached'.ips = 0 \/ (cached' = cached /\ lostBy = NoOp)
    BY <2>1, AfterOpFacts
  <2>3. confDev' = confDev
    BY <1>0, <1>4 DEF Defined, Off
  <2>4. DevicesTypeOK'
    BY <1>0, <1>4, <2>2, <2>3 DEF DevicesTypeOK
  <2>5. NamesAreOld' /\ OffIsEmpty' /\ ConfIsLive'
    BY <1>0, <1>4, <2>3 DEF NamesAreOld, OffIsEmpty, ConfIsLive
  <2>6. RunningHasItsDevices' /\ MissingIsExplained' /\ LeftFilesAreExplained'
    BY <1>0, <1>4, <2>2, <2>3 DEF RunningHasItsDevices, MissingIsExplained, LeftFilesAreExplained
  <2>7. CacheIsFresh' /\ AddressWhenOn'
    BY <1>4, <2>2 DEF CacheIsFresh, AddressWhenOn
  <2> QED
    BY <2>2, <2>4, <2>5, <2>6, <2>7
<1>5. CASE /\ On(name) /\ (Off(name) \/ ~on) /\ Startable(Defined(name)) /\ starts < MaxStarts
           /\ on' = TRUE /\ liveDev' = Defined(name) /\ starts' = starts + 1 /\ address' = 0
           /\ \E raised \in BOOLEAN : AfterOp(name, raised)
  BY <1>0, <1>1, <1>5
<1>6. CASE On(name) /\ (Off(name) \/ ~on) /\ ~Startable(Defined(name)) /\ PoweredOff /\ AfterOp(name, TRUE)
  <2>1. address' = 0 /\ starts' = starts /\ on' = FALSE /\ liveDev' = NoDevices
    BY <1>6 DEF PoweredOff
  <2> QED
    BY <1>0, <1>1, <1>6, <2>1
<1> QED
  BY <1>3, <1>4, <1>5, <1>6 DEF power_op

LEMMA DevicesStep == DevicesIInv /\ [DevicesNext]_devVars => DevicesIInv'
<1> SUFFICES ASSUME DevicesIInv, [DevicesNext]_devVars PROVE DevicesIInv'
  OBVIOUS
<1>1. CASE UNCHANGED devVars
  <2>1. UNCHANGED <<on, liveDev, confDev, files, created, nets, added, address, starts, cached, lostBy, because>>
    BY <1>1 DEF devVars
  <2>2. DevicesTypeOK'
    BY <2>1 DEF DevicesIInv, DevicesTypeOK
  <2> QED
    BY <2>1, <2>2, DevicesLeftAlone, AddressesLeftAlone DEF DevicesIInv
<1> QED
  BY <1>1, AttachStep, DetachStep, DefineStep, InterfaceStep, AddressStep, PowerStep DEF DevicesNext

LEMMA DevicesConclusion == DevicesIInv => DevicesAreExplained
  BY DEF DevicesIInv, CacheIsFresh, LossIsExplained, DevicesAreExplained, StaleIpsAreExplained, Remembers
-----------------------------------------------------------------------------
(***************************************************************************)
(* The Oracle cloud: OciApiController.                                     *)
(***************************************************************************)

\* Two lists of cleanup calls in order make one, if the second has nothing that
\* has to be before something of the first.
LEMMA ConcatInOrder ==
    ASSUME NEW list \in Seq(OciResource), NEW more \in Seq(OciResource),
           InOrder(list), InOrder(more),
           \A r \in Range(more), q \in Range(list) : ~Before(r, q)
    PROVE  /\ list \o more \in Seq(OciResource) /\ InOrder(list \o more)
           /\ Range(list \o more) = Range(list) \cup Range(more)
<1> DEFINE both == list \o more
<1>0. Len(list) \in Nat /\ Len(more) \in Nat /\ DOMAIN list = 1..Len(list) /\ DOMAIN more = 1..Len(more)
  OBVIOUS
<1>1. /\ both \in Seq(OciResource) /\ Len(both) = Len(list) + Len(more)
      /\ \A i \in 1..Len(list) + Len(more) :
            both[i] = IF i <= Len(list) THEN list[i] ELSE more[i - Len(list)]
  BY ConcatProperties
<1> HIDE DEF both
<1>2. DOMAIN both = 1..Len(list) + Len(more)
  BY <1>1
<1>3. ASSUME NEW i \in 1..Len(list) + Len(more)
      PROVE  \/ i \in 1..Len(list) /\ both[i] = list[i] /\ both[i] \in Range(list)
             \/ i - Len(list) \in 1..Len(more) /\ both[i] = more[i - Len(list)] /\ both[i] \in Range(more)
  <2>1. CASE i <= Len(list)
    BY <1>0, <1>1, <2>1 DEF Range
  <2>2. CASE ~(i <= Len(list))
    <3>1. i - Len(list) \in DOMAIN more
      BY <1>0, <2>2
    <3> QED
      BY <1>0, <1>1, <2>2, <3>1 DEF Range
  <2> QED
    BY <2>1, <2>2
<1>4. ASSUME NEW i \in 1..Len(both), NEW j \in 1..Len(both), Before(both[i], both[j]) PROVE i < j
  <2>0. i \in 1..Len(list) + Len(more) /\ j \in 1..Len(list) + Len(more)
    BY <1>1
  <2>1. CASE i \in 1..Len(list) /\ both[i] = list[i]
    <3>1. CASE j \in 1..Len(list) /\ both[j] = list[j]
      BY <1>4, <2>1, <3>1 DEF InOrder
    <3>2. CASE j - Len(list) \in 1..Len(more)
      BY <1>0, <2>0, <2>1, <3>2
    <3> QED
      BY <1>3, <2>0, <3>1, <3>2
  <2>2. CASE i - Len(list) \in 1..Len(more) /\ both[i] = more[i - Len(list)] /\ both[i] \in Range(more)
    <3>1. both[j] \notin Range(list)
      BY <1>4, <2>2
    <3>2. j - Len(list) \in 1..Len(more) /\ both[j] = more[j - Len(list)]
      BY <1>3, <2>0, <3>1
    <3>3. i - Len(list) < j - Len(list)
      BY <1>4, <2>2, <3>2 DEF InOrder
    <3> QED
      BY <1>0, <2>0, <3>3
  <2> QED
    BY <1>3, <2>0, <2>1, <2>2
<1>5. Range(both) \subseteq Range(list) \cup Range(more)
  BY <1>2, <1>3 DEF Range
<1>6. ASSUME NEW i \in 1..Len(list) PROVE list[i] \in Range(both)
  <2>1. i \in DOMAIN both /\ both[i] = list[i]
    BY <1>0, <1>1, <1>2
  <2> QED
    BY <2>1 DEF Range
<1>7. ASSUME NEW i \in 1..Len(more) PROVE more[i] \in Range(both)
  <2>1. /\ i + Len(list) \in 1..Len(list) + Len(more) /\ ~(i + Len(list) <= Len(list))
        /\ (i + Len(list)) - Len(list) = i
    BY <1>0
  <2>2. both[i + Len(list)] = more[i]
    BY <1>1, <2>1
  <2> QED
    BY <1>2, <2>1, <2>2 DEF Range
<1>8. Range(list) \cup Range(more) \subseteq Range(both)
  BY <1>0, <1>6, <1>7 DEF Range
<1> QED
  BY <1>1, <1>4, <1>5, <1>8 DEF both, InOrder

\* Lists with at most two calls.
LEMMA ShortLists ==
    ASSUME NEW r \in OciResource, NEW q \in OciResource, ~Before(q, r)
    PROVE  /\ <<>> \in Seq(OciResource) /\ InOrder(<<>>) /\ Range(<<>>) = {}
           /\ <<r>> \in Seq(OciResource) /\ InOrder(<<r>>) /\ Range(<<r>>) = {r}
           /\ <<r, q>> \in Seq(OciResource) /\ InOrder(<<r, q>>) /\ Range(<<r, q>>) = {r, q}
<1>1. ~Before(r, r) /\ ~Before(q, q)
  BY DEF Before
<1>2. Len(<<>>) = 0 /\ DOMAIN <<>> = {}
  OBVIOUS
<1>3. Len(<<r>>) = 1 /\ DOMAIN <<r>> = {1} /\ 1..Len(<<r>>) = {1}
  OBVIOUS
<1>4. Len(<<r, q>>) = 2 /\ DOMAIN <<r, q>> = {1, 2} /\ 1..Len(<<r, q>>) = {1, 2}
  OBVIOUS
<1>5. <<>> \in Seq(OciResource) /\ InOrder(<<>>) /\ Range(<<>>) = {}
  BY <1>2, EmptySeq DEF InOrder, Range
<1>6. <<r>> \in Seq(OciResource) /\ InOrder(<<r>>) /\ Range(<<r>>) = {r}
  BY <1>1, <1>3 DEF InOrder, Range
<1>7. <<r, q>> \in Seq(OciResource) /\ Range(<<r, q>>) = {r, q}
  BY <1>4 DEF Range
<1>8. InOrder(<<r, q>>)
  BY <1>1, <1>4 DEF InOrder
<1> QED
  BY <1>5, <1>6, <1>7, <1>8

\* A call is registered at the end of the list.
LEMMA AppendInOrder ==
    ASSUME NEW list \in Seq(OciResource), NEW r \in OciResource,
           InOrder(list), \A q \in Range(list) : ~Before(r, q)
    PROVE  /\ Append(list, r) \in Seq(OciResource) /\ InOrder(Append(list, r))
           /\ Range(Append(list, r)) = Range(list) \cup {r}
           /\ Len(Append(list, r)) = Len(list) + 1 /\ Append(list, r) # <<>>
<1>1. ~Before(r, r)
  BY DEF Before
<1>2. <<r>> \in Seq(OciResource) /\ InOrder(<<r>>) /\ Range(<<r>>) = {r}
  BY <1>1, ShortLists
<1>3. Append(list, r) = list \o <<r>>
  BY AppendIsConcat
<1>4. \A p \in Range(<<r>>), q \in Range(list) : ~Before(p, q)
  BY <1>2
<1>5. /\ list \o <<r>> \in Seq(OciResource) /\ InOrder(list \o <<r>>)
      /\ Range(list \o <<r>>) = Range(list) \cup Range(<<r>>)
  BY <1>2, <1>4, ConcatInOrder
<1>6. Len(Append(list, r)) = Len(list) + 1 /\ Append(list, r) # <<>>
  <2>1. Len(list) \in Nat /\ Len(Append(list, r)) = Len(list) + 1 /\ Len(<<>>) = 0
    OBVIOUS
  <2> QED
    BY <2>1
<1> QED
  BY <1>2, <1>3, <1>5, <1>6

\* The list made from the cloud has all that the cluster has, in order.
LEMMA GeneratedFacts ==
    ASSUME OciTypeOK, Mine("bucket") \in ociCloud
    PROVE  /\ Generated \in Seq(OciResource) /\ InOrder(Generated)
           /\ \A k \in OciKinds : Mine(k) \in ociCloud => Mine(k) \in Range(Generated)
           /\ Mine("nodes") \in Range(Generated)
           /\ \A r \in Range(Generated) : r[2] = ociCur
<1> DEFINE found(k) == IF Mine(k) \in ociCloud THEN <<Mine(k)>> ELSE <<>>
           one == <<Mine("stack"), Mine("bucket")>>
           two == one \o found("preauth")
           three == two \o found("object")
           last == <<Mine("nodes")>>
<1>0. ASSUME NEW k \in OciKinds
      PROVE  Mine(k) \in OciResource /\ Mine(k)[1] = k /\ Mine(k)[2] = ociCur
  BY <1>0 DEF OciTypeOK, OciResource, Mine
<1>a. {"bucket", "object", "preauth", "stack", "nodes"} = OciKinds
  BY DEF OciKinds
<1>1. ASSUME NEW k \in OciKinds, k # "bucket", k # "stack", NEW q
      PROVE  ~Before(Mine(k), q)
  BY <1>0, <1>1 DEF Before
<1>2. ~Before(Mine("bucket"), Mine("stack")) /\ ~Before(Mine("nodes"), Mine("nodes"))
  BY <1>0, <1>a DEF Before
<1>3. one \in Seq(OciResource) /\ InOrder(one) /\ Range(one) = {Mine("stack"), Mine("bucket")}
  BY <1>0, <1>a, <1>2, ShortLists
<1>4. last \in Seq(OciResource) /\ InOrder(last) /\ Range(last) = {Mine("nodes")}
  BY <1>0, <1>a, <1>2, ShortLists
<1>5. ASSUME NEW k \in {"preauth", "object"}
      PROVE  /\ found(k) \in Seq(OciResource) /\ InOrder(found(k))
             /\ Range(found(k)) = IF Mine(k) \in ociCloud THEN {Mine(k)} ELSE {}
  <2>1. k \in OciKinds /\ Mine(k) \in OciResource /\ ~Before(Mine(k), Mine(k))
    BY <1>0, <1>1, <1>5, <1>a
  <2> QED
    BY <2>1, ShortLists
<1> HIDE DEF found, one, last
<1>6. /\ two \in Seq(OciResource) /\ InOrder(two)
      /\ Range(two) = Range(one) \cup Range(found("preauth"))
  <2>1. \A r \in Range(found("preauth")), q \in Range(one) : ~Before(r, q)
    BY <1>1, <1>5, <1>a
  <2> QED
    BY <1>3, <1>5, <2>1, ConcatInOrder
<1> HIDE DEF two
<1>7. /\ three \in Seq(OciResource) /\ InOrder(three)
      /\ Range(three) = Range(two) \cup Range(found("object"))
  <2>1. \A r \in Range(found("object")), q \in Range(two) : ~Before(r, q)
    BY <1>1, <1>5, <1>a
  <2> QED
    BY <1>5, <1>6, <2>1, ConcatInOrder
<1> HIDE DEF three
<1>8. /\ three \o last \in Seq(OciResource) /\ InOrder(three \o last)
      /\ Range(three \o last) = Range(three) \cup Range(last)
  <2>1. \A r \in Range(last), q \in Range(three) : ~Before(r, q)
    BY <1>1, <1>4, <1>a
  <2> QED
    BY <1>4, <1>7, <2>1, ConcatInOrder
<1>9. Generated = three \o last
  BY DEF Generated, three, two, one, found, last
<1>10. \A k \in OciKinds : Mine(k) \in ociCloud => Mine(k) \in Range(Generated)
  BY <1>a, <1>3, <1>4, <1>5, <1>6, <1>7, <1>8, <1>9
<1>11. Mine("nodes") \in Range(Generated)
  BY <1>4, <1>8, <1>9
<1>12. \A r \in Range(Generated) : r[2] = ociCur
  BY <1>a, <1>0, <1>3, <1>4, <1>5, <1>6, <1>7, <1>8, <1>9
<1> QED
  BY <1>8, <1>9, <1>10, <1>11, <1>12

LEMMA OciInitHolds == OciInit => OciIInv
<1> SUFFICES ASSUME OciInit PROVE OciIInv
  OBVIOUS
<1>1. <<>> \in Seq(OciResource) /\ Len(<<>>) = 0 /\ Range(<<>>) = {} /\ InOrder(<<>>)
  BY EmptySeq DEF Range, InOrder
<1>2. ociNext \in 0..Len(ociList) /\ ociFaults \in 0..MaxOciFaults
  BY <1>1, OciAssumption DEF OciInit
<1>3. OciTypeOK
  BY <1>1, <1>2 DEF OciInit, OciTypeOK
<1>4. From(ociPc) = {}
  BY DEF OciInit, From
<1> QED
  BY <1>1, <1>3, <1>4 DEF OciInit, OciIInv, NotYetMade, ListInOrder, NodesHaveStack, ListIsComplete,
                          CleanedIsGone, OciKinds

\* What a test makes before the apply job, each time with its cleanup call.
LEMMA CreateStep ==
    ASSUME OciIInv, NEW kind, NEW next,
           <<kind, next>> \in {<<"bucket", "object">>, <<"object", "preauth">>,
                               <<"preauth", "stack">>, <<"stack", "nodes">>},
           CreateAndRegister(kind, next)
    PROVE  OciIInv'
<1> DEFINE r == Mine(kind)
<1> USE DEF OciIInv
<1>1. /\ ociPc = kind /\ kind \in OciKinds /\ kind # "nodes" /\ next \in OciKinds \ {"bucket"}
      /\ kind \in From(kind) /\ From(next) \subseteq From(kind) \ {kind}
      /\ kind = "stack" => "nodes" \in From(kind)
      /\ kind = "bucket" => From(kind) = OciKinds
      /\ next = "nodes" => kind = "stack"
  BY DEF CreateAndRegister, OciKinds, From
<1>2. /\ r \in OciResource /\ r[1] = kind /\ r[2] = ociCur /\ r = <<kind, ociCur>>
      /\ \A k : Mine(k) = <<k, ociCur>> /\ Mine(k)' = Mine(k)
  BY <1>1 DEF OciTypeOK, OciResource, Mine, CreateAndRegister
<1>3. UNCHANGED <<ociCur, ociNext, ociFailed, ociLost>>
  BY DEF CreateAndRegister
<1> HIDE DEF r
<1>4. CASE /\ ociCloud' = ociCloud \cup {r} /\ ociList' = Append(ociList, r)
           /\ ociPc' = next /\ UNCHANGED ociFaults
  <2>1. \A q \in Range(ociList) : ~Before(r, q)
    <3> SUFFICES ASSUME NEW q \in Range(ociList), Before(r, q) PROVE FALSE
      OBVIOUS
    <3>1. q \in OciResource
      BY DEF OciTypeOK, Range
    <3>a. q = <<q[1], q[2]>> /\ q[1] \in OciKinds
      BY <3>1 DEF OciResource
    <3>2. q = Mine(q[1]) /\ q[1] \in OciKinds
      BY <1>2, <3>a DEF Before
    <3>3. q[1] \in From(kind)
      BY <1>1, <1>2, <3>2 DEF Before, OciKinds
    <3> QED
      BY <1>1, <3>2, <3>3 DEF NotYetMade
  <2>2. /\ ociList' \in Seq(OciResource) /\ InOrder(ociList') /\ Range(ociList') = Range(ociList) \cup {r}
        /\ Len(ociList') = Len(ociList) + 1 /\ ociList' # <<>>
    BY <1>2, <1>4, <2>1, AppendInOrder DEF OciTypeOK, ListInOrder
  <2>3. ociNext' \in 0..Len(ociList')
    BY <1>3, <2>2 DEF OciTypeOK
  <2>4. OciTypeOK'
    BY <1>1, <1>2, <1>3, <1>4, <2>2, <2>3 DEF OciTypeOK
  <2>5. NotYetMade'
    <3>1. ASSUME NEW k \in From(next) PROVE Mine(k)' \notin ociCloud' \cup Range(ociList')
      <4>1. k # kind /\ Mine(k) \notin ociCloud \cup Range(ociList)
        BY <1>1, <3>1 DEF NotYetMade
      <4>2. Mine(k) # r
        BY <1>2, <4>1
      <4> QED
        BY <1>2, <1>4, <2>2, <4>1, <4>2
    <3>2. From(ociPc)' = From(next)
      BY <1>4 DEF From
    <3>3. next = "nodes" => Mine("stack") \in ociCloud'
      BY <1>1, <1>2, <1>4
    <3> QED
      BY <1>2, <1>4, <2>2, <3>1, <3>2, <3>3 DEF NotYetMade, From
  <2>6. NodesHaveStack'
    <3> SUFFICES ASSUME NEW c \in OciClusters, <<"nodes", c>> \in ociCloud' \ ociFailed'
                 PROVE  /\ <<"stack", c>> \in ociCloud'
                        /\ <<"stack", c>> \in Range(ociList') => <<"nodes", c>> \in Range(ociList')
      BY DEF NodesHaveStack
    <3>1. <<"nodes", c>> \in ociCloud \ ociFailed
      BY <1>1, <1>2, <1>3, <1>4
    <3>2. r # <<"stack", c>>
      BY <1>1, <1>2, <3>1 DEF NotYetMade
    <3> QED
      BY <1>4, <2>2, <3>1, <3>2 DEF NodesHaveStack
  <2>7. ListIsComplete'
    <3>1. ASSUME NEW k \in OciKinds, Mine(k) \in ociCloud
          PROVE  Mine(k) \in Range(ociList) \cup ociLost
      BY <1>1, <3>1 DEF ListIsComplete, NotYetMade, OciKinds
    <3> QED
      BY <1>2, <1>3, <1>4, <2>2, <3>1 DEF ListIsComplete
  <2>8. CleanedIsGone'
    BY <1>1, <1>4 DEF CleanedIsGone, OciKinds
  <2> QED
    BY <2>2, <2>4, <2>5, <2>6, <2>7, <2>8 DEF ListInOrder
<1>5. CASE OciFault /\ ociPc' = "raised" /\ UNCHANGED <<ociCloud, ociList>>
  <2>1. ociFaults' \in 0..MaxOciFaults
    BY <1>5, OciAssumption DEF OciFault, OciTypeOK
  <2>2. OciTypeOK'
    BY <1>3, <1>5, <2>1 DEF OciTypeOK
  <2>3. From(ociPc)' = {}
    BY <1>5 DEF From
  <2>4. NotYetMade' /\ CleanedIsGone'
    BY <1>5, <2>3 DEF NotYetMade, CleanedIsGone, OciKinds
  <2>5. ListInOrder' /\ NodesHaveStack'
    BY <1>3, <1>5 DEF ListInOrder, InOrder, NodesHaveStack
  <2>6. ociPc # "idle"
    BY <1>1 DEF OciKinds
  <2>7. ListIsComplete'
    BY <1>2, <1>3, <1>5, <2>6 DEF ListIsComplete
  <2> QED
    BY <2>2, <2>4, <2>5, <2>7
<1> QED
  BY <1>4, <1>5 DEF CreateAndRegister, r

\* A stack whose creation raised, and the apply job with its destroy job.
LEMMA StackAndJobStep ==
    ASSUME OciIInv, create_stack \/ apply_job_from_stack
    PROVE  OciIInv'
<1> USE DEF OciIInv
<1>0. /\ OciKinds = {"bucket", "object", "preauth", "stack", "nodes"}
      /\ \A k : Mine(k) = <<k, ociCur>>
      /\ \A k \in OciKinds : Mine(k) \in OciResource
      /\ UNCHANGED ociCur => \A k : Mine(k)' = Mine(k)
  BY DEF OciTypeOK, OciResource, Mine, OciKinds
<1>1. CASE CreateAndRegister("stack", "nodes")
  BY <1>1, CreateStep
<1>2. CASE /\ ociPc = "stack" /\ OciFault
           /\ ociCloud' = ociCloud \cup {Mine("stack")} /\ ociLost' = ociLost \cup {Mine("stack")}
           /\ ociPc' = "raised" /\ UNCHANGED <<ociList, ociCur, ociNext, ociFailed>>
  <2>1. ociFaults' \in 0..MaxOciFaults
    BY <1>2, OciAssumption DEF OciFault, OciTypeOK
  <2>2. OciTypeOK'
    BY <1>0, <1>2, <2>1 DEF OciTypeOK
  <2>3. From(ociPc)' = {}
    BY <1>2 DEF From
  <2>4. NotYetMade' /\ CleanedIsGone' /\ ListInOrder'
    BY <1>0, <1>2, <2>3 DEF NotYetMade, CleanedIsGone, ListInOrder, InOrder
  <2>5. NodesHaveStack'
    <3>1. Mine("stack") # <<"nodes", ociCur>> /\ \A c : Mine("stack") # <<"nodes", c>>
      BY <1>0
    <3> QED
      BY <1>2, <3>1 DEF NodesHaveStack
  <2>6. ListIsComplete'
    BY <1>0, <1>2 DEF ListIsComplete
  <2> QED
    BY <2>2, <2>4, <2>5, <2>6
<1>3. CASE apply_job_from_stack
  <2> DEFINE r == Mine("nodes")
  <2>1. /\ ociPc = "nodes" /\ ociList' = Append(ociList, r)
        /\ ociCloud' \in {ociCloud, ociCloud \cup {r}} /\ ociPc' \in {"ready", "raised"}
        /\ UNCHANGED <<ociCur, ociNext, ociFailed, ociLost>>
    BY <1>3 DEF apply_job_from_stack
  <2>2. r \in OciResource /\ r = <<"nodes", ociCur>> /\ \A q : ~Before(r, q)
    BY <1>0 DEF Before
  <2>3. \A k \in OciKinds : Mine(k)' = Mine(k)
    BY <1>0, <2>1
  <2> HIDE DEF r
  <2>4. /\ ociList' \in Seq(OciResource) /\ InOrder(ociList') /\ Range(ociList') = Range(ociList) \cup {r}
        /\ Len(ociList') = Len(ociList) + 1 /\ ociList' # <<>>
    BY <2>1, <2>2, AppendInOrder DEF OciTypeOK, ListInOrder
  <2>5. ociFaults' \in 0..MaxOciFaults
    BY <1>3, OciAssumption DEF apply_job_from_stack, OciFault, OciTypeOK
  <2>6. ociNext' \in 0..Len(ociList')
    BY <2>1, <2>4 DEF OciTypeOK
  <2>7. OciTypeOK'
    BY <2>1, <2>2, <2>4, <2>5, <2>6 DEF OciTypeOK
  <2>8. From(ociPc)' = {} /\ ociPc' \notin OciKinds \cup {"cleaning", "destroyed"}
    BY <1>0, <2>1 DEF From
  <2>9. NotYetMade' /\ CleanedIsGone' /\ ListInOrder'
    BY <1>0, <2>4, <2>8 DEF NotYetMade, CleanedIsGone, ListInOrder
  <2>10. NodesHaveStack'
    <3> SUFFICES ASSUME NEW c \in OciClusters, <<"nodes", c>> \in ociCloud' \ ociFailed'
                 PROVE  /\ <<"stack", c>> \in ociCloud'
                        /\ <<"stack", c>> \in Range(ociList') => <<"nodes", c>> \in Range(ociList')
      BY DEF NodesHaveStack
    <3>1. CASE c = ociCur
      BY <1>0, <2>1, <2>2, <2>4, <3>1 DEF NotYetMade
    <3>2. CASE c # ociCur
      <4>1. r # <<"nodes", c>> /\ r # <<"stack", c>>
        BY <2>2, <3>2
      <4> QED
        BY <2>1, <2>4, <4>1 DEF NodesHaveStack
    <3> QED
      BY <3>1, <3>2
  <2>11. ListIsComplete'
    <3>1. ociList # <<>> /\ ociPc # "idle"
      BY <1>0, <2>1 DEF NotYetMade
    <3> QED
      BY <2>1, <2>3, <2>4, <3>1 DEF ListIsComplete
  <2> QED
    BY <2>7, <2>9, <2>10, <2>11
<1> QED
  BY <1>1, <1>2, <1>3 DEF create_stack

\* A test begins, is left as it is, or its process dies.
LEMMA OciTestStep ==
    ASSUME OciIInv, oci_prepare_nodes \/ oci_no_teardown \/ oci_new_process
    PROVE  OciIInv'
<1> USE DEF OciIInv
<1>0. /\ OciKinds = {"bucket", "object", "preauth", "stack", "nodes"}
      /\ \A k : Mine(k) = <<k, ociCur>> /\ Mine(k)' = <<k, ociCur'>>
      /\ From("bucket") = OciKinds /\ From("idle") = {} /\ From("raised") = {}
      /\ From(ociPc)' = From(ociPc')
  BY DEF Mine, OciKinds, From
<1>1. CASE oci_prepare_nodes
  <2>1. /\ ociPc' = "bucket" /\ ociCur' \in OciClusters
        /\ \A k \in OciKinds : Mine(k)' \notin ociCloud \cup Range(ociList)
        /\ UNCHANGED <<ociCloud, ociList, ociNext, ociFailed, ociLost, ociFaults>>
    BY <1>0, <1>1 DEF oci_prepare_nodes
  <2>2. OciTypeOK'
    BY <1>0, <2>1 DEF OciTypeOK
  <2>3. NotYetMade'
    BY <1>0, <2>1 DEF NotYetMade
  <2>4. ListInOrder' /\ NodesHaveStack'
    BY <2>1 DEF ListInOrder, InOrder, NodesHaveStack
  <2>5. ListIsComplete' /\ CleanedIsGone'
    BY <2>1 DEF ListIsComplete, CleanedIsGone
  <2> QED
    BY <2>2, <2>3, <2>4, <2>5
<1>2. CASE oci_no_teardown
  <2>1. ociPc' = "idle" /\ UNCHANGED <<ociCloud, ociList, ociCur, ociNext, ociFailed, ociLost, ociFaults>>
    BY <1>2 DEF oci_no_teardown
  <2>2. OciTypeOK'
    BY <2>1 DEF OciTypeOK
  <2>3. NotYetMade'
    BY <1>0, <2>1 DEF NotYetMade
  <2>4. ListInOrder' /\ NodesHaveStack'
    BY <2>1 DEF ListInOrder, InOrder, NodesHaveStack
  <2>5. ListIsComplete' /\ CleanedIsGone'
    BY <2>1 DEF ListIsComplete, CleanedIsGone
  <2> QED
    BY <2>2, <2>3, <2>4, <2>5
<1>3. CASE oci_new_process
  <2>1. /\ ociPc' \in {"raised", "idle"} /\ ociList' = <<>> /\ ociNext' = 0 /\ ociCur' \in OciClusters
        /\ UNCHANGED <<ociCloud, ociFailed, ociLost, ociFaults>>
    BY <1>3 DEF oci_new_process
  <2>2. <<>> \in Seq(OciResource) /\ Len(<<>>) = 0 /\ Range(<<>>) = {} /\ InOrder(<<>>)
    BY EmptySeq DEF Range, InOrder
  <2>3. ociNext' \in 0..Len(ociList')
    BY <2>1, <2>2
  <2>4. OciTypeOK'
    BY <2>1, <2>2, <2>3 DEF OciTypeOK
  <2>5. NotYetMade'
    BY <1>0, <2>1 DEF NotYetMade
  <2>6. ListInOrder' /\ NodesHaveStack'
    BY <2>1, <2>2 DEF ListInOrder, NodesHaveStack
  <2>7. ListIsComplete' /\ CleanedIsGone'
    BY <2>1 DEF ListIsComplete, CleanedIsGone
  <2> QED
    BY <2>4, <2>5, <2>6, <2>7
<1> QED
  BY <1>1, <1>2, <1>3

\* destroy_all_nodes starts with a list that is complete and in order.
LEMMA OciDestroyStep ==
    ASSUME OciIInv, oci_destroy_all_nodes
    PROVE  OciIInv'
<1> USE DEF OciIInv
<1>0. /\ UNCHANGED <<ociCloud, ociCur, ociFailed, ociLost, ociFaults>>
      /\ \A k : Mine(k)' = Mine(k) /\ Mine(k) = <<k, ociCur>>
      /\ From(ociPc)' = From(ociPc') /\ From("cleaning") = {} /\ From("idle") = {}
      /\ ociPc # "idle" /\ "cleaning" \notin OciKinds /\ "idle" \notin OciKinds
      /\ "nodes" # "cleaning" /\ "nodes" # "idle"
  BY DEF oci_destroy_all_nodes, Mine, From, OciKinds
<1>1. CASE ociList # <<>> /\ ociPc' = "cleaning" /\ ociNext' = Len(ociList) /\ UNCHANGED ociList
  <2>1. Len(ociList) \in Nat /\ ociNext' \in 0..Len(ociList') /\ ociNext' + 1..Len(ociList') = {}
    BY <1>1 DEF OciTypeOK
  <2>2. OciTypeOK'
    BY <1>0, <1>1, <2>1 DEF OciTypeOK
  <2>3. NotYetMade'
    BY <1>0, <1>1 DEF NotYetMade
  <2>4. ListInOrder' /\ NodesHaveStack' /\ ListIsComplete'
    BY <1>0, <1>1 DEF ListInOrder, InOrder, NodesHaveStack, ListIsComplete
  <2>5. CleanedIsGone'
    BY <1>0, <1>1, <2>1 DEF CleanedIsGone
  <2> QED
    BY <2>2, <2>3, <2>4, <2>5
<1>2. CASE /\ ociList = <<>> /\ Mine("bucket") \in ociCloud
           /\ ociPc' = "cleaning" /\ ociNext' = Len(Generated) /\ ociList' = Generated
  <2>1. /\ ociList' \in Seq(OciResource) /\ InOrder(ociList')
        /\ \A k \in OciKinds : Mine(k) \in ociCloud => Mine(k) \in Range(ociList')
        /\ Mine("nodes") \in Range(ociList')
        /\ \A r \in Range(ociList') : r[2] = ociCur
    BY <1>2, GeneratedFacts
  <2>2. ociNext' \in 0..Len(ociList') /\ ociNext' + 1..Len(ociList') = {}
    BY <1>2, <2>1
  <2>3. OciTypeOK'
    BY <1>0, <1>2, <2>1, <2>2 DEF OciTypeOK
  <2>4. NotYetMade'
    BY <1>0, <1>2 DEF NotYetMade
  <2>5. NodesHaveStack'
    <3>1. ASSUME NEW c \in OciClusters, <<"stack", c>> \in Range(ociList')
          PROVE  <<"nodes", c>> \in Range(ociList')
      <4>1. <<"stack", c>>[2] = ociCur
        BY <2>1, <3>1
      <4>2. c = ociCur
        BY <4>1
      <4> QED
        BY <1>0, <2>1, <4>2
    <3> QED
      BY <1>0, <3>1 DEF NodesHaveStack
  <2>6. ListIsComplete'
    BY <1>0, <2>1 DEF ListIsComplete
  <2>7. CleanedIsGone'
    BY <1>2, <2>2 DEF CleanedIsGone
  <2> QED
    BY <2>1, <2>3, <2>4, <2>5, <2>6, <2>7 DEF ListInOrder
<1>3. CASE ociPc' = "idle" /\ UNCHANGED <<ociNext, ociList>>
  <2>1. OciTypeOK' /\ NotYetMade'
    BY <1>0, <1>3 DEF OciTypeOK, NotYetMade
  <2>2. ListInOrder' /\ NodesHaveStack' /\ ListIsComplete' /\ CleanedIsGone'
    BY <1>0, <1>3 DEF ListInOrder, InOrder, NodesHaveStack, ListIsComplete, CleanedIsGone
  <2> QED
    BY <2>1, <2>2
<1> QED
  BY <1>1, <1>2, <1>3 DEF oci_destroy_all_nodes

\* Places of a list after a given one.
LEMMA LaterPlaces ==
    ASSUME NEW n \in Nat, NEW i \in 1..n, NEW p, i = p + 1, p \in 0..n
    PROVE  /\ \A j \in 1..n : i < j => j \in i + 1..n
           /\ \A j \in i + 1..n : j \in 1..n /\ ~(j < i)
           /\ \A j \in p + 1..n : j \in 1..n /\ (j = i \/ j \in i + 1..n)
  OBVIOUS

\* A cleanup call: newest first, so a bucket comes after what is in it and a
\* stack after the nodes it has made.
LEMMA RunCleanupStep ==
    ASSUME OciIInv, run_cleanup
    PROVE  OciIInv'
<1> USE DEF OciIInv
<1> DEFINE t == CleanupTarget
<1>0. /\ UNCHANGED <<ociList, ociCur, ociLost>> /\ ociPc = "cleaning"
      /\ \A k : Mine(k)' = Mine(k) /\ Mine(k) = <<k, ociCur>>
      /\ From(ociPc)' = From(ociPc') /\ From("cleaning") = {} /\ From("destroyed") = {}
      /\ "cleaning" \notin OciKinds /\ "destroyed" \notin OciKinds
      /\ Len(ociList) \in Nat /\ ociNext \in 0..Len(ociList)
  BY DEF run_cleanup, Mine, From, OciKinds, OciTypeOK
<1>1. CASE /\ ociNext > 0 /\ ociNext' = ociNext - 1 /\ UNCHANGED ociPc
           /\ ociCloud' \subseteq ociCloud /\ ociFailed \subseteq ociFailed'
           /\ \/ Deletable(t) /\ ociCloud' = ociCloud \ {t} /\ UNCHANGED <<ociFailed, ociFaults>>
              \/ ~Deletable(t) /\ UNCHANGED <<ociCloud, ociFailed, ociFaults>>
              \/ OciFault /\ ociFailed' = ociFailed \cup {t} /\ UNCHANGED ociCloud
  <2>0. Len(ociList) \in Nat
    BY <1>0
  <2>1. /\ ociNext \in 1..Len(ociList) /\ ociNext' \in 0..Len(ociList) /\ ociNext = ociNext' + 1
    BY <1>0, <1>1
  <2>a. /\ \A j \in 1..Len(ociList) : ociNext < j => j \in ociNext + 1..Len(ociList)
        /\ \A j \in ociNext + 1..Len(ociList) : j \in 1..Len(ociList) /\ ~(j < ociNext)
        /\ \A j \in ociNext' + 1..Len(ociList) :
              j \in 1..Len(ociList) /\ (j = ociNext \/ j \in ociNext + 1..Len(ociList))
    BY <2>0, <2>1, LaterPlaces
  <2>2. t = ociList[ociNext] /\ t \in OciResource /\ t \in Range(ociList)
    BY <2>1 DEF CleanupTarget, OciTypeOK, Range
  <2>3. t = <<t[1], t[2]>> /\ t[1] \in OciKinds /\ t[2] \in OciClusters
    BY <2>2 DEF OciResource
  <2> HIDE DEF t
  <2>4. \A r : r \in Range(ociList) <=> \E j \in 1..Len(ociList) : r = ociList[j]
    BY DEF Range, OciTypeOK
  <2>5. ociFaults' \in 0..MaxOciFaults
    BY <1>1, OciAssumption DEF OciFault, OciTypeOK
  <2>6. OciTypeOK'
    BY <1>0, <1>1, <2>1, <2>2, <2>5 DEF OciTypeOK
  <2>7. NotYetMade' /\ ListInOrder' /\ ListIsComplete'
    BY <1>0, <1>1 DEF NotYetMade, ListInOrder, InOrder, ListIsComplete
  <2>8. NodesHaveStack'
    <3> SUFFICES ASSUME NEW c \in OciClusters, <<"nodes", c>> \in ociCloud' \ ociFailed'
                 PROVE  <<"stack", c>> \in ociCloud'
      BY <1>0, <1>1 DEF NodesHaveStack
    <3>1. /\ <<"nodes", c>> \in ociCloud \ ociFailed /\ <<"stack", c>> \in ociCloud
          /\ <<"stack", c>> \in Range(ociList) => <<"nodes", c>> \in Range(ociList)
      BY <1>1 DEF NodesHaveStack
    <3>2. ASSUME t = <<"stack", c>> PROVE FALSE
      <4>1. PICK j \in 1..Len(ociList) : ociList[j] = <<"nodes", c>>
        BY <2>2, <2>4, <3>1, <3>2
      <4>2. Before(t, ociList[j])
        BY <3>2, <4>1 DEF Before
      <4>3. ociNext < j
        BY <2>1, <2>2, <4>2 DEF ListInOrder, InOrder
      <4>4. j \in ociNext + 1..Len(ociList)
        BY <2>a, <4>3
      <4>5. ociList[j] \in ociFailed \/ Full(ociList[j])
        BY <1>0, <3>1, <4>1, <4>4 DEF CleanedIsGone
      <4>6. ~Full(ociList[j])
        BY <4>1 DEF Full
      <4> QED
        BY <3>1, <4>1, <4>5, <4>6
    <3> QED
      BY <1>1, <3>1, <3>2
  <2>9. CleanedIsGone'
    <3> SUFFICES ASSUME NEW j \in ociNext' + 1..Len(ociList), ociList[j] \in ociCloud'
                 PROVE  ociList[j] \in ociFailed' \/ Full(ociList[j])'
      BY <1>0, <1>1 DEF CleanedIsGone, Full
    <3>0. j \in 1..Len(ociList) /\ (j = ociNext \/ j \in ociNext + 1..Len(ociList))
      BY <2>a
    <3>1. CASE j = ociNext
      <4>1. CASE ~Deletable(t) /\ UNCHANGED <<ociCloud, ociFailed, ociFaults>>
        <5>1. CASE t[1] = "bucket"
          <6>1. Full(t)
            BY <1>1, <2>2, <3>1, <4>1, <5>1 DEF Deletable, Full
          <6> QED
            BY <1>0, <2>2, <3>1, <4>1, <6>1 DEF Full
        <5>2. CASE t[1] = "nodes"
          BY <1>1, <2>2, <2>3, <3>1, <4>1, <5>2 DEF Deletable, NodesHaveStack
        <5>3. CASE t[1] # "bucket" /\ t[1] # "nodes"
          BY <1>1, <2>2, <3>1, <4>1, <5>3 DEF Deletable
        <5> QED
          BY <5>1, <5>2, <5>3
      <4> QED
        BY <1>1, <2>2, <3>1, <4>1
    <3>2. CASE j \in ociNext + 1..Len(ociList)
      <4>1. ociList[j] \in ociFailed \/ Full(ociList[j])
        BY <1>0, <1>1, <3>2 DEF CleanedIsGone
      <4>2. CASE Full(ociList[j])
        <5>1. ~(j < ociNext)
          BY <2>a, <3>2
        <5>2. ~Before(ociList[j], t)
          BY <2>1, <2>2, <3>0, <5>1 DEF ListInOrder, InOrder
        <5>3. t # <<"object", ociList[j][2]>> /\ t # <<"preauth", ociList[j][2]>>
          BY <4>2, <5>2 DEF Before, Full
        <5>4. \A r \in {<<"object", ociList[j][2]>>, <<"preauth", ociList[j][2]>>} :
                 r \in ociCloud => r \in ociCloud'
          BY <1>1, <5>3
        <5>5. Full(ociList[j])'
          BY <1>0, <4>2, <5>4 DEF Full
        <5> QED
          BY <5>5
      <4> QED
        BY <1>1, <4>1, <4>2
    <3> QED
      BY <3>0, <3>1, <3>2
  <2> QED
    BY <2>6, <2>7, <2>8, <2>9
<1>2. CASE ociNext = 0 /\ ociPc' = "destroyed" /\ UNCHANGED <<ociNext, ociCloud, ociFailed, ociFaults>>
  <2>1. OciTypeOK' /\ NotYetMade' /\ ListInOrder' /\ NodesHaveStack' /\ ListIsComplete'
    BY <1>0, <1>2 DEF OciTypeOK, NotYetMade, ListInOrder, InOrder, NodesHaveStack, ListIsComplete
  <2>2. CleanedIsGone'
    BY <1>0, <1>2 DEF CleanedIsGone, Full
  <2> QED
    BY <2>1, <2>2
<1> QED
  BY <1>0, <1>1, <1>2 DEF run_cleanup, t

LEMMA OciStep == OciIInv /\ [OciNext]_ociVars => OciIInv'
<1> SUFFICES ASSUME OciIInv, [OciNext]_ociVars PROVE OciIInv'
  OBVIOUS
<1>1. CASE create_bucket \/ upload_file_to_bucket \/ create_pre_authenticated
  BY <1>1, CreateStep DEF create_bucket, upload_file_to_bucket, create_pre_authenticated
<1>2. CASE UNCHANGED ociVars
  BY <1>2 DEF ociVars, OciIInv, OciTypeOK, NotYetMade, From, Mine, ListInOrder, InOrder, NodesHaveStack,
              ListIsComplete, CleanedIsGone, Full
<1> QED
  BY <1>1, <1>2, StackAndJobStep, OciTestStep, OciDestroyStep, RunCleanupStep DEF OciNext

\* What a complete teardown leaves was refused, raised or is a full bucket.
LEMMA OciConclusion == OciIInv => OciLeftIsExplained
<1> SUFFICES ASSUME OciIInv, ociPc = "destroyed",
                    NEW known \in OciKinds, Mine(known) \in Range(ociList),
                    NEW k \in OciKinds, Mine(k) \in ociCloud
             PROVE  \/ Mine(k) \in ociFailed \cup ociLost
                    \/ k = "bucket" /\ {Mine("object"), Mine("preauth")} \cap ociCloud # {}
  BY DEF OciLeftIsExplained
<1>0. Mine(k)[1] = k /\ Mine(k)[2] = ociCur /\ \A j : Mine(j) = <<j, ociCur>>
  BY DEF Mine
<1>1. ociList # <<>>
  BY DEF Range
<1>2. Mine(k) \in Range(ociList) \cup ociLost
  BY <1>1 DEF OciIInv, ListIsComplete
<1>3. CASE Mine(k) \in Range(ociList)
  <2>1. PICK j \in 1..Len(ociList) : ociList[j] = Mine(k)
    BY <1>3 DEF Range, OciIInv, OciTypeOK
  <2>2. j \in ociNext + 1..Len(ociList)
    BY DEF OciIInv, CleanedIsGone
  <2>3. Mine(k) \in ociFailed \/ Full(Mine(k))
    BY <2>1, <2>2 DEF OciIInv, CleanedIsGone
  <2> QED
    BY <1>0, <2>3 DEF Full
<1> QED
  BY <1>2, <1>3

(***************************************************************************)
(* All the parts together.                                                 *)
(***************************************************************************)
\* Every part starts in a state of its own invariant.
LEMMA HypervisorInitHolds == HypervisorInit => HypervisorIInv
<1> SUFFICES ASSUME HypervisorInit PROVE HypervisorIInv
  OBVIOUS
<1>1. /\ LockInit /\ NatInit /\ HostNamesInit /\ ServersInit /\ IscsiInit
      /\ DevicesInit /\ OciInit /\ RedfishInit /\ KvmInit /\ TfInit
  BY DEF HypervisorInit
<1> QED
  BY <1>1, LockIInvInit, NatInitHolds, HostNamesInitHolds, ServersInitHolds, IscsiInitHolds,
     DevicesInitHolds, OciInitHolds, RedfishInitHolds, KvmInitHolds, TfInitHolds
  DEF HypervisorIInv

\* A step of the whole is a step of one part, and leaves the others alone.
LEMMA StepOfOnePart ==
    ASSUME [HypervisorNext]_<<hostVars, nodeVars, focus>>
    PROVE  /\ [LockNext]_lockVars /\ [NatNext]_natVars /\ [HostNamesNext]_hostsVars
           /\ [ServersNext]_srvVars /\ [IscsiNext]_tgtVars
           /\ [DevicesNext]_devVars /\ [OciNext]_ociVars /\ [RedfishNext]_rfVars
           /\ [KvmNext]_kvmVars /\ [TfNext]_tfVars
  BY DEF HypervisorNext, HostNext, NodeNext, hostVars, nodeVars

LEMMA HypervisorStep ==
    HypervisorIInv /\ [HypervisorNext]_<<hostVars, nodeVars, focus>> => HypervisorIInv'
<1> SUFFICES ASSUME HypervisorIInv, [HypervisorNext]_<<hostVars, nodeVars, focus>>
             PROVE  HypervisorIInv'
  OBVIOUS
<1>1. LockIInv' /\ NatIInv' /\ HostNamesIInv' /\ ServersIInv' /\ IscsiIInv'
  BY StepOfOnePart, LockIInvStep, NatStep, HostNamesStep, ServersStep, IscsiStep DEF HypervisorIInv
<1>2. DevicesIInv' /\ OciIInv' /\ RedfishIInv' /\ KvmIInv' /\ TfIInv'
  BY StepOfOnePart, DevicesStep, OciStep, RedfishStep, KvmStep, TfStep DEF HypervisorIInv
<1> QED
  BY <1>1, <1>2 DEF HypervisorIInv

LEMMA HypervisorInvariant == HypervisorSpec => []HypervisorIInv
  BY HypervisorInitHolds, HypervisorStep, PTL DEF HypervisorSpec

\* What the invariants of the parts say of the properties that TLC checks.
LEMMA HypervisorConclusions ==
    ASSUME HypervisorIInv
    PROVE  /\ HypervisorTypeOK /\ SessionsKeepTheirShare
           /\ TeardownIsExplained /\ DevicesAreExplained /\ NodesAreReady
<1>1. /\ NatUpIsComplete /\ NatLeftIsExplained /\ ServerHasPort /\ ServerLeftIsExplained
      /\ OciLeftIsExplained /\ DevicesAreExplained /\ RedfishBootsNewIso /\ ExclusiveUntilUnlink
  BY NatConclusion, ServersConclusion, OciConclusion, DevicesConclusion, RedfishConclusion,
     LockIInvExclusive DEF HypervisorIInv
<1>2. IscsiLeftIsExplained /\ KvmWaitIsComplete /\ TfOperationTookEffect
  BY DEF HypervisorIInv, IscsiIInv, KvmIInv, TfIInv
<1>3. HypervisorTypeOK
  BY DEF HypervisorIInv, HypervisorTypeOK, LockIInv, NatIInv, HostNamesIInv, ServersIInv, IscsiIInv,
         DevicesIInv, OciIInv, RedfishIInv, KvmIInv, TfIInv
<1> QED
  BY <1>1, <1>2, <1>3 DEF SessionsKeepTheirShare, TeardownIsExplained, NodesAreReady

(***************************************************************************)
(* For any sessions, disks, clusters and machines, and any bounds on the   *)
(* faults: the state of the shared parts and of the controllers of other   *)
(* platforms is always well typed; in particular no loop over machines     *)
(* runs past its end and no cleanup call is taken from beyond the list.    *)
(***************************************************************************)
THEOREM HypervisorTypeCorrect == HypervisorSpec => []HypervisorTypeOK
<1>1. HypervisorIInv => HypervisorTypeOK
  BY HypervisorConclusions
<1> QED
  BY <1>1, HypervisorInvariant, PTL

(***************************************************************************)
(* For any number of processes, sessions and servers, whatever the others  *)
(* insert, delete, scan and bind meanwhile, and whoever is killed: until   *)
(* the first unlink one process is in the body of file_lock_context, a     *)
(* session whose add_nat_rules has returned has all its iptables rules,    *)
(* and a server that is up listens on its port, unless another one was     *)
(* between its scan and its start, or on the same fixed port.              *)
(***************************************************************************)
THEOREM SharesAreKept == HypervisorSpec => []SessionsKeepTheirShare
<1>1. HypervisorIInv => SessionsKeepTheirShare
  BY HypervisorConclusions
<1> QED
  BY <1>1, HypervisorInvariant, PTL

(***************************************************************************)
(* For any number of sessions, servers, disks and cloud clusters: iptables *)
(* rules, containers and their files, iSCSI targets and the resources of a *)
(* cluster in the Oracle cloud are left behind by a teardown only where an *)
(* error or a killed session explains it.  For the cloud the argument is   *)
(* the order of _cleanup_resources: called newest first, a bucket comes    *)
(* after its objects and a stack after its nodes.                          *)
(***************************************************************************)
THEOREM TeardownsAreExplained == HypervisorSpec => []TeardownIsExplained
<1>1. HypervisorIInv => TeardownIsExplained
  BY HypervisorConclusions
<1> QED
  BY <1>1, HypervisorInvariant, PTL

(***************************************************************************)
(* For any letters, networks and numbers of disks and starts: what a       *)
(* running node uses is there; its persistent definition names something   *)
(* that is gone only after a teardown that found it running; the file of a *)
(* disk is left over only in the two cases that NodeDevices names; and the *)
(* listed node remembers wrong addresses only after an operation that      *)
(* raised or that keeps the list.                                          *)
(***************************************************************************)
THEOREM NodeDevicesAreExplained == HypervisorSpec => []DevicesAreExplained
<1>1. HypervisorIInv => DevicesAreExplained
  BY HypervisorConclusions
<1> QED
  BY <1>1, HypervisorInvariant, PTL

(***************************************************************************)
(* For any machines and any number of faults: after RedfishController's    *)
(* prepare_nodes a machine without a failed call runs the new ISO; the     *)
(* wait of the s390x controller, which removes from the list it goes over, *)
(* ends with every guest started again; and a loop of the vSphere and      *)
(* Nutanix controllers that saw no error has reached every machine.        *)
(***************************************************************************)
THEOREM ReturnedNodesAreReady == HypervisorSpec => []NodesAreReady
<1>1. HypervisorIInv => NodesAreReady
  BY HypervisorConclusions
<1> QED
  BY <1>1, HypervisorInvariant, PTL

(***************************************************************************)
(* For any updaters of /etc/hosts and whatever they write: reading,        *)
(* truncating and writing the file are three steps, and yet each update is *)
(* one edit of the lines that are there, while every overlap was under the *)
(* lock and nobody was killed between truncating and writing.              *)
(***************************************************************************)
THEOREM HostsUpdatesAreSerial == HypervisorSpec => HostsUpdatesSerial
<1>1. HypervisorIInv /\ [HypervisorNext]_<<hostVars, nodeVars, focus>> => [OneEditAtMost]_hostsVars
  BY StepOfOnePart, HostNamesSerial DEF HypervisorIInv
<1> QED
  BY <1>1, HypervisorInvariant, PTL DEF HypervisorSpec, HostsUpdatesSerial
=============================================================================
