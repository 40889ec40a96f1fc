--------------------------- MODULE KvmS390xNodes ---------------------------
(***************************************************************************)
(* KVMs390xController: nodes made with virt-install on a shared machine.   *)
(* On s390x a guest that reboots for the first time stays shut off, and    *)
(* check_vms_for_first_reboot_and_start starts it again.  Its loop removes *)
(* the domains it has started from the list it iterates over, so the       *)
(* domain after each one is skipped in that pass.                          *)
(***************************************************************************)
EXTENDS Integers, Sequences, SequencesExt

CONSTANTS
    Guests,        \* the names of the nodes: masters, then workers
    Others         \* domains of the machine that are no nodes

ASSUME KvmAssumption ==
    /\ Guests \in Seq(Range(Guests)) /\ Others \in Seq(Range(Others))
    /\ Range(Guests) \cap Range(Others) = {}

VARIABLES
    kvmPc,         \* where the controller is
    kvmDom,        \* "absent", "off", "installing", "rebooted", "running"
    kvmDomains,    \* the list of the wait (domains)
    kvmIndex,      \* position of the iterator in the list
    kvmFound       \* nodes_found

kvmVars == <<kvmPc, kvmDom, kvmDomains, kvmIndex, kvmFound>>

Guest == Range(Guests)
KvmDomain == Guest \cup Range(Others)

KvmTypeOK ==
    /\ kvmPc \in {"idle", "destroy", "undefine", "create", "created", "pass", "started", "timeout"}
    /\ kvmDom \in [KvmDomain -> {"absent", "off", "installing", "rebooted", "running"}]
    /\ kvmDomains \in Seq(KvmDomain)
    /\ kvmIndex \in 1..Len(Guests) + Len(Others) + 1
    /\ kvmFound \in BOOLEAN

KvmInit ==
    /\ kvmPc = "idle" /\ kvmDomains = <<>> /\ kvmIndex = 1 /\ kvmFound = FALSE
    /\ kvmDom = [d \in KvmDomain |-> IF d \in Guest THEN "absent" ELSE "off"]
-----------------------------------------------------------------------------
\* prepare_nodes destroys what an earlier test left: all nodes are shut down,
kvm_prepare_nodes ==
    /\ kvmPc \in {"idle", "started", "timeout"}
    /\ kvmPc' = "destroy"
    /\ UNCHANGED <<kvmDom, kvmDomains, kvmIndex, kvmFound>>

kvm_shutdown_all_nodes ==
    /\ kvmPc = "destroy"
    /\ kvmPc' = "undefine"
    /\ kvmDom' = [d \in KvmDomain |->
                    IF d \in Guest /\ kvmDom[d] # "absent" THEN "off" ELSE kvmDom[d]]
    /\ UNCHANGED <<kvmDomains, kvmIndex, kvmFound>>

\* then undefined with their storage,
undefine_node(d) ==
    /\ kvmPc = "undefine"
    /\ kvmDom[d] # "absent"
    /\ kvmDom' = [kvmDom EXCEPT ![d] = "absent"]
    /\ UNCHANGED <<kvmPc, kvmDomains, kvmIndex, kvmFound>>

remove_all_nodes ==
    /\ kvmPc = "undefine"
    /\ \A d \in Guest : kvmDom[d] = "absent"
    /\ kvmPc' = "create"
    /\ UNCHANGED <<kvmDom, kvmDomains, kvmIndex, kvmFound>>

\* and made again, one virt-install after the other.
kvm_create_nodes ==
    /\ kvmPc = "create"
    /\ kvmDom' = [d \in KvmDomain |-> IF d \in Guest THEN "installing" ELSE kvmDom[d]]
    /\ kvmPc' = "created"
    /\ UNCHANGED <<kvmDomains, kvmIndex, kvmFound>>

\* Once the installation has started, the wait lists the domains of the machine.
check_vms_for_first_reboot_and_start ==
    /\ kvmPc = "created"
    /\ kvmDomains' = Guests \o Others
    /\ kvmIndex' = 1 /\ kvmFound' = FALSE
    /\ kvmPc' = "pass"
    /\ UNCHANGED kvmDom

\* A guest reboots for the first time and stays off.
first_reboot(d) ==
    /\ kvmDom[d] = "installing"
    /\ kvmDom' = [kvmDom EXCEPT ![d] = "rebooted"]
    /\ UNCHANGED <<kvmPc, kvmDomains, kvmIndex, kvmFound>>

\* One round of the for loop: a shut-off node is started and taken from the
\* list, and the iterator moves past the domain that took its place.
look_at_domain ==
    LET d == kvmDomains[kvmIndex] IN
    /\ kvmPc = "pass"
    /\ kvmIndex <= Len(kvmDomains)
    /\ kvmFound' = (kvmFound \/ d \in Guest)
    /\ IF d \in Guest /\ kvmDom[d] = "rebooted"
       THEN /\ kvmDom' = [kvmDom EXCEPT ![d] = "running"]
            /\ kvmDomains' = RemoveAt(kvmDomains, kvmIndex)
       ELSE UNCHANGED <<kvmDom, kvmDomains>>
    /\ kvmIndex' = kvmIndex + 1
    /\ UNCHANGED kvmPc

\* The pass is over: waiting.wait calls it again unless no node was found.
pass_over ==
    /\ kvmPc = "pass"
    /\ kvmIndex > Len(kvmDomains)
    /\ kvmPc' = IF kvmFound THEN "pass" ELSE "started"
    /\ kvmIndex' = 1 /\ kvmFound' = FALSE
    /\ UNCHANGED <<kvmDom, kvmDomains>>

\* CLUSTER_INSTALLATION_TIMEOUT is over between two passes.
kvm_timeout ==
    /\ kvmPc = "pass"
    /\ kvmIndex = 1
    /\ kvmPc' = "timeout"
    /\ UNCHANGED <<kvmDom, kvmDomains, kvmIndex, kvmFound>>

KvmNext ==
    \/ kvm_prepare_nodes \/ kvm_shutdown_all_nodes \/ remove_all_nodes \/ kvm_create_nodes
    \/ check_vms_for_first_reboot_and_start
    \/ \E d \in Guest : undefine_node(d) \/ first_reboot(d)
    \/ look_at_domain \/ pass_over \/ kvm_timeout
-----------------------------------------------------------------------------
\* The wait returns only when every node has been started again after its
\* first reboot, although each pass skips domains; no other domain of the
\* machine is ever touched.
KvmWaitIsComplete ==
    /\ kvmPc = "started" => \A d \in Guest : kvmDom[d] = "running"
    /\ \A d \in Range(Others) : kvmDom[d] = "off"
-----------------------------------------------------------------------------
\* A node leaves the list of the wait when it is started, and a pass that has
\* found no node so far has skipped nobody.
ListHasTheRest ==
    kvmPc = "pass" =>
        /\ Len(kvmDomains) <= Len(Guests) + Len(Others)
        /\ \A d \in Guest : kvmDom[d] = "running" \/ d \in Range(kvmDomains)
        /\ ~kvmFound => \A i \in 1..Len(kvmDomains) : i < kvmIndex => kvmDomains[i] \notin Guest
KvmIInv == KvmTypeOK /\ ListHasTheRest /\ KvmWaitIsComplete
=============================================================================
