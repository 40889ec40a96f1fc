----------------------------- MODULE Day2Cluster -----------------------------
(***************************************************************************)
(* Hosts added to an installed cluster (day2_cluster.py): the day-2        *)
(* cluster and its infra-env are created, its hosts booted and awaited in  *)
(* status known, installed one by one, and awaited as ready nodes of the   *)
(* day-1 cluster, while certificate signing requests are approved.  The    *)
(* last wait compares a number of ready nodes with one counted before the  *)
(* installation.                                                           *)
(***************************************************************************)
EXTENDS Naturals, FiniteSets

CONSTANTS
    Day1Nodes,     \* nodes of the cluster
    Day2Hosts,     \* hosts to be added
    MaxDay1Changes \* bound: changes of readiness of day-1 nodes

ASSUME Day2Assumption ==
    IsFiniteSet(Day1Nodes) /\ IsFiniteSet(Day2Hosts) /\ MaxDay1Changes \in Nat

VARIABLES
    d2pc,       \* step of the test
    status,     \* the status of each host in the service
    node,       \* each host as a node: "none", "csr" (asks for a certificate), "joined", "ready"
    day1Ready,  \* the day-1 nodes that are ready
    counted,    \* ready nodes counted before the installation
    day1Changes \* changes of day-1 nodes since then

day2Vars == <<d2pc, status, node, day1Ready, counted, day1Changes>>

Day2Init ==
    /\ d2pc = "create"
    /\ status = [h \in Day2Hosts |-> "none"]
    /\ node = [h \in Day2Hosts |-> "none"]
    /\ day1Ready = Day1Nodes /\ counted = 0 /\ day1Changes = 0

\* Day2Cluster._create and prepare_nodes up to the boot of the nodes; the
\* names of the hypervisor host are edited on the way (module HostNames).
day2_prepare_nodes ==
    /\ d2pc = "create"
    /\ d2pc' \in {"wait_known", "failed"}
    /\ status' = [h \in Day2Hosts |-> "discovering"]
    /\ UNCHANGED <<node, day1Ready, counted, day1Changes>>

\* wait_till_all_hosts_are_in_status: so many hosts of the cluster have it.
AllIn(s) == Cardinality({h \in Day2Hosts : status[h] = s}) >= Cardinality(Day2Hosts)

day2_wait_known ==
    /\ d2pc = "wait_known"
    /\ AllIn("known") /\ d2pc' = "count"
    /\ UNCHANGED <<status, node, day1Ready, counted, day1Changes>>

\* get_ocp_cluster_ready_nodes_num: nodes with condition Ready = True.
is_ocp_node_ready(h) == node[h] = "ready"

get_ocp_cluster_ready_nodes_num ==
    Cardinality(day1Ready) + Cardinality({h \in Day2Hosts : is_ocp_node_ready(h)})

count_ready_nodes ==
    /\ d2pc = "count"
    /\ counted' = get_ocp_cluster_ready_nodes_num
    /\ d2pc' = "install"
    /\ UNCHANGED <<status, node, day1Ready, day1Changes>>

\* _install_day2_cluster: the hosts that are known now, and only those.
install_day2_hosts ==
    /\ d2pc = "install"
    /\ status' = [h \in Day2Hosts |-> IF status[h] = "known" THEN "installing" ELSE status[h]]
    /\ d2pc' = "wait_installed"
    /\ UNCHANGED <<node, day1Ready, counted, day1Changes>>

day2_wait_installed ==
    /\ d2pc = "wait_installed"
    /\ AllIn("added-to-existing-cluster") /\ d2pc' = "wait_nodes"
    /\ UNCHANGED <<status, node, day1Ready, counted, day1Changes>>

\* approve_nodes_on_ocp_cluster: every request without a status.
Approved(h) == IF node[h] = "csr" THEN "joined" ELSE node[h]

\* One poll of wait_nodes_join_ocp_cluster; an exception counts as not yet.
wait_nodes_to_be_in_ocp ==
    /\ d2pc = "wait_nodes"
    /\ node' = [h \in Day2Hosts |-> Approved(h)]
    /\ d2pc' = IF get_ocp_cluster_ready_nodes_num = counted + Cardinality(Day2Hosts) THEN "passed" ELSE "wait_nodes"
    /\ UNCHANGED <<status, day1Ready, counted, day1Changes>>

\* A wait reaches its timeout.
day2_timeout ==
    /\ d2pc \in {"wait_known", "wait_installed", "wait_nodes"}
    /\ d2pc' = "failed"
    /\ UNCHANGED <<status, node, day1Ready, counted, day1Changes>>

-----------------------------------------------------------------------------
\* The service and the hosts: a host is validated, may lose its validation
\* again, is installed and reboots into the cluster.
day2_host_moves ==
    /\ \E h \in Day2Hosts :
         \/ status[h] \in {"discovering", "insufficient"} /\ status' = [status EXCEPT ![h] = "known"] /\ UNCHANGED node
         \/ status[h] = "known" /\ status' = [status EXCEPT ![h] = "insufficient"] /\ UNCHANGED node
         \/ status[h] = "installing" /\ status' = [status EXCEPT ![h] = "added-to-existing-cluster"] /\ UNCHANGED node
         \/ /\ status[h] = "added-to-existing-cluster" /\ node[h] \in {"none", "joined"}
            /\ node' = [node EXCEPT ![h] = IF node[h] = "none" THEN "csr" ELSE "ready"]
            /\ UNCHANGED status
    /\ UNCHANGED <<d2pc, day1Ready, counted, day1Changes>>

\* A day-1 node stops or starts being ready.
day1_node_changes ==
    /\ day1Changes < MaxDay1Changes
    /\ \E n \in Day1Nodes : day1Ready' = IF n \in day1Ready THEN day1Ready \ {n} ELSE day1Ready \cup {n}
    /\ day1Changes' = IF d2pc \in {"create", "wait_known", "count"} THEN day1Changes ELSE day1Changes + 1
    /\ UNCHANGED <<d2pc, status, node, counted>>

Day2Next ==
    \/ day2_prepare_nodes \/ day2_wait_known \/ count_ready_nodes \/ install_day2_hosts
    \/ day2_wait_installed \/ wait_nodes_to_be_in_ocp \/ day2_timeout
    \/ day2_host_moves \/ day1_node_changes

\* Every variable has a value of its type.
Day2TypeOK ==
    /\ d2pc \in {"create", "wait_known", "count", "install", "wait_installed", "wait_nodes", "passed", "failed"}
    /\ status \in [Day2Hosts -> {"none", "discovering", "known", "insufficient", "installing", "added-to-existing-cluster"}]
    /\ node \in [Day2Hosts -> {"none", "csr", "joined", "ready"}]
    /\ day1Ready \subseteq Day1Nodes /\ counted \in Nat /\ day1Changes \in 0..MaxDay1Changes

\* wait_nodes_to_be_in_ocp ends with "nodes were successfully added to OCP
\* cluster": they are, unless the readiness of a day-1 node changed between the
\* two counts, which the comparison of numbers cannot tell from a new node.
Day2NodesAdded ==
    d2pc = "passed" /\ day1Changes = 0 => \A h \in Day2Hosts : node[h] = "ready"

\* A host is no node before it was installed, and none is installed before the
\* ready nodes were counted.
NodesWereInstalled ==
    /\ \A h \in Day2Hosts : node[h] # "none" => status[h] = "added-to-existing-cluster"
    /\ d2pc \in {"create", "wait_known", "count", "install"} =>
         \A h \in Day2Hosts : status[h] \notin {"installing", "added-to-existing-cluster"}

\* Until a day-1 node changes, what was counted are the ready day-1 nodes.
CountIsOfDay1 ==
    d2pc \in {"install", "wait_installed", "wait_nodes", "passed"} /\ day1Changes = 0 =>
        counted = Cardinality(day1Ready)

Day2IInv == Day2TypeOK /\ NodesWereInstalled /\ CountIsOfDay1 /\ Day2NodesAdded
=============================================================================
