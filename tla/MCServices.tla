----------------------------- MODULE MCServices ------------------------------
(***************************************************************************)
(* For TLC: the parts of a test that do not share state with the           *)
(* installation of a cluster (kube API, hosted agents, configuration of    *)
(* the service, day-2 clusters, triggers, logs, addresses, the preparation *)
(* of a cluster).  One run takes them in turn: focus names the one a       *)
(* behaviour is about, and the others stay in one of their initial states. *)
(***************************************************************************)
EXTENDS KubeApi, HostedAgents, ServiceConfig, Day2Cluster, Configuration, LogCollection, ClusterPreparation, MCAddressing

VARIABLE focus

MCCounts == <<1, 2, 1>>                         \* scale up, then down
MCDefaultOf == [requirements |-> "", upgrade_agent |-> "dflt"]
MCLogClusters == <<"c1">>

\* What users and tests set: each variable of interest, or nothing.
Optionally(name, values) == {<<>>} \cup {name :> v : v \in values}
Both(fs, gs) == {f @@ g : f \in fs, g \in gs}
MCUserEnvs ==
    Both(Both(Optionally("masters_count", {1, 5}), Optionally("workers_count", {0, 1})),
         Both(Optionally("platform", {"none", "vsphere"}), Optionally("is_ipv6", {TRUE})))
MCParameters ==
    Both(Both(Optionally("masters_count", {1}), Optionally("is_ipv4", {FALSE})),
         Optionally("olm_operators", {{"odf", "lvm"}, {"mce", "osc", "openshift-ai"}, {"cnv", "mtv"}}))

\* A load balancer of the user is for several masters, on the platforms that
\* set_network_params supports; the name of the cluster contains one role or none.
MCPrepConfigs ==
    {c \in [platform : {"baremetal", "none", "external", "vsphere"}, lb : {"cluster", "user"},
            dhcp : BOOLEAN, words : {{}, {"master"}, {"worker"}},
            master : {1, 2}, worker : {0, 1}, arbiter : {0, 1}, v4 : BOOLEAN, v6 : BOOLEAN, primary : {"ipv4", "ipv6"}] :
       /\ c.v4 \/ c.v6
       /\ c.primary = "ipv6" => c.v4 /\ c.v6
       /\ c.master = 1 => c.worker = 0 /\ c.arbiter = 0 /\ c.words = {}
       /\ c.lb = "user" => c.master > 1 /\ ~c.dhcp /\ c.platform \in {"baremetal", "vsphere"}}

apiVars == <<kubeVars, hostedVars, cmVars>>
testVars == <<day2Vars, configVars, logVars, addrVars, prepVars>>

ServicesInit ==
    /\ focus \in {"kube", "hosted", "cm", "day2", "config", "logs", "addr", "prep"}
    /\ KubeInit /\ (focus # "kube" => teardown)
    /\ HostedInit
    /\ CmInit /\ (focus # "cm" => \A k \in CmKeys : cm[k] = "file")
    /\ Day2Init
    /\ ConfigInit /\ (focus # "config" => userEnv = <<>>)
    /\ LogsInit /\ (focus # "logs" => byEvents /\ \A c \in LogClusterSet : service[c].info = "")
    /\ AddrInit /\ (focus # "addr" => layout = CHOOSE c \in Layouts : TRUE)
    /\ (focus # "prep" => prep = CHOOSE c \in PrepConfigs : TRUE)
    /\ PrepInit /\ (focus # "prep" => networked)

ApiNext ==
    \/ focus = "kube" /\ KubeNext /\ UNCHANGED <<hostedVars, cmVars>>
    \/ focus = "hosted" /\ HostedNext /\ UNCHANGED <<kubeVars, cmVars>>
    \/ focus = "cm" /\ CmNext /\ UNCHANGED <<kubeVars, hostedVars>>

TestNext ==
    \/ focus = "day2" /\ Day2Next /\ UNCHANGED <<configVars, logVars, addrVars, prepVars>>
    \/ focus = "config" /\ ConfigNext /\ UNCHANGED <<day2Vars, logVars, addrVars, prepVars>>
    \/ focus = "logs" /\ LogsNext /\ UNCHANGED <<day2Vars, configVars, addrVars, prepVars>>
    \/ focus = "addr" /\ AddrNext /\ UNCHANGED <<day2Vars, configVars, logVars, prepVars>>
    \/ focus = "prep" /\ PrepNext /\ UNCHANGED <<day2Vars, configVars, logVars, addrVars>>

ServicesNext ==
    /\ UNCHANGED focus
    /\ \/ ApiNext /\ UNCHANGED testVars
       \/ TestNext /\ UNCHANGED apiVars

ServicesSpec == ServicesInit /\ [][ServicesNext]_<<apiVars, testVars, focus>>
-----------------------------------------------------------------------------
\* Every variable of these parts holds a value of its type.
ServicesTypeOK ==
    /\ KubeTypeOK /\ HostedTypeOK /\ CmTypeOK
    /\ Day2TypeOK /\ ConfigTypeOK /\ LogsTypeOK /\ AddrTypeOK /\ PrepTypeOK

(***************************************************************************)
(* What a test relies on when it goes on is there: every node installed    *)
(* through the kube API, the service back with its old configuration, the  *)
(* hosts of a day-2 cluster as ready nodes, a prepared cluster with the    *)
(* roles of its nodes and a DNS record that something answers, and a       *)
(* configuration in which the triggers of both rounds have respected what  *)
(* the user has set and left a single node without workers.                *)
(***************************************************************************)
GoesOnWithReason ==
    /\ KubeInstallsEveryNode /\ RolloutRestoresService /\ Day2NodesAdded
    /\ RolesAreNodes /\ RecordIsServed
    /\ UserValueWins /\ SnoHasNoWorkers

(***************************************************************************)
(* Terraform, the discovery image and the host bridge agree on addresses:  *)
(* none is handed out twice, the image has the hardware addresses and the  *)
(* subnets of the nodes, the validation finds recreated nodes out, and     *)
(* the host keeps its own while they move to the VLAN interface.  The      *)
(* networks, virtual addresses and load balancer of the cluster fit them.  *)
(***************************************************************************)
AddressingIsSound ==
    /\ AddressesDistinct /\ ImageMatchesMacs /\ SubnetsAreConfigured
    /\ ValidatedNodesAreOurs /\ HostKeepsAddresses
    /\ PrimaryStackLeads /\ VipsInMachineNetworks /\ BalancerHasMasters

\* The parts are independent: their inductive invariants hold together.
ServicesIInv ==
    /\ KubeIInv /\ HostedIInv /\ CmIInv
    /\ Day2IInv /\ ConfigIInv /\ LogsIInv /\ AddrIInv /\ PrepIInv
=============================================================================
