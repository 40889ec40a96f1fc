----------------------------- MODULE HostedAgents -----------------------------
(***************************************************************************)
(* Agents of a hosted cluster (kube_helpers/agent.py, hypershift.py and    *)
(* the CAPI test): the test sets the number of replicas of the node pool,  *)
(* the CAPI provider binds agents to the cluster deployment or takes them  *)
(* off, the hosts join as nodes.  Agent.unbind, the other way to take an   *)
(* agent off, reads the object, deletes one field and writes it back,      *)
(* while the operator and the test patch the same object.                  *)
(*                                                                         *)
(* Agents live in the spoke namespace, the cluster deployment of a hosted  *)
(* cluster in "clusters-<name>".                                           *)
(***************************************************************************)
EXTENDS Naturals, FiniteSets, Sequences

CONSTANTS
    HostedAgentNames,  \* the agents that were started and approved
    Counts,            \* the node counts the test asks for, in order
    MaxAgentWrites     \* bound: patches of an agent by the operator

ASSUME HostedAssumption == Counts \in Seq(Nat) /\ MaxAgentWrites \in Nat

NoCopy == [version |-> 0]

VARIABLES
    agents,     \* the Agent objects: [bound, hostname, version]
    boundCond,  \* the agents whose condition Bound is True
    joined,     \* agents whose host is a node of the hosted cluster
    readyNodes, \* those that are ready
    replicas,   \* spec.replicas of the node pool
    hpc,        \* the step the test is at
    round,      \* the index in Counts it works on
    copies      \* what unbind has read

hostedVars == <<agents, boundCond, joined, readyNodes, replicas, hpc, round, copies>>

Bound == {a \in HostedAgentNames : agents[a].bound}

HostedInit ==
    /\ agents = [a \in HostedAgentNames |-> [bound |-> FALSE, hostname |-> 0, version |-> 1]]
    /\ boundCond = {} /\ joined = {} /\ readyNodes = {}
    /\ replicas = 0 /\ hpc = "create" /\ round = 1
    /\ copies = [a \in HostedAgentNames |-> NoCopy]

\* patch_namespaced_custom_object: the agent becomes what the patch makes of it,
\* the version grows.
Patched(a, object) == [agents EXCEPT ![a] = [object EXCEPT !.version = agents[a].version + 1]]

\* agent.bind and the CAPI provider set clusterDeploymentName.
bind(a) == agents' = Patched(a, [agents[a] EXCEPT !.bound = TRUE])

-----------------------------------------------------------------------------
\* hypershift create cluster agent, then the control plane is awaited.
hypershift_create ==
    /\ hpc = "create"
    /\ hpc' \in {"scale", "failed"}
    /\ UNCHANGED <<agents, boundCond, joined, readyNodes, replicas, round, copies>>

\* set_nodepool_replicas of the next count; a smaller one is a scale down.
set_nodepool_replicas ==
    /\ hpc = "scale"
    /\ IF round > Len(Counts)
       THEN hpc' = "passed" /\ UNCHANGED replicas
       ELSE /\ replicas' = Counts[round]
            /\ hpc' \in {"wait_agents", "failed"}
    /\ UNCHANGED <<agents, boundCond, joined, readyNodes, round, copies>>

ScaledDown == round > 1 /\ Counts[round] < Counts[round - 1]

\* cluster_deployment.wait_for_agents: exactly so many agents of the spoke
\* namespace refer to the cluster deployment.
wait_for_bound_agents ==
    /\ hpc = "wait_agents"
    /\ \/ /\ Cardinality(Bound) = Counts[round]
          /\ hpc' = IF ScaledDown THEN "wait_unbound" ELSE "wait_installed"
       \/ hpc' = "failed"
    /\ UNCHANGED <<agents, boundCond, joined, readyNodes, replicas, round, copies>>

\* wait_for_agents_to_install, then wait_for_nodes for the nodes and for the
\* ready ones.  A listing that fails returns a list without items, and the
\* wait has no expected exceptions: it ends the test.
wait_for_nodes ==
    /\ \/ hpc = "wait_installed" /\ Bound \subseteq boundCond /\ hpc' = "wait_joined" /\ UNCHANGED round
       \/ hpc = "wait_joined" /\ Cardinality(joined) = Counts[round] /\ hpc' = "wait_nodes_ready" /\ UNCHANGED round
       \/ hpc = "wait_nodes_ready" /\ Cardinality(readyNodes) = Counts[round] /\ hpc' = "scale" /\ round' = round + 1
       \/ hpc \in {"wait_installed", "wait_joined", "wait_nodes_ready"} /\ hpc' = "failed" /\ UNCHANGED round
    /\ UNCHANGED <<agents, boundCond, joined, readyNodes, replicas, copies>>

\* The agents the test takes for the removed ones: those that list_agents
\* returned before the scale down without those it returned after.  The first
\* listing has no agents_namespace and looks in the namespace of the cluster
\* deployment, where there is none.  (Agent objects have no __eq__: were the
\* first listing not empty, the difference would be all of it.)
RemovedAgents == {}

\* wait_for_agents_to_unbound: all of the given agents report Bound = False.
wait_for_agents_to_unbound ==
    /\ hpc = "wait_unbound"
    /\ \/ RemovedAgents \cap boundCond = {} /\ hpc' = "scale" /\ round' = round + 1
       \/ hpc' = "failed" /\ UNCHANGED round
    /\ UNCHANGED <<agents, boundCond, joined, readyNodes, replicas, copies>>

-----------------------------------------------------------------------------
\* Mutant: the object is kept with its clusterDeploymentName.
unbind_get_Unmodified(a) ==
    /\ copies[a] = NoCopy /\ agents[a].bound
    /\ copies' = [copies EXCEPT ![a] = agents[a]]
    /\ UNCHANGED <<agents, boundCond, joined, readyNodes, replicas, hpc, round>>

\* unbind, first half: the object as it is, clusterDeploymentName removed.
unbind_get(a) ==
    /\ copies[a] = NoCopy /\ agents[a].bound
    /\ copies' = [copies EXCEPT ![a] = [agents[a] EXCEPT !.bound = FALSE]]
    /\ UNCHANGED <<agents, boundCond, joined, readyNodes, replicas, hpc, round>>

\* The write is accepted if the object is the one that was read: the body has
\* its resourceVersion.  Otherwise unbind raises.
Accepts(copy, object) == copy.version = object.version

\* Mutant: the body that is written back has lost its resourceVersion.
unbind_replace_Blind(a) ==
    /\ copies[a] # NoCopy
    /\ agents' = [agents EXCEPT ![a] = [copies[a] EXCEPT !.version = agents[a].version + 1]]
    /\ copies' = [copies EXCEPT ![a] = NoCopy]
    /\ UNCHANGED <<boundCond, joined, readyNodes, replicas, hpc, round>>

unbind_replace(a) ==
    /\ copies[a] # NoCopy
    /\ agents' = IF Accepts(copies[a], agents[a])
                 THEN [agents EXCEPT ![a] = [copies[a] EXCEPT !.version = agents[a].version + 1]]
                 ELSE agents
    /\ copies' = [copies EXCEPT ![a] = NoCopy]
    /\ UNCHANGED <<boundCond, joined, readyNodes, replicas, hpc, round>>

-----------------------------------------------------------------------------
\* The CAPI provider binds agents, or unbinds them by a patch, until as many
\* are bound as there are replicas.
capi_provider ==
    /\ \E a \in HostedAgentNames :
         /\ agents[a].version <= MaxAgentWrites
         /\ \/ Cardinality(Bound) < replicas /\ a \notin Bound /\ bind(a)
            \/ Cardinality(Bound) > replicas /\ a \in Bound /\ agents' = Patched(a, [agents[a] EXCEPT !.bound = FALSE])
    /\ UNCHANGED <<boundCond, joined, readyNodes, replicas, hpc, round, copies>>

\* The operator or the test sets the host name of an agent.
set_agent_hostname ==
    /\ \E a \in HostedAgentNames :
         /\ agents[a].version <= MaxAgentWrites
         /\ agents' = Patched(a, [agents[a] EXCEPT !.hostname = @ + 1])
    /\ UNCHANGED <<boundCond, joined, readyNodes, replicas, hpc, round, copies>>

\* The operator brings the conditions and the nodes in line with the spec.
operator_reconciles ==
    /\ \E a \in HostedAgentNames :
         \/ a \in Bound \ boundCond /\ boundCond' = boundCond \cup {a} /\ UNCHANGED <<joined, readyNodes>>
         \/ /\ a \in boundCond \ Bound /\ boundCond' = boundCond \ {a}
            /\ joined' = joined \ {a} /\ readyNodes' = readyNodes \ {a}
         \/ a \in boundCond \ joined /\ joined' = joined \cup {a} /\ UNCHANGED <<boundCond, readyNodes>>
         \/ a \in joined \ readyNodes /\ readyNodes' = readyNodes \cup {a} /\ UNCHANGED <<boundCond, joined>>
    /\ UNCHANGED <<agents, replicas, hpc, round, copies>>

HostedNext ==
    \/ hypershift_create \/ set_nodepool_replicas \/ wait_for_bound_agents
    \/ wait_for_nodes \/ wait_for_agents_to_unbound
    \/ \E a \in HostedAgentNames : unbind_get(a) \/ unbind_replace(a)
    \/ capi_provider \/ set_agent_hostname \/ operator_reconciles

-----------------------------------------------------------------------------
\* The agents, and what unbind has read of them.
AgentsTypeOK ==
    /\ agents \in [HostedAgentNames -> [bound : BOOLEAN, hostname : Nat, version : Nat]]
    /\ copies \in [HostedAgentNames -> {NoCopy} \cup [bound : {FALSE}, hostname : Nat, version : Nat]]

\* Every variable has a value of its type.
HostedTypeOK ==
    /\ AgentsTypeOK
    /\ boundCond \subseteq HostedAgentNames /\ joined \subseteq HostedAgentNames /\ readyNodes \subseteq joined
    /\ hpc \in {"create", "scale", "wait_agents", "wait_installed", "wait_joined", "wait_nodes_ready",
                "wait_unbound", "passed", "failed"}
    /\ replicas \in Nat /\ round \in 1..(Len(Counts) + 1)

\* The host names only grow from one state to the next.
HostNamesGrow == \A a \in HostedAgentNames : agents'[a].hostname >= agents[a].hostname

\* Agent.unbind never takes back what someone else wrote to the agent between
\* its read and its write: the host name only grows.
UnbindKeepsUpdates == [][HostNamesGrow]_hostedVars

\* What unbind has read is what the agent was at that version: nobody writes
\* without a new version.
CopiesAreOlder ==
    \A a \in HostedAgentNames : copies[a] # NoCopy =>
        /\ copies[a].version <= agents[a].version
        /\ copies[a].version = agents[a].version => copies[a].hostname = agents[a].hostname

\* The test waits only for counts it has asked for.
RoundInCounts == hpc \notin {"create", "scale", "passed", "failed"} => round <= Len(Counts)

HostedIInv == HostedTypeOK /\ RoundInCounts /\ CopiesAreOlder
=============================================================================
