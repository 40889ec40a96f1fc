------------------------------- MODULE KubeApi -------------------------------
(***************************************************************************)
(* An installation through the kube API (helper_classes/kube_helpers,      *)
(* tests/base_kubeapi_test.py): the test creates resources on the hub      *)
(* cluster, boots the nodes, approves the agents the operator makes of     *)
(* them, waits for the installation and leaves the context, which deletes  *)
(* every resource object that was ever constructed in it.                  *)
(*                                                                         *)
(* The set KubeAPIContext.resources belongs to the class: a resource is in *)
(* it from its construction on, whether it was created or not; an agent is *)
(* in it once a listing returned it.  The cluster image set is the only    *)
(* object that does not go with the namespace.                             *)
(***************************************************************************)
EXTENDS Naturals, FiniteSets

CONSTANTS
    KubeNodes,      \* the nodes of the test
    MaxKubeFaults   \* bound: API calls that fail

VARIABLES
    kpc,        \* the step the test is at
    hub,        \* the objects of the hub cluster
    resources,  \* KubeAPIContext.resources, by name
    ns,         \* the namespace: "none", "active" or "terminating"
    agentOf,    \* what each agent has of the test: subset of {"approved", "hostname"}
    aci,        \* the conditions of the AgentClusterInstall, in order
    booted,     \* the nodes have been started
    listed,     \* the agents start_nodes has
    teardown,   \* global_variables.test_teardown
    kfaults     \* API calls that failed, by step

kubeVars == <<kpc, hub, resources, ns, agentOf, aci, listed, booted, teardown, kfaults>>

ASSUME KubeAssumption == IsFiniteSet(KubeNodes) /\ MaxKubeFaults \in Nat

AgentObjects == KubeNodes     \* an agent is named after its node
Constructed == {"secret", "cluster_deployment", "infraenv", "image_set", "agent_cluster_install", "nmstate_config"}
ASSUME NamesAssumption == KubeNodes \cap Constructed = {}

Objects == Constructed \cup AgentObjects
ClusterScoped == {"image_set"}

AciStates == {"none", "NotReady", "Ready", "Installing", "Completed", "Failed"}

KubeSteps == {"enter", "secret", "cluster_deployment", "infraenv", "image_set", "agent_cluster_install",
              "wait_not_ready", "nmstate_config", "start_nodes", "wait_agents", "approve",
              "wait_ready", "wait_installing", "wait_agents_installed", "wait_installed",
              "kubeconfig", "passed", "failed", "exit", "done"}

KubeInit ==
    /\ kpc = "enter"
    /\ hub = {} /\ resources = {} /\ ns = "none"
    /\ agentOf = [n \in KubeNodes |-> {}]
    /\ aci = "none" /\ listed = {} /\ booted = FALSE
    /\ teardown \in BOOLEAN
    /\ kfaults = {}

\* An API call of the current step raises: the rest of the test is skipped.
KubeRaises ==
    /\ Cardinality(kfaults) < MaxKubeFaults
    /\ kfaults' = kfaults \cup {kpc}

-----------------------------------------------------------------------------
\* __enter__ and the fixture: the set is emptied, the namespace made (409 is
\* ignored; another error leaves the context at once).
kube_api_context ==
    /\ kpc = "enter"
    /\ resources' = {}
    /\ \/ ns' = "active" /\ kpc' = "secret" /\ UNCHANGED kfaults
       \/ ns' = ns /\ kpc' = "exit" /\ KubeRaises
    /\ UNCHANGED <<hub, agentOf, aci, listed, booted, teardown>>

\* BaseResource.__init__ registers the object, create asks the API for it.
Create(kind, next) ==
    /\ kpc = kind
    /\ resources' = resources \cup {kind}
    /\ \/ hub' = hub \cup {kind} /\ kpc' = next /\ UNCHANGED kfaults
       \/ hub' = hub /\ kpc' = "failed" /\ KubeRaises
    /\ UNCHANGED <<ns, agentOf, listed, booted, teardown>>

secret_create == Create("secret", "cluster_deployment") /\ UNCHANGED aci

\* The cluster deployment refers to an AgentClusterInstall that is created later.
cluster_deployment_create == Create("cluster_deployment", "infraenv") /\ UNCHANGED aci

\* The ISO and the nodes are prepared between this step and the next.
infraenv_create == Create("infraenv", "image_set") /\ UNCHANGED aci

image_set_create == Create("image_set", "agent_cluster_install") /\ UNCHANGED aci

agent_cluster_install_create ==
    /\ Create("agent_cluster_install", "wait_not_ready")
    /\ aci' = IF "agent_cluster_install" \in hub' THEN "NotReady" ELSE aci

\* apply: delete, errors suppressed, then create; only with static addresses.
nmstate_config_apply ==
    \/ Create("nmstate_config", "start_nodes") /\ UNCHANGED aci
    \/ /\ kpc = "nmstate_config" /\ kpc' = "start_nodes"
       /\ UNCHANGED <<hub, resources, ns, agentOf, aci, listed, booted, teardown, kfaults>>

-----------------------------------------------------------------------------
\* wait_for_condition: polls until the condition holds, raises when the
\* exception condition does, and gives up at its timeout.
WaitFor(step, required, exception, next) ==
    /\ kpc = step
    /\ \/ aci \in required /\ kpc' = next
       \/ aci \in exception /\ kpc' = "failed"
       \/ aci \notin required /\ kpc' = "failed"
    /\ UNCHANGED <<hub, resources, ns, agentOf, aci, listed, booted, teardown, kfaults>>

wait_to_be_not_ready == WaitFor("wait_not_ready", {"NotReady"}, {}, "nmstate_config")
wait_to_be_ready == WaitFor("wait_ready", {"Ready", "Installing", "Completed", "Failed"}, {}, "wait_installing")
wait_to_be_installing == WaitFor("wait_installing", {"Installing"}, {}, "wait_agents_installed")
wait_to_be_installed == WaitFor("wait_installed", {"Completed"}, {"Failed"}, "kubeconfig")

\* start_nodes: the status and the ISO of the infra-env are awaited, the nodes
\* started; only then can agents register.
start_nodes ==
    /\ kpc = "start_nodes"
    /\ \/ kpc' = "wait_agents" /\ booted' = TRUE
       \/ kpc' = "failed" /\ booted' \in BOOLEAN
    /\ UNCHANGED <<hub, resources, ns, agentOf, aci, listed, teardown, kfaults>>

\* list_agents constructs an object per agent, and so registers it.  The wait
\* ends when there are exactly as many as nodes.
EnoughAgents(found) == Cardinality(found) = Cardinality(KubeNodes)

list_agents ==
    /\ kpc = "wait_agents"
    /\ LET found == AgentObjects \cap hub
       IN  /\ resources' = resources \cup found
           /\ IF EnoughAgents(found)
              THEN listed' = found /\ kpc' = "approve"
              ELSE UNCHANGED listed /\ kpc' \in {"wait_agents", "failed"}
    /\ UNCHANGED <<hub, ns, agentOf, aci, booted, teardown, kfaults>>

\* approve and set_hostname of one agent; the machine networks and the VIPs of
\* the AgentClusterInstall follow the last.
approve_agent ==
    /\ kpc = "approve"
    /\ \/ \E n \in {m \in listed : agentOf[m] = {}} :
            /\ agentOf' = [agentOf EXCEPT ![n] = {"approved"}]
            /\ UNCHANGED <<kpc, kfaults>>
       \/ \E n \in {m \in listed : agentOf[m] = {"approved"}} :
            /\ agentOf' = [agentOf EXCEPT ![n] = @ \cup {"hostname"}]
            /\ UNCHANGED <<kpc, kfaults>>
       \/ /\ \A n \in listed : agentOf[n] = {"approved", "hostname"}
          /\ kpc' = "wait_ready" /\ UNCHANGED <<agentOf, kfaults>>
       \/ kpc' = "failed" /\ KubeRaises /\ UNCHANGED agentOf
    /\ UNCHANGED <<hub, resources, ns, aci, listed, booted, teardown>>

\* wait_for_agents_to_install looks at the conditions of the agents, which can
\* be installed while the cluster is not, and has no exception condition: a
\* failed installation is noticed by its timeout.
wait_for_agents_to_install ==
    /\ kpc = "wait_agents_installed"
    /\ kpc' \in {"wait_installed", "failed"}
    /\ UNCHANGED <<hub, resources, ns, agentOf, aci, listed, booted, teardown, kfaults>>

download_kubeconfig ==
    /\ kpc = "kubeconfig"
    /\ kpc' \in {"passed", "failed"}
    /\ UNCHANGED <<hub, resources, ns, agentOf, aci, listed, booted, teardown, kfaults>>

-----------------------------------------------------------------------------
\* The fixture deletes the namespace before the context is left.
delete_namespace ==
    /\ kpc \in {"passed", "failed"}
    /\ kpc' = "exit"
    /\ \/ ns' = (IF teardown THEN "terminating" ELSE ns) /\ UNCHANGED kfaults
       \/ teardown /\ ns' = ns /\ KubeRaises
    /\ UNCHANGED <<hub, resources, agentOf, aci, listed, booted, teardown>>

\* Mutant: an object that is not there ends the loop.
IgnoreNotFound_Off == FALSE

IgnoreNotFound == TRUE

\* __exit__: the objects of the set are deleted in any order; "Not Found" is
\* ignored, another error ends the loop and leaves the rest.
delete_all_resources ==
    /\ kpc = "exit"
    /\ IF teardown /\ resources # {}
       THEN \E r \in resources :
              \/ r \in hub /\ hub' = hub \ {r} /\ resources' = resources \ {r} /\ UNCHANGED <<kpc, kfaults>>
              \/ /\ r \notin hub /\ resources' = resources \ {r}
                 /\ kpc' = (IF IgnoreNotFound THEN kpc ELSE "done")
                 /\ UNCHANGED <<hub, kfaults>>
              \/ KubeRaises /\ kpc' = "done" /\ UNCHANGED <<hub, resources>>
       ELSE kpc' = "done" /\ UNCHANGED <<hub, resources, kfaults>>
    /\ UNCHANGED <<ns, agentOf, aci, listed, booted, teardown>>

-----------------------------------------------------------------------------
\* The operator: a node that was started registers while its infra-env exists.
agent_registers ==
    /\ booted /\ ns = "active" /\ "infraenv" \in hub
    /\ \E a \in AgentObjects \ hub : hub' = hub \cup {a}
    /\ UNCHANGED <<kpc, resources, ns, agentOf, aci, listed, booted, teardown, kfaults>>

\* The installation starts by itself once every agent of the cluster is
\* approved, and completes or fails.
aci_moves ==
    /\ aci' \in CASE aci = "NotReady" -> IF AgentObjects \subseteq hub /\ \A n \in KubeNodes : "approved" \in agentOf[n]
                                         THEN {"Ready"} ELSE {}
                  [] aci = "Ready" -> {"NotReady", "Installing"}
                  [] aci = "Installing" -> {"Completed", "Failed"}
                  [] OTHER -> {}
    /\ UNCHANGED <<kpc, hub, resources, ns, agentOf, listed, booted, teardown, kfaults>>

\* Deleting a namespace deletes what is in it, one object at a time.
namespace_deletes ==
    /\ ns = "terminating"
    /\ \/ \E o \in hub \ ClusterScoped : hub' = hub \ {o} /\ ns' = ns
       \/ hub \subseteq ClusterScoped /\ ns' = "none" /\ hub' = hub
    /\ UNCHANGED <<kpc, resources, agentOf, aci, listed, booted, teardown, kfaults>>

KubeNext ==
    \/ kube_api_context \/ secret_create \/ cluster_deployment_create \/ infraenv_create
    \/ image_set_create \/ agent_cluster_install_create \/ nmstate_config_apply
    \/ wait_to_be_not_ready \/ wait_to_be_ready \/ wait_to_be_installing \/ wait_to_be_installed
    \/ start_nodes \/ list_agents \/ approve_agent \/ wait_for_agents_to_install \/ download_kubeconfig
    \/ delete_namespace \/ delete_all_resources
    \/ agent_registers \/ aci_moves \/ namespace_deletes

-----------------------------------------------------------------------------
\* Every variable has a value of its type.
KubeTypeOK ==
    /\ kpc \in KubeSteps
    /\ hub \subseteq Objects /\ resources \subseteq Objects
    /\ ns \in {"none", "active", "terminating"}
    /\ agentOf \in [KubeNodes -> SUBSET {"approved", "hostname"}]
    /\ aci \in AciStates /\ listed \subseteq KubeNodes
    /\ teardown \in BOOLEAN /\ booted \in BOOLEAN /\ kfaults \subseteq KubeSteps

\* When the context has been left with teardown on, each object that will stay
\* on the hub is explained by a call that failed: the image set by a delete of
\* the exit, an object of the namespace by the delete of the namespace, and one
\* that was constructed by both.
KubeLeftIsExplained ==
    kpc = "done" /\ teardown =>
        /\ \A o \in hub \cap Constructed : o \in ClusterScoped \/ ns = "active" => "exit" \in kfaults
        /\ hub \cap AgentObjects # {} /\ ns = "active" => kfaults \cap {"passed", "failed"} # {}

\* Once the wait for the installation has begun, every node of the test has an
\* agent of its own, approved and named; so a test that passes installed them all.
KubeInstallsEveryNode ==
    /\ kpc \in {"wait_ready", "wait_installing", "wait_agents_installed", "wait_installed", "kubeconfig", "passed"} =>
         \A n \in KubeNodes : agentOf[n] = {"approved", "hostname"}
    /\ kpc \in {"kubeconfig", "passed"} => aci = "Completed"

\* The steps after the wait for the agents, up to the end of the test.
InstallSteps == {"approve", "wait_ready", "wait_installing", "wait_agents_installed", "wait_installed", "kubeconfig", "passed"}

\* The wait for the agents has ended with those of all nodes.
ListedAreAll == kpc \in InstallSteps => listed = KubeNodes

\* What the test has made is registered until it is deleted, by the loop of the
\* exit, from the hub as well.
MadeIsRegistered ==
    /\ kpc = "enter" => hub = {} /\ ns = "none"
    /\ kpc # "done" => hub \cap Constructed \subseteq resources
    /\ kpc = "done" /\ teardown => hub \cap Constructed = {} \/ "exit" \in kfaults

\* A namespace that is still there after the test was to be kept, or its delete failed.
ActiveIsExplained ==
    kpc \in {"exit", "done"} /\ teardown /\ ns = "active" => kfaults \cap {"passed", "failed"} # {}

KubeIInv == KubeTypeOK /\ ListedAreAll /\ KubeInstallsEveryNode /\ MadeIsRegistered /\ ActiveIsExplained
=============================================================================
