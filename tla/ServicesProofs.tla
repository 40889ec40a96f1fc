--------------------------- MODULE ServicesProofs ---------------------------
(***************************************************************************)
(* Proofs about the parts of a test that do not share state with the       *)
(* installation of a cluster: one inductive invariant for each part, then  *)
(* the theorems about the specification that takes them together.          *)
(***************************************************************************)
EXTENDS MCServices, FiniteSetTheorems, SequenceTheorems, TLAPS

(***************************************************************************)
(* Agents of a hosted cluster.                                             *)
(***************************************************************************)
LEMMA HostedInitHolds == HostedInit => HostedIInv
<1> SUFFICES ASSUME HostedInit PROVE HostedIInv
  OBVIOUS
<1>1. Len(Counts) \in Nat
  BY HostedAssumption
<1>2. HostedTypeOK
  BY <1>1 DEF HostedInit, HostedTypeOK, AgentsTypeOK
<1>3. CopiesAreOlder /\ RoundInCounts
  BY DEF HostedInit, CopiesAreOlder, RoundInCounts
<1> QED
  BY <1>2, <1>3 DEF HostedIInv

LEMMA AgentFacts ==
    ASSUME AgentsTypeOK, NEW a \in HostedAgentNames
    PROVE  /\ agents[a] \in [bound : BOOLEAN, hostname : Nat, version : Nat]
           /\ agents[a].hostname \in Nat /\ agents[a].version \in Nat
           /\ copies[a] # NoCopy => /\ copies[a] \in [bound : {FALSE}, hostname : Nat, version : Nat]
                                    /\ copies[a].hostname \in Nat /\ copies[a].version \in Nat
  BY DEF AgentsTypeOK

\* An agent is written, and with it a new version; what unbind has read of it
\* stays or goes.
LEMMA WriteKeepsAgents ==
    ASSUME AgentsTypeOK, CopiesAreOlder, NEW a \in HostedAgentNames,
           NEW object \in [bound : BOOLEAN, hostname : Nat, version : Nat],
           object.hostname >= agents[a].hostname, agents' = Patched(a, object),
           copies' = copies \/ copies' = [copies EXCEPT ![a] = NoCopy]
    PROVE  AgentsTypeOK' /\ CopiesAreOlder' /\ HostNamesGrow
<1> DEFINE new == [object EXCEPT !.version = agents[a].version + 1]
<1>0. agents[a].hostname \in Nat /\ agents[a].version \in Nat /\ object.hostname \in Nat
  BY AgentFacts
<1>1. /\ new \in [bound : BOOLEAN, hostname : Nat, version : Nat]
      /\ new.version = agents[a].version + 1 /\ new.hostname = object.hostname
  BY <1>0
<1>2. agents' = [agents EXCEPT ![a] = new]
  BY DEF Patched
<1> HIDE DEF new
<1>3. /\ agents' \in [HostedAgentNames -> [bound : BOOLEAN, hostname : Nat, version : Nat]]
      /\ agents'[a] = new /\ \A b \in HostedAgentNames : b # a => agents'[b] = agents[b]
  BY <1>1, <1>2 DEF AgentsTypeOK
<1>4. /\ copies' \in [HostedAgentNames -> {NoCopy} \cup [bound : {FALSE}, hostname : Nat, version : Nat]]
      /\ \A b \in HostedAgentNames : copies'[b] # NoCopy => copies'[b] = copies[b]
  BY DEF AgentsTypeOK
<1>5. ASSUME NEW b \in HostedAgentNames
      PROVE  /\ agents'[b].hostname >= agents[b].hostname
             /\ copies'[b] # NoCopy => /\ copies'[b].version <= agents'[b].version
                                       /\ copies'[b].version = agents'[b].version => copies'[b].hostname = agents'[b].hostname
  <2>1. agents[b].hostname \in Nat /\ agents[b].version \in Nat
    BY AgentFacts
  <2>2. copies[b] # NoCopy => /\ copies[b].version \in Nat /\ copies[b].version <= agents[b].version
                              /\ copies[b].version = agents[b].version => copies[b].hostname = agents[b].hostname
    BY AgentFacts DEF CopiesAreOlder
  <2>3. CASE b = a
    BY <1>0, <1>1, <1>3, <1>4, <2>2, <2>3
  <2>4. CASE b # a
    BY <1>3, <1>4, <2>1, <2>2, <2>4
  <2> QED
    BY <2>3, <2>4
<1> QED
  BY <1>3, <1>4, <1>5 DEF AgentsTypeOK, CopiesAreOlder, HostNamesGrow

LEMMA AgentsKept ==
    ASSUME AgentsTypeOK, CopiesAreOlder, UNCHANGED <<agents, copies>>
    PROVE  AgentsTypeOK' /\ CopiesAreOlder' /\ HostNamesGrow
<1>1. \A a \in HostedAgentNames : agents[a].hostname \in Nat
  BY AgentFacts
<1>2. HostNamesGrow
  BY <1>1 DEF HostNamesGrow
<1> QED
  BY <1>2 DEF AgentsTypeOK, CopiesAreOlder

\* The one write that is not a patch, unbind's, is refused unless the agent is
\* as it was read.
LEMMA AgentsStep ==
    ASSUME AgentsTypeOK, CopiesAreOlder, [HostedNext]_hostedVars
    PROVE  AgentsTypeOK' /\ CopiesAreOlder' /\ HostNamesGrow
<1>1. CASE UNCHANGED <<agents, copies>>
  BY <1>1, AgentsKept
<1>2. ASSUME NEW a \in HostedAgentNames, unbind_get(a)
      PROVE  AgentsTypeOK' /\ CopiesAreOlder' /\ HostNamesGrow
  <2> DEFINE read == [agents[a] EXCEPT !.bound = FALSE]
  <2>1. UNCHANGED agents /\ copies' = [copies EXCEPT ![a] = read]
    BY <1>2 DEF unbind_get
  <2>2. /\ read \in [bound : {FALSE}, hostname : Nat, version : Nat]
        /\ read.version = agents[a].version /\ read.hostname = agents[a].hostname
    BY AgentFacts
  <2> HIDE DEF read
  <2>3. copies' \in [HostedAgentNames -> {NoCopy} \cup [bound : {FALSE}, hostname : Nat, version : Nat]]
    BY <2>1, <2>2 DEF AgentsTypeOK
  <2>4. \A b \in HostedAgentNames : copies'[b] = IF b = a THEN read ELSE copies[b]
    BY <2>1 DEF AgentsTypeOK
  <2>5. \A b \in HostedAgentNames : agents[b].hostname \in Nat /\ agents[b].version \in Nat
    BY AgentFacts
  <2>6. CopiesAreOlder'
    BY <2>1, <2>2, <2>4, <2>5 DEF CopiesAreOlder
  <2>7. HostNamesGrow
    BY <2>1, <2>5 DEF HostNamesGrow
  <2> QED
    BY <2>1, <2>3, <2>6, <2>7 DEF AgentsTypeOK
<1>3. ASSUME NEW a \in HostedAgentNames, unbind_replace(a)
      PROVE  AgentsTypeOK' /\ CopiesAreOlder' /\ HostNamesGrow
  <2>1. copies[a] # NoCopy /\ copies' = [copies EXCEPT ![a] = NoCopy]
    BY <1>3 DEF unbind_replace
  <2>2. copies[a] \in [bound : {FALSE}, hostname : Nat, version : Nat] /\ agents[a].hostname \in Nat
    BY <2>1, AgentFacts
  <2>3. CASE Accepts(copies[a], agents[a])
    <3>1. copies[a].hostname = agents[a].hostname
      BY <2>1, <2>3 DEF Accepts, CopiesAreOlder
    <3>2. agents' = Patched(a, copies[a])
      BY <1>3, <2>3 DEF unbind_replace, Patched
    <3>3. copies[a] \in [bound : BOOLEAN, hostname : Nat, version : Nat]
      BY <2>2
    <3>4. copies[a].hostname >= agents[a].hostname
      BY <2>2, <3>1
    <3> QED
      BY <2>1, <3>2, <3>3, <3>4, WriteKeepsAgents
  <2>4. CASE ~Accepts(copies[a], agents[a])
    <3>1. UNCHANGED agents
      BY <1>3, <2>4 DEF unbind_replace
    <3>2. \A b \in HostedAgentNames : copies'[b] = IF b = a THEN NoCopy ELSE copies[b]
      BY <2>1 DEF AgentsTypeOK
    <3>3. \A b \in HostedAgentNames : agents[b].hostname \in Nat
      BY AgentFacts
    <3>4. AgentsTypeOK'
      BY <2>1, <3>1 DEF AgentsTypeOK
    <3> QED
      BY <3>1, <3>2, <3>3, <3>4 DEF CopiesAreOlder, HostNamesGrow
  <2> QED
    BY <2>3, <2>4
<1>4. ASSUME NEW a \in HostedAgentNames, UNCHANGED copies,
             NEW value \in BOOLEAN, agents' = Patched(a, [agents[a] EXCEPT !.bound = value])
      PROVE  AgentsTypeOK' /\ CopiesAreOlder' /\ HostNamesGrow
  <2> DEFINE object == [agents[a] EXCEPT !.bound = value]
  <2>1. object \in [bound : BOOLEAN, hostname : Nat, version : Nat] /\ object.hostname = agents[a].hostname
    <3>1. agents[a] \in [bound : BOOLEAN, hostname : Nat, version : Nat]
      BY AgentFacts
    <3> QED
      BY <3>1
  <2>2. object.hostname >= agents[a].hostname
    BY <2>1, AgentFacts
  <2> QED
    BY <1>4, <2>1, <2>2, WriteKeepsAgents
<1>5. CASE set_agent_hostname
  <2>1. PICK a \in HostedAgentNames : agents' = Patched(a, [agents[a] EXCEPT !.hostname = @ + 1])
    BY <1>5 DEF set_agent_hostname
  <2> DEFINE object == [agents[a] EXCEPT !.hostname = @ + 1]
  <2>2. agents[a].hostname \in Nat
    BY AgentFacts
  <2>3. object \in [bound : BOOLEAN, hostname : Nat, version : Nat] /\ object.hostname >= agents[a].hostname
    <3>1. agents[a] \in [bound : BOOLEAN, hostname : Nat, version : Nat]
      BY AgentFacts
    <3>2. agents[a].hostname + 1 \in Nat /\ agents[a].hostname + 1 >= agents[a].hostname
      BY <2>2
    <3>3. object.hostname = agents[a].hostname + 1 /\ object \in [bound : BOOLEAN, hostname : Nat, version : Nat]
      BY <3>1, <3>2
    <3> QED
      BY <3>2, <3>3
  <2>4. UNCHANGED copies
    BY <1>5 DEF set_agent_hostname
  <2> QED
    BY <2>1, <2>3, <2>4, WriteKeepsAgents
<1>6. CASE capi_provider
  BY <1>4, <1>6 DEF capi_provider, bind
<1>7. \/ UNCHANGED <<agents, copies>> \/ set_agent_hostname \/ capi_provider
      \/ \E a \in HostedAgentNames : unbind_get(a) \/ unbind_replace(a)
  BY DEF HostedNext, hostedVars, hypershift_create, set_nodepool_replicas, wait_for_bound_agents,
         wait_for_nodes, wait_for_agents_to_unbound, operator_reconciles
<1> QED
  BY <1>1, <1>2, <1>3, <1>5, <1>6, <1>7

LEMMA HostedStep == HostedIInv /\ [HostedNext]_hostedVars => HostedIInv' /\ HostNamesGrow
<1> SUFFICES ASSUME HostedIInv, [HostedNext]_hostedVars PROVE HostedIInv' /\ HostNamesGrow
  OBVIOUS
<1>0. Len(Counts) \in Nat /\ \A i \in 1..Len(Counts) : Counts[i] \in Nat
  BY HostedAssumption
<1>1. AgentsTypeOK' /\ CopiesAreOlder' /\ HostNamesGrow
  BY AgentsStep DEF HostedIInv, HostedTypeOK
<1>2. HostedTypeOK' /\ RoundInCounts'
  <2> USE <1>0, <1>1 DEF HostedIInv, HostedTypeOK, RoundInCounts
  <2>1. CASE UNCHANGED hostedVars           BY <2>1 DEF hostedVars
  <2>2. CASE hypershift_create              BY <2>2 DEF hypershift_create
  <2>3. CASE set_nodepool_replicas          BY <2>3 DEF set_nodepool_replicas
  <2>4. CASE wait_for_bound_agents          BY <2>4 DEF wait_for_bound_agents
  <2>5. CASE wait_for_nodes                 BY <2>5 DEF wait_for_nodes
  <2>6. CASE wait_for_agents_to_unbound     BY <2>6 DEF wait_for_agents_to_unbound
  <2>7. ASSUME NEW a \in HostedAgentNames, unbind_get(a) \/ unbind_replace(a)
        PROVE  HostedTypeOK' /\ RoundInCounts'
    BY <2>7 DEF unbind_get, unbind_replace
  <2>8. CASE capi_provider                  BY <2>8 DEF capi_provider
  <2>9. CASE set_agent_hostname             BY <2>9 DEF set_agent_hostname
  <2>10. CASE operator_reconciles           BY <2>10 DEF operator_reconciles, Bound
  <2> QED
    BY <2>1, <2>2, <2>3, <2>4, <2>5, <2>6, <2>7, <2>8, <2>9, <2>10 DEF HostedNext
<1> QED
  BY <1>1, <1>2 DEF HostedIInv

(***************************************************************************)
(* The config map of the service and its restarts.                         *)
(***************************************************************************)
LEMMA CmInitHolds == CmInit => CmIInv
<1> SUFFICES ASSUME CmInit PROVE CmIInv
  OBVIOUS
<1>1. cm \in [CmKeys -> CmValues] /\ before = cm
  <2>1. {Absent, "file"} \subseteq CmValues
    BY DEF CmValues
  <2> QED
    BY <2>1 DEF CmInit
<1>2. CmTypeOK
  <2>0. MaxCmChanges \in Nat
    BY CmAssumption
  <2>1. 0 \in 0..MaxCmChanges /\ pods = {}
    BY <2>0 DEF CmInit
  <2> QED
    BY <1>1, <2>1 DEF CmInit, CmTypeOK
<1> QED
  BY <1>2 DEF CmInit, CmIInv, OnePodAtMost, RestoredData

\* How many pods there are, as the deployment and the waits count them.
LEMMA PodCounts ==
    ASSUME OnePodAtMost
    PROVE  /\ pods = {} => Cardinality(pods) = 0
           /\ \A data : pods = {data} => Cardinality(pods) = 1
           /\ Cardinality(pods) = 0 => pods = {}
           /\ Cardinality(pods) = 1 => \E data \in [CmKeys -> CmValues] : pods = {data}
           /\ Cardinality(pods) \in {0, 1}
<1>1. Cardinality({}) = 0
  BY FS_EmptySet
<1>2. \A data : Cardinality({data}) = 1
  BY FS_Singleton
<1> QED
  BY <1>1, <1>2 DEF OnePodAtMost

\* The environment and the merge keep the data of the config map well formed.
LEMMA MergedType ==
    ASSUME NEW data \in [CmKeys -> CmValues], NEW S, NEW update \in [S -> CmValues]
    PROVE  Merged(data, update) \in [CmKeys -> CmValues]
  BY DEF Merged

LEMMA RelevantEnvsType ==
    ASSUME NEW env \in [EnvKeys -> EnvValues \cup {"unset", "", Quoted}]
    PROVE  get_relevant_envs(env) \in [EnvKeys -> CmValues]
<1> SUFFICES ASSUME NEW k \in EnvKeys PROVE get_relevant_envs(env)[k] \in CmValues
  BY DEF get_relevant_envs
<1> DEFINE value == IF env[k] = "unset" THEN DefaultOf[k] ELSE env[k]
<1>1. DefaultOf[k] \in EnvValues \cup {"", Quoted} /\ env[k] \in EnvValues \cup {"unset", "", Quoted}
  BY CmAssumption
<1>2. value \in EnvValues \cup {"", Quoted}
  BY <1>1
<1>3. get_relevant_envs(env)[k] = IF value = Quoted THEN "" ELSE IF value = "" THEN Absent ELSE value
  BY DEF get_relevant_envs
<1> HIDE DEF value
<1> QED
  BY <1>2, <1>3 DEF CmValues

LEMMA DeployedType ==
    ASSUME CmTypeOK, set_envs_to_service_cm
    PROVE  cm' \in [CmKeys -> CmValues]
<1>1. PICK env \in [EnvKeys -> EnvValues \cup {"unset", "", Quoted}], kubeApi \in BOOLEAN :
         cm' = update_requirements(Merged(Merged(cm, get_relevant_envs(env)),
                                          kube_api_installer_policy_env(kubeApi)))
  BY DEF set_envs_to_service_cm
<1>2. cm \in [CmKeys -> CmValues]
  BY DEF CmTypeOK
<1>3. Merged(cm, get_relevant_envs(env)) \in [CmKeys -> CmValues]
  BY <1>2, MergedType, RelevantEnvsType
<1>4. kube_api_installer_policy_env(kubeApi) \in [{PolicyKey} -> CmValues]
  BY DEF kube_api_installer_policy_env, CmValues
<1>5. Merged(Merged(cm, get_relevant_envs(env)), kube_api_installer_policy_env(kubeApi)) \in [CmKeys -> CmValues]
  BY <1>3, <1>4, MergedType
<1>6. "required" \in CmValues
  BY DEF CmValues
<1> QED
  BY <1>1, <1>5, <1>6 DEF update_requirements

\* The old pod is gone before a new one starts, so the pod that the last wait
\* finds runs with the restored data.
LEMMA CmStep == CmIInv /\ [CmNext]_cmVars => CmIInv'
<1> SUFFICES ASSUME CmIInv, [CmNext]_cmVars PROVE CmIInv'
  OBVIOUS
<1>0. CmTypeOK /\ OnePodAtMost /\ RestoredData /\ MaxCmChanges \in Nat
  BY CmAssumption DEF CmIInv
<1>t. /\ cm \in [CmKeys -> CmValues] /\ before \in [CmKeys -> CmValues]
      /\ restore \in BOOLEAN /\ changed \in BOOLEAN /\ replicasOf \in {0, 1}
  BY <1>0 DEF CmTypeOK
<1>1. CASE UNCHANGED cmVars
  BY <1>0, <1>1 DEF cmVars, CmIInv, CmTypeOK, OnePodAtMost, RestoredData
<1>2. CASE set_envs_to_service_cm
  <2>1. cm' \in [CmKeys -> CmValues]
    BY <1>0, <1>2, DeployedType
  <2>2. restore = FALSE
    BY <1>0, <1>2, <1>t DEF set_envs_to_service_cm, RestoredData, RestoreSteps
  <2>3. CmTypeOK'
    BY <1>0, <1>2, <2>1 DEF set_envs_to_service_cm, CmTypeOK
  <2>4. OnePodAtMost' /\ RestoredData'
    BY <1>0, <1>2, <2>2 DEF set_envs_to_service_cm, OnePodAtMost, RestoredData
  <2> QED
    BY <2>3, <2>4 DEF CmIInv
<1>3. CASE save_configmap
  <2>1. restore = FALSE
    BY <1>0, <1>3, <1>t DEF save_configmap, RestoredData, RestoreSteps
  <2>2. CmTypeOK'
    BY <1>0, <1>3 DEF save_configmap, CmTypeOK
  <2> QED
    BY <1>0, <1>3, <2>1, <2>2 DEF save_configmap, CmIInv, OnePodAtMost, RestoredData
<1>4. ASSUME NEW restart \in BOOLEAN, change_configmap_data(restart) PROVE CmIInv'
  <2>1. restore = FALSE
    BY <1>0, <1>4, <1>t DEF change_configmap_data, RestoredData, RestoreSteps
  <2>2. PICK k \in CmKeys : \E v \in {"test", before[k]} \ {Absent} : cm' = [cm EXCEPT ![k] = v]
    BY <1>4 DEF change_configmap_data
  <2>3. {"test", before[k]} \subseteq CmValues
    BY <1>t DEF CmValues
  <2>4. cm' \in [CmKeys -> CmValues]
    BY <1>t, <2>2, <2>3
  <2>5. changes' \in 0..MaxCmChanges
    BY <1>0, <1>4 DEF change_configmap_data, CmTypeOK
  <2>6. CmTypeOK'
    BY <1>0, <1>4, <2>4, <2>5 DEF change_configmap_data, CmTypeOK
  <2> QED
    BY <1>0, <1>4, <2>1, <2>6 DEF change_configmap_data, CmIInv, OnePodAtMost, RestoredData
<1>5. CASE test_ends
  <2>1. restore = FALSE
    BY <1>0, <1>5, <1>t DEF test_ends, RestoredData, RestoreSteps
  <2> QED
    BY <1>0, <1>5, <2>1 DEF test_ends, CmIInv, CmTypeOK, OnePodAtMost, RestoredData
<1>6. CASE scale_to_zero
  BY <1>0, <1>6 DEF scale_to_zero, CmIInv, CmTypeOK, OnePodAtMost, RestoredData, RestoreSteps
<1>7. CASE scale_to_one
  <2>1. pods = {}
    BY <1>0, <1>7, PodCounts DEF scale_to_one, PodsAre
  <2> QED
    BY <1>0, <1>7, <2>1 DEF scale_to_one, CmIInv, CmTypeOK, OnePodAtMost, RestoredData, RestoreSteps
<1>8. CASE pods_are_running
  <2>1. \E data \in [CmKeys -> CmValues] : pods = {data}
    BY <1>0, <1>8, PodCounts DEF pods_are_running, PodsAre
  <2>2. restore => pods = {cm}
    BY <1>0, <1>8, <2>1 DEF pods_are_running, RestoredData
  <2>3. CmTypeOK' /\ OnePodAtMost'
    BY <1>0, <1>8 DEF pods_are_running, CmTypeOK, OnePodAtMost
  <2> QED
    BY <1>0, <1>8, <1>t, <2>2, <2>3 DEF pods_are_running, CmIInv, RestoredData, RestoreSteps
<1>9. CASE restart_fails
  BY <1>0, <1>9, <1>t DEF restart_fails, CmIInv, CmTypeOK, OnePodAtMost, RestoredData, RestoreSteps
<1>10. CASE rollout_assisted_service
  <2>1. restore = FALSE
    BY <1>0, <1>10, <1>t DEF rollout_assisted_service, RestoredData, RestoreSteps
  <2>2. CASE before # cm
    <3>1. cm' = Merged(cm, before) /\ restore' = TRUE /\ scpc' = "scale" /\ changed' = TRUE
      BY <1>10, <2>2 DEF rollout_assisted_service
    <3>2. cm' \in [CmKeys -> CmValues] /\ \A k \in CmKeys : before[k] # Absent => cm'[k] = before[k]
      BY <1>t, <3>1, MergedType DEF Merged
    <3>3. UNCHANGED <<replicasOf, pods, before, changes>>
      BY <1>10 DEF rollout_assisted_service
    <3>4. CmTypeOK' /\ OnePodAtMost'
      BY <1>0, <3>1, <3>2, <3>3 DEF CmTypeOK, OnePodAtMost
    <3> QED
      BY <3>1, <3>2, <3>3, <3>4 DEF CmIInv, RestoredData, RestoreSteps
  <2>3. CASE before = cm
    <3>1. UNCHANGED <<cm, restore>> /\ scpc' = "done" /\ changed' = FALSE
      BY <1>10, <2>3 DEF rollout_assisted_service
    <3>3. UNCHANGED <<replicasOf, pods, before, changes>>
      BY <1>10 DEF rollout_assisted_service
    <3>4. CmTypeOK' /\ OnePodAtMost'
      BY <1>0, <3>1, <3>3 DEF CmTypeOK, OnePodAtMost
    <3> QED
      BY <2>1, <3>1, <3>3, <3>4 DEF CmIInv, RestoredData
  <2> QED
    BY <2>2, <2>3
<1>11. CASE pods_follow
  <2>1. UNCHANGED <<cm, replicasOf, scpc, restore, before, changed, changes>>
    BY <1>11 DEF pods_follow
  <2>2. \/ pods = {} /\ replicasOf = 1 /\ pods' = {cm}
        \/ Cardinality(pods) > replicasOf /\ replicasOf = 0 /\ pods' = {}
    BY <1>0, <1>11, <1>t, PodCounts DEF pods_follow
  <2>3. CmTypeOK' /\ OnePodAtMost'
    BY <1>0, <1>t, <2>1, <2>2 DEF CmTypeOK, OnePodAtMost
  <2>4. RestoredData'
    BY <1>0, <2>1, <2>2 DEF RestoredData
  <2> QED
    BY <2>3, <2>4 DEF CmIInv
<1> QED
  BY <1>1, <1>2, <1>3, <1>4, <1>5, <1>6, <1>7, <1>8, <1>9, <1>10, <1>11 DEF CmNext

LEMMA CmConclusion == ASSUME CmIInv PROVE RolloutRestoresService
<1> SUFFICES ASSUME scpc = "done", changed
             PROVE  /\ Cardinality(pods) = 1
                    /\ \A data \in pods, k \in CmKeys : before[k] # Absent => data[k] = before[k]
  BY DEF RolloutRestoresService
<1>1. restore
  BY DEF CmIInv, RestoredData
<1>2. pods = {cm} /\ \A k \in CmKeys : before[k] # Absent => cm[k] = before[k]
  BY <1>1 DEF CmIInv, RestoredData
<1>3. Cardinality({cm}) = 1
  BY FS_Singleton
<1> QED
  BY <1>2, <1>3

(***************************************************************************)
(* Hosts added to an installed cluster.                                    *)
(***************************************************************************)
LEMMA Day2InitHolds == Day2Init => Day2IInv
  BY Day2Assumption DEF Day2Init, Day2IInv, Day2TypeOK, NodesWereInstalled, CountIsOfDay1, Day2NodesAdded

\* The ready nodes are counted in finite sets.
LEMMA Day2Counts ==
    ASSUME Day2TypeOK
    PROVE  /\ Cardinality(day1Ready) \in Nat
           /\ Cardinality(Day2Hosts) \in Nat
           /\ Cardinality({h \in Day2Hosts : is_ocp_node_ready(h)}) \in Nat
           /\ Cardinality({h \in Day2Hosts : is_ocp_node_ready(h)}) = Cardinality(Day2Hosts) =>
                \A h \in Day2Hosts : node[h] = "ready"
           /\ (\A h \in Day2Hosts : node[h] # "ready") => Cardinality({h \in Day2Hosts : is_ocp_node_ready(h)}) = 0
<1> DEFINE ready == {h \in Day2Hosts : is_ocp_node_ready(h)}
<1>1. ready \subseteq Day2Hosts /\ day1Ready \subseteq Day1Nodes
  BY DEF Day2TypeOK
<1>2. IsFiniteSet(ready) /\ IsFiniteSet(day1Ready) /\ IsFiniteSet(Day2Hosts)
  BY <1>1, Day2Assumption, FS_Subset
<1>3. Cardinality(ready) \in Nat /\ Cardinality(day1Ready) \in Nat /\ Cardinality(Day2Hosts) \in Nat
  BY <1>2, FS_CardinalityType
<1>4. Cardinality(ready) = Cardinality(Day2Hosts) => ready = Day2Hosts
  BY <1>1, <1>2, FS_Subset
<1>5. (\A h \in Day2Hosts : node[h] # "ready") => ready = {}
  BY DEF is_ocp_node_ready
<1>6. Cardinality({}) = 0
  BY FS_EmptySet
<1>7. ready = Day2Hosts => \A h \in Day2Hosts : node[h] = "ready"
  BY DEF is_ocp_node_ready
<1> QED
  BY <1>3, <1>4, <1>5, <1>6, <1>7

\* A number of ready nodes that has grown by the number of hosts can only come
\* from all of them while the day-1 nodes stay as they were counted.
LEMMA Day2Step == Day2IInv /\ [Day2Next]_day2Vars => Day2IInv'
<1> SUFFICES ASSUME Day2IInv, [Day2Next]_day2Vars PROVE Day2IInv'
  OBVIOUS
<1>0. Day2TypeOK /\ NodesWereInstalled /\ CountIsOfDay1 /\ Day2NodesAdded /\ MaxDay1Changes \in Nat
  BY Day2Assumption DEF Day2IInv
<1>t. /\ status \in [Day2Hosts -> {"none", "discovering", "known", "insufficient", "installing", "added-to-existing-cluster"}]
      /\ node \in [Day2Hosts -> {"none", "csr", "joined", "ready"}]
  BY <1>0 DEF Day2TypeOK
<1> USE DEF Day2IInv, Day2TypeOK, NodesWereInstalled, CountIsOfDay1, Day2NodesAdded
<1>1. CASE UNCHANGED day2Vars
  BY <1>0, <1>1 DEF day2Vars
<1>2. CASE day2_prepare_nodes
  <2>1. \A h \in Day2Hosts : node[h] = "none"
    BY <1>0, <1>2, <1>t DEF day2_prepare_nodes
  <2> QED
    BY <1>0, <1>2, <2>1 DEF day2_prepare_nodes
<1>3. CASE day2_wait_known
  BY <1>0, <1>3 DEF day2_wait_known
<1>4. CASE count_ready_nodes
  <2>1. \A h \in Day2Hosts : node[h] # "ready"
    BY <1>0, <1>4, <1>t DEF count_ready_nodes
  <2>2. counted' = Cardinality(day1Ready) /\ counted' \in Nat
    BY <1>0, <1>4, <2>1, Day2Counts DEF count_ready_nodes, get_ocp_cluster_ready_nodes_num
  <2> QED
    BY <1>0, <1>4, <2>2 DEF count_ready_nodes
<1>5. CASE install_day2_hosts
  <2>1. status' \in [Day2Hosts -> {"none", "discovering", "known", "insufficient", "installing", "added-to-existing-cluster"}]
    BY <1>t, <1>5 DEF install_day2_hosts
  <2>2. \A h \in Day2Hosts : node[h] = "none"
    BY <1>0, <1>5, <1>t DEF install_day2_hosts
  <2> QED
    BY <1>0, <1>5, <2>1, <2>2 DEF install_day2_hosts
<1>6. CASE day2_wait_installed
  BY <1>0, <1>6 DEF day2_wait_installed
<1>7. CASE wait_nodes_to_be_in_ocp
  <2>1. UNCHANGED <<status, day1Ready, counted, day1Changes>> /\ d2pc = "wait_nodes"
    BY <1>7 DEF wait_nodes_to_be_in_ocp
  <2>2. /\ node' \in [Day2Hosts -> {"none", "csr", "joined", "ready"}]
        /\ \A h \in Day2Hosts : (node'[h] = "none" <=> node[h] = "none") /\ (node[h] = "ready" => node'[h] = "ready")
    BY <1>t, <1>7 DEF wait_nodes_to_be_in_ocp, Approved
  <2>3. d2pc' \in {"passed", "wait_nodes"}
    BY <1>7 DEF wait_nodes_to_be_in_ocp
  <2>4. ASSUME d2pc' = "passed", day1Changes = 0 PROVE \A h \in Day2Hosts : node[h] = "ready"
    <3>1. get_ocp_cluster_ready_nodes_num = counted + Cardinality(Day2Hosts)
      BY <1>7, <2>4 DEF wait_nodes_to_be_in_ocp
    <3>2. counted = Cardinality(day1Ready)
      BY <1>0, <2>1, <2>4
    <3>3. Cardinality({h \in Day2Hosts : is_ocp_node_ready(h)}) = Cardinality(Day2Hosts)
      BY <1>0, <3>1, <3>2, Day2Counts DEF get_ocp_cluster_ready_nodes_num
    <3> QED
      BY <1>0, <3>3, Day2Counts
  <2>5. Day2TypeOK' /\ NodesWereInstalled' /\ CountIsOfDay1'
    BY <1>0, <2>1, <2>2, <2>3
  <2>6. Day2NodesAdded'
    BY <2>1, <2>2, <2>4
  <2> QED
    BY <2>5, <2>6
<1>8. CASE day2_timeout
  BY <1>0, <1>8 DEF day2_timeout
<1>9. CASE day2_host_moves
  BY <1>0, <1>t, <1>9 DEF day2_host_moves
<1>10. CASE day1_node_changes
  <2>1. day1Ready' \subseteq Day1Nodes
    BY <1>0, <1>10 DEF day1_node_changes
  <2>2. day1Changes' \in 0..MaxDay1Changes
    BY <1>0, <1>10 DEF day1_node_changes
  <2>3. d2pc \notin {"create", "wait_known", "count"} => day1Changes' # 0
    BY <1>0, <1>10 DEF day1_node_changes
  <2> QED
    BY <1>0, <1>10, <2>1, <2>2, <2>3 DEF day1_node_changes
<1> QED
  BY <1>1, <1>2, <1>3, <1>4, <1>5, <1>6, <1>7, <1>8, <1>9, <1>10 DEF Day2Next

(***************************************************************************)
(* An installation through the kube API.                                   *)
(***************************************************************************)
LEMMA KubeInitHolds == KubeInit => KubeIInv
  BY DEF KubeInit, KubeIInv, KubeTypeOK, KubeSteps, AciStates, ListedAreAll, InstallSteps,
         KubeInstallsEveryNode, MadeIsRegistered, ActiveIsExplained

\* As many agents as nodes are the agents of all nodes.
LEMMA EnoughIsAll ==
    ASSUME NEW found \in SUBSET KubeNodes, EnoughAgents(found)
    PROVE  found = KubeNodes
<1>1. IsFiniteSet(KubeNodes) /\ IsFiniteSet(found)
  BY KubeAssumption, FS_Subset
<1> QED
  BY <1>1, FS_Subset DEF EnoughAgents

\* One object is constructed and created, or its creation fails.
LEMMA CreateKeeps ==
    ASSUME KubeIInv, NEW kind \in Constructed, NEW next \in KubeSteps \ (InstallSteps \cup {"enter", "exit", "done"}),
           kind \in KubeSteps \ (InstallSteps \cup {"enter", "exit", "done"}),
           Create(kind, next), aci' \in AciStates
    PROVE  KubeIInv'
<1> USE DEF KubeIInv, ListedAreAll, KubeInstallsEveryNode, MadeIsRegistered, ActiveIsExplained
<1>1. /\ kpc = kind /\ kpc' \in {next, "failed"} /\ resources' = resources \cup {kind}
      /\ hub' \subseteq hub \cup {kind} /\ UNCHANGED <<ns, agentOf, listed, booted, teardown>>
      /\ kfaults' \subseteq kfaults \cup {kpc}
  BY DEF Create, KubeRaises
<1>2. KubeTypeOK'
  BY <1>1 DEF KubeTypeOK, Objects, KubeSteps
<1> QED
  BY <1>1, <1>2 DEF InstallSteps

LEMMA KubeStep == KubeIInv /\ [KubeNext]_kubeVars => KubeIInv'
<1> SUFFICES ASSUME KubeIInv, [KubeNext]_kubeVars PROVE KubeIInv'
  OBVIOUS
<1>0. /\ KubeTypeOK /\ ListedAreAll /\ KubeInstallsEveryNode /\ MadeIsRegistered /\ ActiveIsExplained
      /\ aci \in AciStates /\ "NotReady" \in AciStates
  BY DEF KubeIInv, KubeTypeOK, AciStates
<1>1. CASE UNCHANGED kubeVars
  BY <1>0, <1>1 DEF kubeVars, KubeIInv, KubeTypeOK, ListedAreAll, KubeInstallsEveryNode, MadeIsRegistered, ActiveIsExplained
<1>2. CASE \/ secret_create \/ cluster_deployment_create \/ infraenv_create \/ image_set_create
           \/ Create("nmstate_config", "start_nodes") /\ UNCHANGED aci
  BY <1>0, <1>2, CreateKeeps DEF secret_create, cluster_deployment_create, infraenv_create, image_set_create,
     Constructed, KubeSteps, InstallSteps
<1>3. CASE agent_cluster_install_create
  <2>1. aci' \in AciStates
    BY <1>0, <1>3 DEF agent_cluster_install_create
  <2> QED
    BY <1>0, <1>3, <2>1, CreateKeeps DEF agent_cluster_install_create, Constructed, KubeSteps, InstallSteps
<1> USE <1>0 DEF KubeIInv, ListedAreAll, KubeInstallsEveryNode, MadeIsRegistered, ActiveIsExplained, InstallSteps
<1>4. CASE kube_api_context
  <2>1. KubeTypeOK'
    BY <1>4 DEF kube_api_context, KubeRaises, KubeTypeOK, KubeSteps
  <2> QED
    BY <1>4, <2>1 DEF kube_api_context, KubeRaises
<1>5. CASE /\ kpc = "nmstate_config" /\ kpc' = "start_nodes"
           /\ UNCHANGED <<hub, resources, ns, agentOf, aci, listed, booted, teardown, kfaults>>
  BY <1>5 DEF KubeTypeOK, KubeSteps
<1>6. CASE wait_to_be_not_ready
  BY <1>6 DEF wait_to_be_not_ready, WaitFor, KubeTypeOK, KubeSteps
<1>7. CASE wait_to_be_ready
  BY <1>7 DEF wait_to_be_ready, WaitFor, KubeTypeOK, KubeSteps
<1>8. CASE wait_to_be_installing
  BY <1>8 DEF wait_to_be_installing, WaitFor, KubeTypeOK, KubeSteps
<1>9. CASE wait_to_be_installed
  BY <1>9 DEF wait_to_be_installed, WaitFor, KubeTypeOK, KubeSteps
<1>10. CASE start_nodes
  BY <1>10 DEF start_nodes, KubeTypeOK, KubeSteps
<1>11. CASE list_agents
  <2> DEFINE found == AgentObjects \cap hub
  <2>1. /\ kpc = "wait_agents" /\ resources' = resources \cup found
        /\ kpc' \in {"approve", "wait_agents", "failed"}
        /\ (kpc' = "approve" => EnoughAgents(found) /\ listed' = found)
        /\ (kpc' # "approve" => UNCHANGED listed)
        /\ UNCHANGED <<hub, ns, agentOf, aci, booted, teardown, kfaults>>
    BY <1>11 DEF list_agents
  <2>2. kpc' = "approve" => listed' = KubeNodes
    BY <2>1, EnoughIsAll DEF AgentObjects
  <2>3. listed' \subseteq KubeNodes /\ resources' \subseteq Objects
    BY <2>1, <2>2 DEF KubeTypeOK, Objects
  <2>4. KubeTypeOK'
    BY <2>1, <2>3 DEF KubeTypeOK, KubeSteps
  <2> HIDE DEF found
  <2> QED
    BY <2>1, <2>2, <2>4
<1>12. CASE approve_agent
  <2>1. /\ kpc = "approve" /\ listed = KubeNodes
        /\ UNCHANGED <<hub, resources, ns, aci, listed, booted, teardown>>
    BY <1>12 DEF approve_agent
  <2>2. agentOf' \in [KubeNodes -> SUBSET {"approved", "hostname"}]
    BY <1>12, <2>1 DEF approve_agent, KubeTypeOK
  <2>3. /\ kpc' \in {"approve", "wait_ready", "failed"} /\ kfaults' \subseteq kfaults \cup {"approve"}
        /\ kpc' = "wait_ready" => \A n \in KubeNodes : agentOf'[n] = {"approved", "hostname"}
    BY <1>12, <2>1 DEF approve_agent, KubeRaises
  <2>4. KubeTypeOK'
    BY <2>1, <2>2, <2>3 DEF KubeTypeOK, KubeSteps
  <2> QED
    BY <2>1, <2>3, <2>4
<1>13. CASE wait_for_agents_to_install
  BY <1>13 DEF wait_for_agents_to_install, KubeTypeOK, KubeSteps
<1>14. CASE download_kubeconfig
  BY <1>14 DEF download_kubeconfig, KubeTypeOK, KubeSteps
<1>15. CASE delete_namespace
  <2>1. KubeTypeOK'
    BY <1>15 DEF delete_namespace, KubeRaises, KubeTypeOK, KubeSteps
  <2> QED
    BY <1>15, <2>1 DEF delete_namespace, KubeRaises
<1>16. CASE delete_all_resources
  <2>1. /\ kpc = "exit" /\ kpc' \in {"exit", "done"} /\ hub' \subseteq hub
        /\ UNCHANGED <<ns, agentOf, aci, listed, booted, teardown>>
        /\ kfaults \subseteq kfaults' /\ kfaults' \subseteq kfaults \cup {"exit"}
        /\ resources' \subseteq resources
    BY <1>16 DEF delete_all_resources, KubeRaises
  <2>2. hub' \cap Constructed \subseteq resources'
    BY <1>16 DEF delete_all_resources
  <2>3. kpc' = "done" /\ teardown => (resources = {} /\ hub' = hub) \/ "exit" \in kfaults'
    BY <1>16 DEF delete_all_resources, KubeRaises, IgnoreNotFound
  <2>4. KubeTypeOK'
    BY <2>1 DEF KubeTypeOK, KubeSteps
  <2> QED
    BY <2>1, <2>2, <2>3, <2>4
<1>17. CASE agent_registers
  <2>1. PICK a \in KubeNodes : hub' = hub \cup {a}
    BY <1>17 DEF agent_registers, AgentObjects
  <2>2. hub' \cap Constructed = hub \cap Constructed /\ hub' \subseteq Objects
    BY <2>1, NamesAssumption DEF KubeTypeOK, Objects, AgentObjects
  <2>3. ns = "active" /\ UNCHANGED <<kpc, resources, ns, agentOf, aci, listed, booted, teardown, kfaults>>
    BY <1>17 DEF agent_registers
  <2>4. KubeTypeOK'
    BY <2>2, <2>3 DEF KubeTypeOK
  <2> QED
    BY <2>2, <2>3, <2>4
<1>18. CASE aci_moves
  <2>1. UNCHANGED <<kpc, hub, resources, ns, agentOf, listed, booted, teardown, kfaults>>
    BY <1>18 DEF aci_moves
  <2>2. aci' \in AciStates /\ aci # "Completed"
    BY <1>18 DEF aci_moves, AciStates
  <2>3. KubeTypeOK'
    BY <2>1, <2>2 DEF KubeTypeOK
  <2> QED
    BY <2>1, <2>2, <2>3
<1>19. CASE namespace_deletes
  <2>1. /\ ns = "terminating" /\ ns' \in {"terminating", "none"} /\ hub' \subseteq hub
        /\ UNCHANGED <<kpc, resources, agentOf, aci, listed, booted, teardown, kfaults>>
    BY <1>19 DEF namespace_deletes
  <2>2. KubeTypeOK'
    BY <2>1 DEF KubeTypeOK
  <2> QED
    BY <2>1, <2>2
<1>20. nmstate_config_apply =>
         \/ Create("nmstate_config", "start_nodes") /\ UNCHANGED aci
         \/ /\ kpc = "nmstate_config" /\ kpc' = "start_nodes"
            /\ UNCHANGED <<hub, resources, ns, agentOf, aci, listed, booted, teardown, kfaults>>
  BY DEF nmstate_config_apply
<1> QED
  BY <1>1, <1>2, <1>3, <1>4, <1>5, <1>6, <1>7, <1>8, <1>9, <1>10, <1>11, <1>12, <1>13, <1>14, <1>15,
     <1>16, <1>17, <1>18, <1>19, <1>20 DEF KubeNext

LEMMA KubeConclusion == ASSUME KubeIInv PROVE KubeLeftIsExplained
  BY DEF KubeIInv, MadeIsRegistered, ActiveIsExplained, KubeLeftIsExplained

(***************************************************************************)
(* The collector of cluster logs.                                          *)
(***************************************************************************)
LEMMA LogNumbers ==
    /\ Len(LogClusters) \in Nat /\ \A i \in 1 .. Len(LogClusters) : LogClusters[i] \in LogClusterSet
    /\ LogRetries \in Nat /\ MaxEvents \in Nat \ {0} /\ NoFile = MaxEvents + 1 /\ NoFile \in 0 .. NoFile
  BY LogsAssumption DEF NoFile

LEMMA EmptyFolders ==
    /\ EmptyFolder \in FolderType /\ NoFolder \in FolderType
    /\ EmptyFolder.metadata \notin FinalInfos /\ NoFolder.metadata \notin FinalInfos
<1>1. NoFile \in 0 .. NoFile
  BY LogNumbers
<1>2. NoTar \subseteq {"host", "controller", "no tar"}
  BY DEF NoTar
<1>3. NoMetadata \notin FinalInfos /\ NoMetadata \in LogsInfos \cup {NoMetadata}
  BY DEF NoMetadata, FinalInfos
<1>4. EmptyFolder \in FolderType /\ EmptyFolder.metadata = NoMetadata
  BY <1>1, <1>2, <1>3 DEF EmptyFolder, FolderType
<1>5. NoFolder \in FolderType /\ NoFolder.metadata = NoMetadata
  BY <1>4 DEF NoFolder, FolderType
<1> QED
  BY <1>3, <1>4, <1>5

LEMMA LogsInitHolds == LogsInit => LogsIInv
<1> SUFFICES ASSUME LogsInit PROVE LogsIInv
  OBVIOUS
<1>1. \A c \in LogClusterSet : folders[c] = NoFolder
  BY DEF LogsInit
<1>2. folders \in [LogClusterSet -> FolderType]
  BY EmptyFolders DEF LogsInit
<1>3. service \in [LogClusterSet -> [info : LogsInfos, events : 1 .. MaxEvents]]
  <2>1. {1} \subseteq 1 .. MaxEvents
    BY LogNumbers
  <2>2. {"", "collecting"} \subseteq LogsInfos
    BY DEF LogsInfos
  <2> QED
    BY <2>1, <2>2 DEF LogsInit
<1>4. listing = <<>> /\ Len(listing) = 0 /\ listing \in Seq(LogClusterSet \X LogsInfos)
  <2>1. listing = <<>>
    BY DEF LogsInit
  <2> QED
    BY <2>1
<1>5. LogsTypeOK
  BY <1>2, <1>3, <1>4 DEF LogsInit, LogsTypeOK
<1>6. ArchiveIsWhole
  BY <1>1, EmptyFolders DEF ArchiveIsWhole
<1>7. FinalStays
  BY <1>1, <1>4, EmptyFolders DEF FinalStays
<1>8. CollectorPlace
  BY DEF CollectorPlace, LogsInit
<1> QED
  BY <1>5, <1>6, <1>7, <1>8 DEF LogsIInv

\* The collector works on the first cluster of what is left of its listing.
LEMMA CurrentCluster ==
    ASSUME LogsTypeOK, listing # <<>>
    PROVE  /\ Len(listing) \in Nat /\ Len(listing) >= 1 /\ current = listing[1][1] /\ Head(listing) = listing[1]
           /\ listing[1] \in LogClusterSet \X LogsInfos
           /\ current \in LogClusterSet /\ listing[1][2] \in LogsInfos
           /\ folder = folders[current] /\ folders[current] \in FolderType
           /\ service[current].info \in LogsInfos /\ service[current].events \in 1 .. MaxEvents
           /\ Tail(listing) \in Seq(LogClusterSet \X LogsInfos) /\ Len(Tail(listing)) = Len(listing) - 1
           /\ \A i \in 1 .. Len(Tail(listing)) : Tail(listing)[i] = listing[i + 1]
<1>1. listing \in Seq(LogClusterSet \X LogsInfos)
  BY DEF LogsTypeOK
<1>2. Len(listing) \in Nat /\ Len(listing) # 0
  BY <1>1, EmptySeq
<1>3. listing[1] \in LogClusterSet \X LogsInfos /\ Head(listing) = listing[1]
  BY <1>1, <1>2
<1>4. current \in LogClusterSet /\ current = listing[1][1] /\ listing[1][2] \in LogsInfos
  BY <1>3 DEF current
<1>5. /\ Tail(listing) \in Seq(LogClusterSet \X LogsInfos) /\ Len(Tail(listing)) = Len(listing) - 1
      /\ \A i \in 1 .. Len(Tail(listing)) : Tail(listing)[i] = listing[i + 1]
  BY <1>1, <1>2
<1>6. folder = folders[current] /\ folders[current] \in FolderType
  BY <1>4 DEF folder, LogsTypeOK
<1>7. service[current].info \in LogsInfos /\ service[current].events \in 1 .. MaxEvents
  BY <1>4 DEF LogsTypeOK
<1> QED
  BY <1>2, <1>3, <1>4, <1>5, <1>6, <1>7

\* The collector is at work; it goes on with the current cluster.
Working == {"check", "recreate", "metadata", "files", "events", "logs", "must_gather"}
GoesOn == lpc' \in Working /\ listing' = listing /\ tries' \in Nat

\* The collector goes on to the next cluster, or stops at the last one.
LEMMA NextKeeps ==
    ASSUME LogsIInv, lpc \in {"check", "must_gather"}, NextCluster,
           UNCHANGED <<folders, service, byEvents, disturbed>>
    PROVE  LogsIInv'
<1>0. LogsTypeOK /\ listing # <<>>
  BY DEF LogsIInv, CollectorPlace
<1>1. /\ listing' = Tail(listing) /\ lpc' = (IF Len(listing) = 1 THEN "idle" ELSE "check") /\ tries' = 0
  BY DEF NextCluster
<1>2. /\ Len(listing) \in Nat /\ Len(listing) >= 1
      /\ listing' \in Seq(LogClusterSet \X LogsInfos) /\ Len(listing') = Len(listing) - 1
      /\ \A i \in 1 .. Len(listing') : listing'[i] = listing[i + 1]
  BY <1>0, <1>1, CurrentCluster
<1>3. LogsTypeOK'
  BY <1>0, <1>1, <1>2 DEF LogsTypeOK
<1>4. CollectorPlace'
  <2>1. lpc' # "idle" => Len(listing') # 0
    BY <1>1, <1>2
  <2>2. listing' = <<>> => Len(listing') = 0
    OBVIOUS
  <2> QED
    BY <1>1, <2>1, <2>2 DEF CollectorPlace
<1>5. FinalStays'
  BY <1>1, <1>2 DEF LogsIInv, FinalStays
<1>6. ArchiveIsWhole'
  BY <1>1 DEF LogsIInv, ArchiveIsWhole
<1> QED
  BY <1>3, <1>4, <1>5, <1>6 DEF LogsIInv

\* The folder of the current cluster is written, or left alone; the collector
\* goes on, or ends at an exception or a kill.
LEMMA FolderKeeps ==
    ASSUME LogsIInv, lpc \in Working, GoesOn \/ Raise, UNCHANGED <<service, byEvents>>,
           disturbed' \subseteq LogClusterSet, disturbed \ {current} \subseteq disturbed',
           NEW new \in FolderType, folders' = [folders EXCEPT ![current] = new],
           new.metadata \in FinalInfos =>
               /\ new.metadata \in {folder.metadata, Head(listing)[2]}
               /\ \/ new.tar = Uploaded(service[current].info)
                  \/ current \in disturbed'
                  \/ lpc' \in {"files", "events", "logs"}
    PROVE  LogsIInv'
<1>0. LogsTypeOK /\ listing # <<>>
  BY DEF LogsIInv, CollectorPlace, Working
<1>1. current \in LogClusterSet /\ folder = folders[current]
  BY <1>0, CurrentCluster
<1>2. /\ folders' \in [LogClusterSet -> FolderType] /\ folders'[current] = new
      /\ \A c \in LogClusterSet : c # current => folders'[c] = folders[c]
  BY <1>0, <1>1 DEF LogsTypeOK
<1>3. /\ listing' \in Seq(LogClusterSet \X LogsInfos) /\ tries' \in Nat /\ lpc' \in Working \cup {"stopped"}
      /\ lpc' # "stopped" => listing' = listing /\ current' = current
  <2>1. CASE GoesOn
    <3>1. listing' = listing /\ current' = current /\ tries' \in Nat /\ lpc' \in Working
      BY <2>1 DEF GoesOn, current
    <3> QED
      BY <1>0, <3>1 DEF LogsTypeOK
  <2>2. CASE Raise
    <3>1. listing' = <<>> /\ tries' = 0 /\ lpc' = "stopped"
      BY <2>2 DEF Raise
    <3>2. listing' \in Seq(LogClusterSet \X LogsInfos)
      BY <3>1
    <3> QED
      BY <3>1, <3>2
  <2> QED
    BY <2>1, <2>2
<1>4. LogsTypeOK'
  BY <1>0, <1>2, <1>3 DEF LogsTypeOK, Working
<1>5. CollectorPlace'
  BY <1>0, <1>3 DEF CollectorPlace
<1>6. \A c \in LogClusterSet : folders'[c].metadata \in FinalInfos => service[c].info = folders'[c].metadata
  <2>1. Len(listing) >= 1 /\ Len(listing) \in Nat /\ Head(listing) = listing[1] /\ current = listing[1][1]
    BY <1>0, CurrentCluster
  <2>2. Head(listing)[2] \in FinalInfos => service[current].info = Head(listing)[2]
    BY <2>1 DEF LogsIInv, FinalStays
  <2> QED
    BY <1>1, <1>2, <2>2 DEF LogsIInv, FinalStays
<1>7. FinalStays'
  <2>1. CASE listing' = listing
    BY <1>6, <2>1 DEF LogsIInv, FinalStays
  <2>2. CASE listing' = <<>>
    <3>1. Len(listing') = 0
      BY <2>2
    <3> QED
      BY <1>6, <3>1 DEF FinalStays
  <2> QED
    BY <2>1, <2>2 DEF GoesOn, Raise
<1>8. ASSUME NEW c \in LogClusterSet, folders'[c].metadata \in FinalInfos
      PROVE  \/ folders'[c].tar = Uploaded(service[c].info) \/ c \in disturbed'
             \/ lpc' \in {"files", "events", "logs"} /\ c = current'
  <2>1. CASE c = current
    <3>1. lpc' \in {"files", "events", "logs"} => current' = current
      BY <1>3
    <3> QED
      BY <1>2, <1>8, <2>1, <3>1
  <2>2. CASE c # current
    BY <1>2, <1>8, <2>2 DEF LogsIInv, ArchiveIsWhole
  <2> QED
    BY <2>1, <2>2
<1>9. ArchiveIsWhole'
  BY <1>8 DEF ArchiveIsWhole
<1> QED
  BY <1>4, <1>5, <1>7, <1>9 DEF LogsIInv

\* The folder is left alone by a step that does not need the archive, or that
\* is noted when it is interrupted.
LEMMA FolderLeftAlone ==
    ASSUME LogsIInv, lpc \in Working, GoesOn \/ Raise, UNCHANGED <<folders, service, byEvents>>,
           UNCHANGED disturbed \/ Disturb,
           lpc \in {"files", "events", "logs"} => current \in disturbed' \/ lpc' \in {"files", "events", "logs"}
    PROVE  LogsIInv'
<1>0. LogsTypeOK /\ listing # <<>>
  BY DEF LogsIInv, CollectorPlace, Working
<1>1. current \in LogClusterSet /\ folder = folders[current] /\ folders[current] \in FolderType
  BY <1>0, CurrentCluster
<1>2. folders' = [folders EXCEPT ![current] = folders[current]]
  BY <1>0, <1>1 DEF LogsTypeOK
<1>3. disturbed' \subseteq LogClusterSet /\ disturbed \subseteq disturbed'
  BY <1>0, <1>1 DEF LogsTypeOK, Disturb
<1>4. folders[current].metadata \in FinalInfos =>
         \/ folders[current].tar = Uploaded(service[current].info) \/ current \in disturbed
         \/ lpc \in {"files", "events", "logs"}
  BY <1>1 DEF LogsIInv, ArchiveIsWhole
<1> QED
  BY <1>1, <1>2, <1>3, <1>4, FolderKeeps

\* The archive the service hands out.
LEMMA UploadedType == \A info \in LogsInfos : Uploaded(info) \in SUBSET {"host", "controller", "no tar"}
  BY DEF LogsInfos, Uploaded

\* is_update_needed: the folder is passed over, found damaged, or to be updated.
LEMMA CheckStep ==
    ASSUME LogsIInv, is_update_needed
    PROVE  LogsIInv'
<1>0. /\ LogsTypeOK /\ listing # <<>> /\ lpc = "check" /\ lpc \in Working
      /\ UNCHANGED <<service, byEvents, disturbed>>
  BY DEF LogsIInv, CollectorPlace, is_update_needed, Working
<1>1. /\ current \in LogClusterSet /\ folder = folders[current] /\ folders[current] \in FolderType
      /\ tries \in Nat /\ disturbed \subseteq LogClusterSet
  BY <1>0, CurrentCluster DEF LogsTypeOK
<1>2. CASE Raise /\ UNCHANGED folders
  BY <1>0, <1>2, FolderLeftAlone
<1>3. CASE NextCluster /\ UNCHANGED folders
  BY <1>0, <1>3, NextKeeps
<1>4. CASE lpc' = "recreate" /\ UNCHANGED <<listing, folders, tries>>
  <2>1. GoesOn
    BY <1>1, <1>4 DEF GoesOn, Working
  <2> QED
    BY <1>0, <1>4, <2>1, FolderLeftAlone
<1>5. CASE folders' = [folders EXCEPT ![current].events = NoFile] /\ lpc' = "recreate" /\ UNCHANGED <<listing, tries>>
  <2> DEFINE new == [folders[current] EXCEPT !.events = NoFile]
  <2>1. folders' = [folders EXCEPT ![current] = new]
    BY <1>0, <1>1, <1>5 DEF LogsTypeOK
  <2>2. /\ new \in FolderType /\ new.metadata = folders[current].metadata /\ new.tar = folders[current].tar
    BY <1>1, LogNumbers DEF FolderType
  <2> HIDE DEF new
  <2>3. folders[current].metadata \in FinalInfos =>
           folders[current].tar = Uploaded(service[current].info) \/ current \in disturbed
    BY <1>0, <1>1 DEF LogsIInv, ArchiveIsWhole
  <2>4. GoesOn
    BY <1>1, <1>5 DEF GoesOn, Working
  <2>5. disturbed' \subseteq LogClusterSet /\ disturbed \ {current} \subseteq disturbed'
    BY <1>0, <1>1
  <2> QED
    BY <1>0, <1>1, <2>1, <2>2, <2>3, <2>4, <2>5, FolderKeeps
<1>6. \/ Raise /\ UNCHANGED folders
      \/ NextCluster /\ UNCHANGED folders
      \/ lpc' = "recreate" /\ UNCHANGED <<listing, folders, tries>>
      \/ folders' = [folders EXCEPT ![current].events = NoFile] /\ lpc' = "recreate" /\ UNCHANGED <<listing, tries>>
  BY DEF is_update_needed
<1> QED
  BY <1>2, <1>3, <1>4, <1>5, <1>6

\* The steps that write the folder.
LEMMA WriteStep ==
    ASSUME LogsIInv, recreate_folder \/ write_metadata_file \/ download_cluster_files \/ gather_event_files
    PROVE  LogsIInv'
<1>0. LogsTypeOK /\ listing # <<>> /\ lpc \in Working /\ UNCHANGED <<service, byEvents>>
  BY DEF LogsIInv, CollectorPlace, Working, recreate_folder, write_metadata_file, download_cluster_files,
         gather_event_files
<1>1. /\ current \in LogClusterSet /\ folder = folders[current] /\ folders[current] \in FolderType
      /\ service[current].events \in 1 .. MaxEvents /\ Head(listing)[2] \in LogsInfos
      /\ tries \in Nat /\ disturbed \subseteq LogClusterSet
  BY <1>0, CurrentCluster DEF LogsTypeOK
<1>2. CASE recreate_folder
  <2>1. GoesOn /\ folders' = [folders EXCEPT ![current] = EmptyFolder] /\ disturbed' = disturbed \ {current}
    BY <1>1, <1>2 DEF recreate_folder, GoesOn, Working
  <2>2. disturbed' \subseteq LogClusterSet /\ disturbed \ {current} \subseteq disturbed'
    BY <1>1, <2>1
  <2> QED
    BY <1>0, <2>1, <2>2, EmptyFolders, FolderKeeps
<1>3. CASE write_metadata_file
  <2>0. disturbed' = disturbed /\ lpc = "metadata"
    BY <1>3 DEF write_metadata_file
  <2>1. CASE Raise /\ UNCHANGED folders
    BY <1>0, <2>0, <2>1, FolderLeftAlone
  <2>2. CASE folders' = [folders EXCEPT ![current].metadata = Head(listing)[2]] /\ lpc' = "files" /\ UNCHANGED <<listing, tries>>
    <3> DEFINE new == [folders[current] EXCEPT !.metadata = Head(listing)[2]]
    <3>1. folders' = [folders EXCEPT ![current] = new]
      BY <1>0, <1>1, <2>2 DEF LogsTypeOK
    <3>2. new \in FolderType /\ new.metadata = Head(listing)[2]
      BY <1>1 DEF FolderType
    <3> HIDE DEF new
    <3>3. GoesOn
      BY <1>1, <2>2 DEF GoesOn, Working
    <3>4. disturbed' \subseteq LogClusterSet /\ disturbed \ {current} \subseteq disturbed'
      BY <1>1, <2>0
    <3> QED
      BY <1>0, <2>2, <3>1, <3>2, <3>3, <3>4, FolderKeeps
  <2> QED
    BY <1>3, <2>1, <2>2 DEF write_metadata_file
<1>4. CASE download_cluster_files
  <2>1. lpc = "files" /\ UNCHANGED folders
    BY <1>4 DEF download_cluster_files
  <2>2. CASE lpc' = "events" /\ UNCHANGED <<listing, tries, disturbed>>
    <3>1. GoesOn
      BY <1>1, <2>2 DEF GoesOn, Working
    <3> QED
      BY <1>0, <2>1, <2>2, <3>1, FolderLeftAlone
  <2>3. CASE Raise /\ Disturb
    <3>1. current \in disturbed'
      BY <2>3 DEF Disturb
    <3> QED
      BY <1>0, <2>1, <2>3, <3>1, FolderLeftAlone
  <2> QED
    BY <1>4, <2>2, <2>3 DEF download_cluster_files
<1>5. CASE gather_event_files
  <2>1. PICK number \in {service[current].events, 0} : folders' = [folders EXCEPT ![current].events = number]
    BY <1>5 DEF gather_event_files
  <2>2. \/ lpc' = "logs" /\ tries' = 1 /\ UNCHANGED <<listing, disturbed>>
        \/ Raise /\ Disturb
    BY <1>5 DEF gather_event_files
  <2>3. number \in 0 .. NoFile
    BY <1>1, LogNumbers
  <2> DEFINE new == [folders[current] EXCEPT !.events = number]
  <2>4. folders' = [folders EXCEPT ![current] = new]
    BY <1>0, <1>1, <2>1 DEF LogsTypeOK
  <2>5. new \in FolderType /\ new.metadata = folders[current].metadata
    BY <1>1, <2>3 DEF FolderType
  <2> HIDE DEF new
  <2>6. GoesOn \/ Raise
    BY <2>2 DEF GoesOn, Working
  <2>7. disturbed' \subseteq LogClusterSet /\ disturbed \ {current} \subseteq disturbed'
        /\ (current \in disturbed' \/ lpc' = "logs")
    BY <1>1, <2>2 DEF Disturb
  <2> QED
    BY <1>0, <1>1, <2>4, <2>5, <2>6, <2>7, FolderKeeps
<1> QED
  BY <1>2, <1>3, <1>4, <1>5

\* An attempt at the archive: it is there, or that is noted.
LEMMA ArchiveStep ==
    ASSUME LogsIInv, download_logs_attempt
    PROVE  LogsIInv'
<1> DEFINE tar == Uploaded(service[current].info)
<1>0. LogsTypeOK /\ listing # <<>> /\ lpc \in Working /\ UNCHANGED <<service, byEvents>>
  BY DEF LogsIInv, CollectorPlace, Working, download_logs_attempt
<1>1. /\ current \in LogClusterSet /\ folder = folders[current] /\ folders[current] \in FolderType
      /\ service[current].info \in LogsInfos /\ tries \in Nat /\ disturbed \subseteq LogClusterSet
  BY <1>0, CurrentCluster DEF LogsTypeOK
<1>2. GoesOn \/ Raise
  BY <1>1 DEF download_logs_attempt, GoesOn, Working
<1>3. \/ folders' = [folders EXCEPT ![current].tar = tar] /\ UNCHANGED disturbed
      \/ folders' = [folders EXCEPT ![current].tar = NoTar] /\ Disturb
  BY DEF download_logs_attempt
<1>4. tar \in SUBSET {"host", "controller", "no tar"} /\ NoTar \in SUBSET {"host", "controller", "no tar"}
  BY <1>1, UploadedType DEF NoTar
<1> HIDE DEF tar
<1>5. PICK archive \in {tar, NoTar} :
        /\ folders' = [folders EXCEPT ![current].tar = archive]
        /\ \/ archive = tar /\ disturbed' = disturbed
           \/ disturbed' = disturbed \cup {current}
  BY <1>3 DEF Disturb
<1> DEFINE new == [folders[current] EXCEPT !.tar = archive]
<1>6. folders' = [folders EXCEPT ![current] = new]
  BY <1>0, <1>1, <1>5 DEF LogsTypeOK
<1>7. /\ new \in FolderType /\ new.metadata = folders[current].metadata /\ new.tar = archive
  BY <1>1, <1>4, <1>5 DEF FolderType
<1> HIDE DEF new
<1>8. disturbed' \subseteq LogClusterSet /\ disturbed \ {current} \subseteq disturbed'
      /\ (archive = tar \/ current \in disturbed')
  BY <1>1, <1>5
<1> QED
  BY <1>0, <1>1, <1>2, <1>6, <1>7, <1>8, FolderKeeps DEF tar

\* A kill: what is half done is noted, and so is a folder half removed.
LEMMA KilledStep ==
    ASSUME LogsIInv, logs_killed
    PROVE  LogsIInv'
<1>0. LogsTypeOK /\ listing # <<>> /\ lpc \in Working /\ UNCHANGED <<service, byEvents>> /\ Raise
  BY DEF LogsIInv, LogsTypeOK, CollectorPlace, Working, logs_killed
<1>1. /\ current \in LogClusterSet /\ folder = folders[current] /\ folders[current] \in FolderType
      /\ disturbed \subseteq LogClusterSet
  BY <1>0, CurrentCluster DEF LogsTypeOK
<1>2. CASE lpc = "recreate"
  <2>1. PICK f \in PartlyRemoved(folder) : folders' = [folders EXCEPT ![current] = f]
    BY <1>2 DEF logs_killed
  <2>2. disturbed' = disturbed \cup {current}
    BY <1>2 DEF logs_killed, Disturb
  <2>3. f \in FolderType /\ f.metadata \in FinalInfos => f.metadata = folder.metadata
    <3>1. CASE f \in {NoFolder, EmptyFolder}
      BY <3>1, EmptyFolders
    <3>2. CASE f \in [exists : {folder.exists}, metadata : {folder.metadata, NoMetadata},
                      events : {folder.events, NoFile}, tar : {folder.tar, NoTar}]
      BY <1>1, <3>2, LogNumbers DEF FolderType, NoTar, NoMetadata, FinalInfos
    <3> QED
      BY <2>1, <3>1, <3>2 DEF PartlyRemoved
  <2>4. f \in FolderType
    <3>1. CASE f \in {NoFolder, EmptyFolder}
      BY <3>1, EmptyFolders
    <3>2. CASE f \in [exists : {folder.exists}, metadata : {folder.metadata, NoMetadata},
                      events : {folder.events, NoFile}, tar : {folder.tar, NoTar}]
      BY <1>1, <3>2, LogNumbers DEF FolderType, NoTar
    <3> QED
      BY <2>1, <3>1, <3>2 DEF PartlyRemoved
  <2>5. disturbed' \subseteq LogClusterSet /\ disturbed \ {current} \subseteq disturbed' /\ current \in disturbed'
    BY <1>1, <2>2
  <2> QED
    BY <1>0, <2>1, <2>3, <2>4, <2>5, FolderKeeps
<1>3. CASE lpc # "recreate"
  <2>1. UNCHANGED folders /\ (UNCHANGED disturbed \/ Disturb)
        /\ (lpc \in {"files", "events", "logs"} => current \in disturbed')
    BY <1>3 DEF logs_killed, Disturb
  <2> QED
    BY <1>0, <2>1, FolderLeftAlone
<1> QED
  BY <1>2, <1>3

LEMMA LogsStep == LogsIInv /\ [LogsNext]_logVars => LogsIInv'
<1> SUFFICES ASSUME LogsIInv, [LogsNext]_logVars PROVE LogsIInv'
  OBVIOUS
<1>0. LogsTypeOK /\ CollectorPlace /\ FinalStays /\ ArchiveIsWhole
  BY DEF LogsIInv
<1>c. lpc \in Working => listing # <<>>
  BY <1>0 DEF CollectorPlace, Working
<1>1. CASE UNCHANGED logVars
  BY <1>0, <1>1 DEF logVars, LogsIInv, LogsTypeOK, CollectorPlace, FinalStays, ArchiveIsWhole, current
<1>2. CASE logs_main
  <2>a. PICK n \in 1 .. Len(LogClusters) : \E at \in [1 .. n -> 1 .. Len(LogClusters)] :
          listing' = [i \in 1 .. n |-> <<LogClusters[at[i]], service[LogClusters[at[i]]].info>>]
    BY <1>2 DEF logs_main
  <2>1. PICK at \in [1 .. n -> 1 .. Len(LogClusters)] :
          listing' = [i \in 1 .. n |-> <<LogClusters[at[i]], service[LogClusters[at[i]]].info>>]
    BY <2>a
  <2>2. lpc \notin Working /\ lpc' = "check" /\ tries' = 0 /\ UNCHANGED <<folders, service, byEvents, disturbed>>
    BY <1>2 DEF logs_main, Working
  <2>3. n \in Nat /\ n >= 1 /\ \A i \in 1 .. n : LogClusters[at[i]] \in LogClusterSet
    BY LogNumbers
  <2>4. \A i \in 1 .. n : service[LogClusters[at[i]]].info \in LogsInfos
    BY <1>0, <2>3 DEF LogsTypeOK
  <2>5. listing' \in Seq(LogClusterSet \X LogsInfos) /\ Len(listing') = n /\ listing' # <<>>
    <3> DEFINE item(i) == <<LogClusters[at[i]], service[LogClusters[at[i]]].info>>
    <3>1. \A i \in 1 .. n : item(i) \in LogClusterSet \X LogsInfos
      BY <2>3, <2>4
    <3> HIDE DEF item
    <3>2. listing' = [i \in 1 .. n |-> item(i)]
      BY <2>1 DEF item
    <3>3. listing' \in Seq(LogClusterSet \X LogsInfos) /\ Len(listing') = n
      BY <2>3, <3>1, <3>2
    <3>4. listing' = <<>> => Len(listing') = 0
      OBVIOUS
    <3> QED
      BY <2>3, <3>3, <3>4
  <2>6. \A i \in 1 .. n : listing'[i][1] = LogClusters[at[i]] /\ listing'[i][2] = service[LogClusters[at[i]]].info
    BY <2>1
  <2>7. LogsTypeOK' /\ CollectorPlace'
    BY <1>0, <2>2, <2>5 DEF LogsTypeOK, CollectorPlace
  <2>8. FinalStays'
    BY <1>0, <2>2, <2>5, <2>6 DEF FinalStays
  <2>9. ArchiveIsWhole'
    BY <1>0, <2>2 DEF ArchiveIsWhole, Working
  <2> QED
    BY <2>7, <2>8, <2>9 DEF LogsIInv
<1>3. CASE get_cluster_hosts
  BY <1>3, FolderLeftAlone DEF get_cluster_hosts, Working
<1>4. CASE is_update_needed
  BY <1>4, CheckStep
<1>5. CASE recreate_folder \/ write_metadata_file \/ download_cluster_files \/ gather_event_files
  BY <1>5, WriteStep
<1>6. CASE download_logs_attempt
  BY <1>6, ArchiveStep
<1>7. CASE download_must_gather
  <2>1. lpc = "must_gather" /\ lpc \in Working /\ UNCHANGED <<folders, service, byEvents, disturbed>>
    BY <1>7 DEF download_must_gather, Working
  <2>2. CASE NextCluster
    BY <2>1, <2>2, NextKeeps
  <2>3. CASE Raise
    BY <2>1, <2>3, FolderLeftAlone
  <2> QED
    BY <1>7, <2>2, <2>3 DEF download_must_gather
<1>8. CASE logs_killed
  BY <1>8, KilledStep
<1>9. CASE service_collects
  <2>1. UNCHANGED <<lpc, listing, folders, byEvents, tries, disturbed>> /\ current' = current
    BY <1>9 DEF service_collects, current
  <2>2. PICK c \in LogClusterSet :
          \/ service[c].info = "" /\ service' = [service EXCEPT ![c].info = "collecting"]
          \/ /\ service[c].info = "collecting"
             /\ \E info \in FinalInfos : service' = [service EXCEPT ![c].info = info]
          \/ service[c].events < MaxEvents /\ service' = [service EXCEPT ![c].events = @ + 1]
    BY <1>9 DEF service_collects
  <2>3. service \in [LogClusterSet -> [info : LogsInfos, events : 1 .. MaxEvents]]
    BY <1>0 DEF LogsTypeOK
  <2>4. service' \in [LogClusterSet -> [info : LogsInfos, events : 1 .. MaxEvents]]
    <3>1. "collecting" \in LogsInfos /\ FinalInfos \subseteq LogsInfos
      BY DEF LogsInfos, FinalInfos
    <3>2. service[c].events < MaxEvents => service[c].events + 1 \in 1 .. MaxEvents
      BY <2>3, LogNumbers
    <3> QED
      BY <2>2, <2>3, <3>1, <3>2
  <2>5. \A k \in LogClusterSet : service[k].info \in FinalInfos => service'[k].info = service[k].info
    BY <2>2, <2>3 DEF FinalInfos
  <2>6. LogsTypeOK'
    BY <1>0, <2>1, <2>4 DEF LogsTypeOK
  <2>7. CollectorPlace'
    BY <1>0, <2>1 DEF CollectorPlace
  <2>8. \A i \in 1 .. Len(listing) : listing[i][1] \in LogClusterSet
    BY <1>0 DEF LogsTypeOK
  <2>9. FinalStays'
    BY <1>0, <2>1, <2>5, <2>8 DEF FinalStays
  <2>10. ArchiveIsWhole'
    BY <1>0, <2>1, <2>5 DEF FinalStays, ArchiveIsWhole
  <2> QED
    BY <2>6, <2>7, <2>9, <2>10 DEF LogsIInv
<1> QED
  BY <1>1, <1>2, <1>3, <1>4, <1>5, <1>6, <1>7, <1>8, <1>9 DEF LogsNext

\* A folder that the check passes over has the whole archive.
LEMMA LogsSkip == LogsIInv /\ [LogsNext]_logVars => [SkippedIsWhole]_logVars
<1> SUFFICES ASSUME LogsIInv, LogsNext, lpc = "check", listing' # listing, lpc' # "stopped", folder.metadata # ""
             PROVE  folder.tar = Uploaded(service[current].info) \/ current \in disturbed
  BY DEF SkippedIsWhole
<1>1. LogsTypeOK /\ listing # <<>>
  BY DEF LogsIInv, CollectorPlace
<1>2. current \in LogClusterSet /\ folder = folders[current]
  BY <1>1, CurrentCluster
<1>3. is_update_needed
  BY DEF LogsNext, get_cluster_hosts, logs_main, recreate_folder, write_metadata_file, download_cluster_files,
         gather_event_files, download_logs_attempt, download_must_gather, logs_killed, service_collects, Raise
<1>4. InfoIsFinal(folder)
  BY <1>3 DEF is_update_needed, Raise
<1>5. folder.metadata \in FinalInfos
  BY <1>4 DEF InfoIsFinal
<1> QED
  BY <1>2, <1>5 DEF LogsIInv, ArchiveIsWhole

-----------------------------------------------------------------------------
(***************************************************************************)
(* Configuration: the values of the user survive both rounds of triggers.  *)
(***************************************************************************)
\* A configuration with a value of its type for every variable.
Typed(c) == DOMAIN c = VarNames /\ \A k \in VarNames : HasType(k, c[k])

\* What a trigger sets: variables no condition reads, with values of their types.
SetsFreely(values) ==
    /\ DOMAIN values \subseteq VarNames \ ConditionVars
    /\ \A k \in DOMAIN values : HasType(k, values[k])

Operators == {"cnv", "mtv", "odf", "lvm", "mce", "openshift-ai", "osc"}

LEMMA OlmValues ==
    ASSUME NEW c, Typed(c), NEW op \in Operators, NEW sno \in BOOLEAN
    PROVE  /\ SetsFreely(get_olm_variables(c, op, sno))
           /\ op \notin {"odf", "openshift-ai"} /\ c.workers_count = 0 =>
                get_olm_variables(c, op, sno)["workers_count"] = 0
<1> DEFINE need == OperatorResource(op, sno)
           Needed == {"worker_memory", "workers_count", "master_disk_count"}
<1>1. DOMAIN need = Needed /\ \A k \in Needed : need[k] \in Nat
  BY DEF OperatorResource, Operators
<1>2. op \notin {"odf", "openshift-ai"} => need["workers_count"] = 0
  BY DEF OperatorResource, Operators
<1>3. Needed \subseteq IntVars /\ Needed \subseteq VarNames \ ConditionVars
  BY DEF IntVars, VarNames, ConditionVars
<1>4. \A k \in Needed : c[k] \in Nat
  BY <1>3 DEF Typed, HasType, VarNames
<1>5. \A k \in Needed : k \notin BoolVars /\ k \notin StringVars
  BY DEF BoolVars, StringVars
<1> HIDE DEF need
<1>6. \A k \in Needed : resource_param(c[k], need[k]) \in Nat
  BY <1>1, <1>4 DEF resource_param
<1>7. get_olm_variables(c, op, sno) = [k \in Needed |-> resource_param(c[k], need[k])]
  BY <1>1 DEF get_olm_variables, need
<1> HIDE DEF Needed
<1>8. SetsFreely(get_olm_variables(c, op, sno))
  BY <1>3, <1>5, <1>6, <1>7 DEF SetsFreely, HasType
<1>9. ASSUME op \notin {"odf", "openshift-ai"}, c.workers_count = 0
      PROVE  get_olm_variables(c, op, sno)["workers_count"] = 0
  <2>1. resource_param(c["workers_count"], need["workers_count"]) = 0
    BY <1>2, <1>9 DEF resource_param
  <2>2. "workers_count" \in Needed
    BY DEF Needed
  <2> QED
    BY <1>7, <2>1, <2>2
<1> QED
  BY <1>8, <1>9


LEMMA IntType == \A k \in IntVars, v \in Nat : k \in VarNames /\ HasType(k, v)
  BY DEF HasType, IntVars, BoolVars, StringVars, VarNames
LEMMA BoolType == \A k \in BoolVars, v \in BOOLEAN : k \in VarNames /\ HasType(k, v)
<1>1. \A k \in BoolVars : k \in VarNames /\ k \notin IntVars /\ k \notin StringVars
  BY DEF IntVars, BoolVars, StringVars, VarNames
<1> QED
  BY <1>1 DEF HasType
LEMMA StringType == \A k \in StringVars, v \in Words : k \in VarNames /\ HasType(k, v)
<1>1. \A k \in StringVars : k \in VarNames /\ k \notin IntVars /\ k \notin BoolVars
  BY DEF IntVars, BoolVars, StringVars, VarNames
<1> QED
  BY <1>1 DEF HasType

Settable == {"worker_disk", "control_plane_count", "workers_count", "worker_memory", "master_disk_count",
             "user_managed_networking", "download_image", "is_static_ip",
             "tf_platform", "network_type", "networks", "iso_image_type"}

LEMMA SettableVars ==
    /\ Settable \subseteq VarNames \ ConditionVars
    /\ {"worker_disk", "control_plane_count", "workers_count"} \subseteq IntVars
    /\ {"user_managed_networking", "download_image", "is_static_ip"} \subseteq BoolVars
    /\ {"tf_platform", "network_type", "networks", "iso_image_type"} \subseteq StringVars
  BY DEF IntVars, BoolVars, StringVars, VarNames, ConditionVars, Settable

LEMMA LiteralTypes ==
    /\ \A n \in Nat : HasType("worker_disk", n) /\ HasType("control_plane_count", n) /\ HasType("workers_count", n)
    /\ \A b \in BOOLEAN : HasType("user_managed_networking", b) /\ HasType("download_image", b) /\ HasType("is_static_ip", b)
    /\ \A s \in Words : HasType("tf_platform", s) /\ HasType("network_type", s) /\ HasType("networks", s) /\ HasType("iso_image_type", s)
  BY IntType, BoolType, StringType, SettableVars


\* Each record of values that a trigger of the default list sets.
LEMMA RemoteValues ==
    SetsFreely([worker_disk |-> 100]) /\ "workers_count" \notin DOMAIN [worker_disk |-> 100]
<1> DEFINE r == [worker_disk |-> 100]
<1>2. HasType("worker_disk", 100)
  BY LiteralTypes
<1>3. DOMAIN r = {"worker_disk"}
  OBVIOUS
<1>4. r["worker_disk"] = 100
  OBVIOUS
<1> HIDE DEF r
<1>5. DOMAIN r \subseteq VarNames \ ConditionVars
  BY <1>3, SettableVars DEF Settable
<1>6. \A k \in DOMAIN r : HasType(k, r[k])
  BY <1>2, <1>3, <1>4
<1>7. "workers_count" \notin DOMAIN r
  BY <1>3
<1> QED
  BY <1>5, <1>6, <1>7 DEF SetsFreely, r

LEMMA UnmanagedValues ==
    SetsFreely([user_managed_networking |-> TRUE, tf_platform |-> "none"]) /\ "workers_count" \notin DOMAIN [user_managed_networking |-> TRUE, tf_platform |-> "none"]
<1> DEFINE r == [user_managed_networking |-> TRUE, tf_platform |-> "none"]
<1>1. "none" \in Words
  BY DEF Words
<1>2. HasType("user_managed_networking", TRUE) /\ HasType("tf_platform", "none")
  BY LiteralTypes, <1>1
<1>3. DOMAIN r = {"user_managed_networking", "tf_platform"}
  OBVIOUS
<1>4. r["user_managed_networking"] = TRUE /\ r["tf_platform"] = "none"
  OBVIOUS
<1> HIDE DEF r
<1>5. DOMAIN r \subseteq VarNames \ ConditionVars
  BY <1>3, SettableVars DEF Settable
<1>6. \A k \in DOMAIN r : HasType(k, r[k])
  BY <1>2, <1>3, <1>4
<1>7. "workers_count" \notin DOMAIN r
  BY <1>3
<1> QED
  BY <1>5, <1>6, <1>7 DEF SetsFreely, r

LEMMA VsphereValues ==
    SetsFreely([user_managed_networking |-> FALSE, tf_platform |-> "vsphere"]) /\ "workers_count" \notin DOMAIN [user_managed_networking |-> FALSE, tf_platform |-> "vsphere"]
<1> DEFINE r == [user_managed_networking |-> FALSE, tf_platform |-> "vsphere"]
<1>1. "vsphere" \in Words
  BY DEF Words
<1>2. HasType("user_managed_networking", FALSE) /\ HasType("tf_platform", "vsphere")
  BY LiteralTypes, <1>1
<1>3. DOMAIN r = {"user_managed_networking", "tf_platform"}
  OBVIOUS
<1>4. r["user_managed_networking"] = FALSE /\ r["tf_platform"] = "vsphere"
  OBVIOUS
<1> HIDE DEF r
<1>5. DOMAIN r \subseteq VarNames \ ConditionVars
  BY <1>3, SettableVars DEF Settable
<1>6. \A k \in DOMAIN r : HasType(k, r[k])
  BY <1>2, <1>3, <1>4
<1>7. "workers_count" \notin DOMAIN r
  BY <1>3
<1> QED
  BY <1>5, <1>6, <1>7 DEF SetsFreely, r

LEMMA NutanixValues ==
    SetsFreely([tf_platform |-> "nutanix"]) /\ "workers_count" \notin DOMAIN [tf_platform |-> "nutanix"]
<1> DEFINE r == [tf_platform |-> "nutanix"]
<1>1. "nutanix" \in Words
  BY DEF Words
<1>2. HasType("tf_platform", "nutanix")
  BY LiteralTypes, <1>1
<1>3. DOMAIN r = {"tf_platform"}
  OBVIOUS
<1>4. r["tf_platform"] = "nutanix"
  OBVIOUS
<1> HIDE DEF r
<1>5. DOMAIN r \subseteq VarNames \ ConditionVars
  BY <1>3, SettableVars DEF Settable
<1>6. \A k \in DOMAIN r : HasType(k, r[k])
  BY <1>2, <1>3, <1>4
<1>7. "workers_count" \notin DOMAIN r
  BY <1>3
<1> QED
  BY <1>5, <1>6, <1>7 DEF SetsFreely, r

LEMMA SnoValues ==
    SetsFreely([workers_count |-> 0, control_plane_count |-> 1, user_managed_networking |-> TRUE, network_type |-> None])
<1> DEFINE r == [workers_count |-> 0, control_plane_count |-> 1, user_managed_networking |-> TRUE, network_type |-> None]
<1>1. None \in Words
  BY DEF Words
<1>2. HasType("workers_count", 0) /\ HasType("control_plane_count", 1) /\ HasType("user_managed_networking", TRUE) /\ HasType("network_type", None)
  BY LiteralTypes, <1>1
<1>3. DOMAIN r = {"workers_count", "control_plane_count", "user_managed_networking", "network_type"}
  OBVIOUS
<1>4. r["workers_count"] = 0 /\ r["control_plane_count"] = 1 /\ r["user_managed_networking"] = TRUE /\ r["network_type"] = None
  OBVIOUS
<1> HIDE DEF r
<1>5. DOMAIN r \subseteq VarNames \ ConditionVars
  BY <1>3, SettableVars DEF Settable
<1>6. \A k \in DOMAIN r : HasType(k, r[k])
  BY <1>2, <1>3, <1>4
<1> QED
  BY <1>5, <1>6 DEF SetsFreely, r

LEMMA MastersValues ==
    ASSUME NEW n \in Nat
    PROVE  SetsFreely([control_plane_count |-> n]) /\ "workers_count" \notin DOMAIN [control_plane_count |-> n]
<1> DEFINE r == [control_plane_count |-> n]
<1>2. HasType("control_plane_count", n)
  BY LiteralTypes
<1>3. DOMAIN r = {"control_plane_count"}
  OBVIOUS
<1>4. r["control_plane_count"] = n
  OBVIOUS
<1> HIDE DEF r
<1>5. DOMAIN r \subseteq VarNames \ ConditionVars
  BY <1>3, SettableVars DEF Settable
<1>6. \A k \in DOMAIN r : HasType(k, r[k])
  BY <1>2, <1>3, <1>4
<1>7. "workers_count" \notin DOMAIN r
  BY <1>3
<1> QED
  BY <1>5, <1>6, <1>7 DEF SetsFreely, r

LEMMA NetworksValues ==
    ASSUME NEW w \in Words
    PROVE  SetsFreely([networks |-> w]) /\ "workers_count" \notin DOMAIN [networks |-> w]
<1> DEFINE r == [networks |-> w]
<1>2. HasType("networks", w)
  BY LiteralTypes
<1>3. DOMAIN r = {"networks"}
  OBVIOUS
<1>4. r["networks"] = w
  OBVIOUS
<1> HIDE DEF r
<1>5. DOMAIN r \subseteq VarNames \ ConditionVars
  BY <1>3, SettableVars DEF Settable
<1>6. \A k \in DOMAIN r : HasType(k, r[k])
  BY <1>2, <1>3, <1>4
<1>7. "workers_count" \notin DOMAIN r
  BY <1>3
<1> QED
  BY <1>5, <1>6, <1>7 DEF SetsFreely, r

LEMMA OvnValues ==
    SetsFreely([network_type |-> "OVNKubernetes"]) /\ "workers_count" \notin DOMAIN [network_type |-> "OVNKubernetes"]
<1> DEFINE r == [network_type |-> "OVNKubernetes"]
<1>1. "OVNKubernetes" \in Words
  BY DEF Words
<1>2. HasType("network_type", "OVNKubernetes")
  BY LiteralTypes, <1>1
<1>3. DOMAIN r = {"network_type"}
  OBVIOUS
<1>4. r["network_type"] = "OVNKubernetes"
  OBVIOUS
<1> HIDE DEF r
<1>5. DOMAIN r \subseteq VarNames \ ConditionVars
  BY <1>3, SettableVars DEF Settable
<1>6. \A k \in DOMAIN r : HasType(k, r[k])
  BY <1>2, <1>3, <1>4
<1>7. "workers_count" \notin DOMAIN r
  BY <1>3
<1> QED
  BY <1>5, <1>6, <1>7 DEF SetsFreely, r

LEMMA IpxeValues ==
    SetsFreely([download_image |-> FALSE]) /\ "workers_count" \notin DOMAIN [download_image |-> FALSE]
<1> DEFINE r == [download_image |-> FALSE]
<1>2. HasType("download_image", FALSE)
  BY LiteralTypes
<1>3. DOMAIN r = {"download_image"}
  OBVIOUS
<1>4. r["download_image"] = FALSE
  OBVIOUS
<1> HIDE DEF r
<1>5. DOMAIN r \subseteq VarNames \ ConditionVars
  BY <1>3, SettableVars DEF Settable
<1>6. \A k \in DOMAIN r : HasType(k, r[k])
  BY <1>2, <1>3, <1>4
<1>7. "workers_count" \notin DOMAIN r
  BY <1>3
<1> QED
  BY <1>5, <1>6, <1>7 DEF SetsFreely, r

LEMMA VlanValues ==
    SetsFreely([is_static_ip |-> TRUE]) /\ "workers_count" \notin DOMAIN [is_static_ip |-> TRUE]
<1> DEFINE r == [is_static_ip |-> TRUE]
<1>2. HasType("is_static_ip", TRUE)
  BY LiteralTypes
<1>3. DOMAIN r = {"is_static_ip"}
  OBVIOUS
<1>4. r["is_static_ip"] = TRUE
  OBVIOUS
<1> HIDE DEF r
<1>5. DOMAIN r \subseteq VarNames \ ConditionVars
  BY <1>3, SettableVars DEF Settable
<1>6. \A k \in DOMAIN r : HasType(k, r[k])
  BY <1>2, <1>3, <1>4
<1>7. "workers_count" \notin DOMAIN r
  BY <1>3
<1> QED
  BY <1>5, <1>6, <1>7 DEF SetsFreely, r

LEMMA S390xValues ==
    SetsFreely([user_managed_networking |-> TRUE, iso_image_type |-> "full-iso", tf_platform |-> "s390x"]) /\ "workers_count" \notin DOMAIN [user_managed_networking |-> TRUE, iso_image_type |-> "full-iso", tf_platform |-> "s390x"]
<1> DEFINE r == [user_managed_networking |-> TRUE, iso_image_type |-> "full-iso", tf_platform |-> "s390x"]
<1>1. "full-iso" \in Words /\ "s390x" \in Words
  BY DEF Words
<1>2. HasType("user_managed_networking", TRUE) /\ HasType("iso_image_type", "full-iso") /\ HasType("tf_platform", "s390x")
  BY LiteralTypes, <1>1
<1>3. DOMAIN r = {"user_managed_networking", "iso_image_type", "tf_platform"}
  OBVIOUS
<1>4. r["user_managed_networking"] = TRUE /\ r["iso_image_type"] = "full-iso" /\ r["tf_platform"] = "s390x"
  OBVIOUS
<1> HIDE DEF r
<1>5. DOMAIN r \subseteq VarNames \ ConditionVars
  BY <1>3, SettableVars DEF Settable
<1>6. \A k \in DOMAIN r : HasType(k, r[k])
  BY <1>2, <1>3, <1>4
<1>7. "workers_count" \notin DOMAIN r
  BY <1>3
<1> QED
  BY <1>5, <1>6, <1>7 DEF SetsFreely, r

\* The values at each place of the default list.
LEMMA ValuesAt ==
    ASSUME NEW c
    PROVE  /\ Len(default_triggers(c)) = 25
           /\ default_triggers(c)[1].values = [worker_disk |-> 100]
           /\ default_triggers(c)[2].values = [user_managed_networking |-> TRUE, tf_platform |-> "none"]
           /\ default_triggers(c)[3].values = [user_managed_networking |-> TRUE, tf_platform |-> "none"]
           /\ default_triggers(c)[4].values = [user_managed_networking |-> FALSE, tf_platform |-> "vsphere"]
           /\ default_triggers(c)[5].values = [tf_platform |-> "nutanix"]
           /\ default_triggers(c)[6].values = [workers_count |-> 0, control_plane_count |-> 1, user_managed_networking |-> TRUE, network_type |-> None]
           /\ default_triggers(c)[7].values = [control_plane_count |-> 2]
           /\ default_triggers(c)[8].values = [control_plane_count |-> 4]
           /\ default_triggers(c)[9].values = [control_plane_count |-> 5]
           /\ default_triggers(c)[10].values = [networks |-> "ipv4"]
           /\ default_triggers(c)[11].values = [networks |-> "ipv6"]
           /\ default_triggers(c)[12].values = [network_type |-> "OVNKubernetes"]
           /\ default_triggers(c)[13].values = [networks |-> "ipv4v6"]
           /\ default_triggers(c)[14].values = get_olm_variables(c, "cnv", FALSE)
           /\ default_triggers(c)[15].values = get_olm_variables(c, "mtv", FALSE)
           /\ default_triggers(c)[16].values = get_olm_variables(c, "odf", FALSE)
           /\ default_triggers(c)[17].values = get_olm_variables(c, "lvm", FALSE)
           /\ default_triggers(c)[18].values = get_olm_variables(c, "openshift-ai", FALSE)
           /\ default_triggers(c)[19].values = get_olm_variables(c, "mce", TRUE)
           /\ default_triggers(c)[20].values = get_olm_variables(c, "mce", FALSE)
           /\ default_triggers(c)[21].values = get_olm_variables(c, "osc", TRUE)
           /\ default_triggers(c)[22].values = get_olm_variables(c, "osc", FALSE)
           /\ default_triggers(c)[23].values = [download_image |-> FALSE]
           /\ default_triggers(c)[24].values = [is_static_ip |-> TRUE]
           /\ default_triggers(c)[25].values = [user_managed_networking |-> TRUE, iso_image_type |-> "full-iso", tf_platform |-> "s390x"]
  BY DEF default_triggers, Trigger, Platform, Masters, Olm, OlmSingleNode, OlmSeveralNodes

\* A trigger sets variables that no condition reads, with values of their types,
\* and only an operator that needs workers adds any where there are none.
LEMMA TriggerSetsFreely ==
    ASSUME NEW c, Typed(c), NEW i \in MetTriggers(c)
    PROVE  /\ SetsFreely(default_triggers(c)[i].values)
           /\ /\ c.olm_operators \cap {"odf", "openshift-ai"} = {} /\ c.workers_count = 0
              /\ "workers_count" \in DOMAIN default_triggers(c)[i].values
              => default_triggers(c)[i].values["workers_count"] = 0
<1> DEFINE values == default_triggers(c)[i].values
           Good == /\ SetsFreely(values)
                   /\ /\ c.olm_operators \cap {"odf", "openshift-ai"} = {} /\ c.workers_count = 0
                      /\ "workers_count" \in DOMAIN values
                      => values["workers_count"] = 0
<1>0. i \in 1 .. 25 /\ default_triggers(c)[i].met
  BY ValuesAt DEF MetTriggers
<1> SUFFICES Good
  OBVIOUS
<1> HIDE DEF values
<1>1. CASE i = 1
  <2>1. values = [worker_disk |-> 100]
    BY <1>1, ValuesAt DEF values
  <2> QED
    BY <2>1, RemoteValues
<1>2. CASE i = 2
  <2>1. values = [user_managed_networking |-> TRUE, tf_platform |-> "none"]
    BY <1>2, ValuesAt DEF values
  <2> QED
    BY <2>1, UnmanagedValues
<1>3. CASE i = 3
  <2>1. values = [user_managed_networking |-> TRUE, tf_platform |-> "none"]
    BY <1>3, ValuesAt DEF values
  <2> QED
    BY <2>1, UnmanagedValues
<1>4. CASE i = 4
  <2>1. values = [user_managed_networking |-> FALSE, tf_platform |-> "vsphere"]
    BY <1>4, ValuesAt DEF values
  <2> QED
    BY <2>1, VsphereValues
<1>5. CASE i = 5
  <2>1. values = [tf_platform |-> "nutanix"]
    BY <1>5, ValuesAt DEF values
  <2> QED
    BY <2>1, NutanixValues
<1>6. CASE i = 6
  <2>1. values = [workers_count |-> 0, control_plane_count |-> 1, user_managed_networking |-> TRUE, network_type |-> None]
    BY <1>6, ValuesAt DEF values
  <2>2. values["workers_count"] = 0
    BY <2>1
  <2> QED
    BY <2>1, <2>2, SnoValues
<1>7. CASE i = 7
  <2>1. values = [control_plane_count |-> 2]
    BY <1>7, ValuesAt DEF values
  <2> QED
    BY <2>1, MastersValues
<1>8. CASE i = 8
  <2>1. values = [control_plane_count |-> 4]
    BY <1>8, ValuesAt DEF values
  <2> QED
    BY <2>1, MastersValues
<1>9. CASE i = 9
  <2>1. values = [control_plane_count |-> 5]
    BY <1>9, ValuesAt DEF values
  <2> QED
    BY <2>1, MastersValues
<1>10. CASE i = 10
  <2>1. values = [networks |-> "ipv4"]
    BY <1>10, ValuesAt DEF values
  <2>2. "ipv4" \in Words
    BY DEF Words
  <2> QED
    BY <2>1, <2>2, NetworksValues
<1>11. CASE i = 11
  <2>1. values = [networks |-> "ipv6"]
    BY <1>11, ValuesAt DEF values
  <2>2. "ipv6" \in Words
    BY DEF Words
  <2> QED
    BY <2>1, <2>2, NetworksValues
<1>12. CASE i = 12
  <2>1. values = [network_type |-> "OVNKubernetes"]
    BY <1>12, ValuesAt DEF values
  <2> QED
    BY <2>1, OvnValues
<1>13. CASE i = 13
  <2>1. values = [networks |-> "ipv4v6"]
    BY <1>13, ValuesAt DEF values
  <2>2. "ipv4v6" \in Words
    BY DEF Words
  <2> QED
    BY <2>1, <2>2, NetworksValues
<1>14. CASE i = 14
  <2>1. values = get_olm_variables(c, "cnv", FALSE)
    BY <1>14, ValuesAt DEF values
  <2> QED
    BY <2>1, OlmValues DEF Operators
<1>15. CASE i = 15
  <2>1. values = get_olm_variables(c, "mtv", FALSE)
    BY <1>15, ValuesAt DEF values
  <2> QED
    BY <2>1, OlmValues DEF Operators
<1>16. CASE i = 16
  <2>1. values = get_olm_variables(c, "odf", FALSE)
    BY <1>16, ValuesAt DEF values
  <2>2. SetsFreely(values)
    BY <2>1, OlmValues DEF Operators
  <2>3. default_triggers(c)[16].met = ("odf" \in c.olm_operators)
    BY DEF default_triggers, Trigger, Olm
  <2>4. "odf" \in c.olm_operators
    BY <1>0, <1>16, <2>3
  <2> QED
    BY <2>2, <2>4
<1>17. CASE i = 17
  <2>1. values = get_olm_variables(c, "lvm", FALSE)
    BY <1>17, ValuesAt DEF values
  <2> QED
    BY <2>1, OlmValues DEF Operators
<1>18. CASE i = 18
  <2>1. values = get_olm_variables(c, "openshift-ai", FALSE)
    BY <1>18, ValuesAt DEF values
  <2>2. SetsFreely(values)
    BY <2>1, OlmValues DEF Operators
  <2>3. default_triggers(c)[18].met = ("openshift-ai" \in c.olm_operators)
    BY DEF default_triggers, Trigger, Olm
  <2>4. "openshift-ai" \in c.olm_operators
    BY <1>0, <1>18, <2>3
  <2> QED
    BY <2>2, <2>4
<1>19. CASE i = 19
  <2>1. values = get_olm_variables(c, "mce", TRUE)
    BY <1>19, ValuesAt DEF values
  <2> QED
    BY <2>1, OlmValues DEF Operators
<1>20. CASE i = 20
  <2>1. values = get_olm_variables(c, "mce", FALSE)
    BY <1>20, ValuesAt DEF values
  <2> QED
    BY <2>1, OlmValues DEF Operators
<1>21. CASE i = 21
  <2>1. values = get_olm_variables(c, "osc", TRUE)
    BY <1>21, ValuesAt DEF values
  <2> QED
    BY <2>1, OlmValues DEF Operators
<1>22. CASE i = 22
  <2>1. values = get_olm_variables(c, "osc", FALSE)
    BY <1>22, ValuesAt DEF values
  <2> QED
    BY <2>1, OlmValues DEF Operators
<1>23. CASE i = 23
  <2>1. values = [download_image |-> FALSE]
    BY <1>23, ValuesAt DEF values
  <2> QED
    BY <2>1, IpxeValues
<1>24. CASE i = 24
  <2>1. values = [is_static_ip |-> TRUE]
    BY <1>24, ValuesAt DEF values
  <2> QED
    BY <2>1, VlanValues
<1>25. CASE i = 25
  <2>1. values = [user_managed_networking |-> TRUE, iso_image_type |-> "full-iso", tf_platform |-> "s390x"]
    BY <1>25, ValuesAt DEF values
  <2> QED
    BY <2>1, S390xValues
<1> QED
  BY <1>0, <1>1, <1>2, <1>3, <1>4, <1>5, <1>6, <1>7, <1>8, <1>9, <1>10, <1>11, <1>12, <1>13, <1>14, <1>15, <1>16, <1>17, <1>18, <1>19, <1>20, <1>21, <1>22, <1>23, <1>24, <1>25

\* The conditions of the triggers read nothing else.
LEMMA ConditionsRead ==
    ASSUME NEW c, NEW d, \A k \in ConditionVars : c[k] = d[k]
    PROVE  MetTriggers(c) = MetTriggers(d)
<1>1. /\ c.masters_count = d.masters_count /\ c.platform = d.platform /\ c.olm_operators = d.olm_operators
      /\ c.is_ipv4 = d.is_ipv4 /\ c.is_ipv6 = d.is_ipv6 /\ c.remote_service_url = d.remote_service_url
      /\ c.ipxe_boot = d.ipxe_boot /\ c.static_ips_vlan = d.static_ips_vlan /\ c.cpu_architecture = d.cpu_architecture
  BY DEF ConditionVars
<1>2. ASSUME NEW i \in 1 .. 25
      PROVE  default_triggers(c)[i].met = default_triggers(d)[i].met
  <2>1. CASE i = 1
    BY <1>1, <2>1 DEF default_triggers, Trigger, Platform, Masters, Olm, OlmSingleNode, OlmSeveralNodes
  <2>2. CASE i = 2
    BY <1>1, <2>2 DEF default_triggers, Trigger, Platform, Masters, Olm, OlmSingleNode, OlmSeveralNodes
  <2>3. CASE i = 3
    BY <1>1, <2>3 DEF default_triggers, Trigger, Platform, Masters, Olm, OlmSingleNode, OlmSeveralNodes
  <2>4. CASE i = 4
    BY <1>1, <2>4 DEF default_triggers, Trigger, Platform, Masters, Olm, OlmSingleNode, OlmSeveralNodes
  <2>5. CASE i = 5
    BY <1>1, <2>5 DEF default_triggers, Trigger, Platform, Masters, Olm, OlmSingleNode, OlmSeveralNodes
  <2>6. CASE i = 6
    BY <1>1, <2>6 DEF default_triggers, Trigger, Platform, Masters, Olm, OlmSingleNode, OlmSeveralNodes
  <2>7. CASE i = 7
    BY <1>1, <2>7 DEF default_triggers, Trigger, Platform, Masters, Olm, OlmSingleNode, OlmSeveralNodes
  <2>8. CASE i = 8
    BY <1>1, <2>8 DEF default_triggers, Trigger, Platform, Masters, Olm, OlmSingleNode, OlmSeveralNodes
  <2>9. CASE i = 9
    BY <1>1, <2>9 DEF default_triggers, Trigger, Platform, Masters, Olm, OlmSingleNode, OlmSeveralNodes
  <2>10. CASE i = 10
    BY <1>1, <2>10 DEF default_triggers, Trigger, Platform, Masters, Olm, OlmSingleNode, OlmSeveralNodes
  <2>11. CASE i = 11
    BY <1>1, <2>11 DEF default_triggers, Trigger, Platform, Masters, Olm, OlmSingleNode, OlmSeveralNodes
  <2>12. CASE i = 12
    BY <1>1, <2>12 DEF default_triggers, Trigger, Platform, Masters, Olm, OlmSingleNode, OlmSeveralNodes
  <2>13. CASE i = 13
    BY <1>1, <2>13 DEF default_triggers, Trigger, Platform, Masters, Olm, OlmSingleNode, OlmSeveralNodes
  <2>14. CASE i = 14
    BY <1>1, <2>14 DEF default_triggers, Trigger, Platform, Masters, Olm, OlmSingleNode, OlmSeveralNodes
  <2>15. CASE i = 15
    BY <1>1, <2>15 DEF default_triggers, Trigger, Platform, Masters, Olm, OlmSingleNode, OlmSeveralNodes
  <2>16. CASE i = 16
    BY <1>1, <2>16 DEF default_triggers, Trigger, Platform, Masters, Olm, OlmSingleNode, OlmSeveralNodes
  <2>17. CASE i = 17
    BY <1>1, <2>17 DEF default_triggers, Trigger, Platform, Masters, Olm, OlmSingleNode, OlmSeveralNodes
  <2>18. CASE i = 18
    BY <1>1, <2>18 DEF default_triggers, Trigger, Platform, Masters, Olm, OlmSingleNode, OlmSeveralNodes
  <2>19. CASE i = 19
    BY <1>1, <2>19 DEF default_triggers, Trigger, Platform, Masters, Olm, OlmSingleNode, OlmSeveralNodes
  <2>20. CASE i = 20
    BY <1>1, <2>20 DEF default_triggers, Trigger, Platform, Masters, Olm, OlmSingleNode, OlmSeveralNodes
  <2>21. CASE i = 21
    BY <1>1, <2>21 DEF default_triggers, Trigger, Platform, Masters, Olm, OlmSingleNode, OlmSeveralNodes
  <2>22. CASE i = 22
    BY <1>1, <2>22 DEF default_triggers, Trigger, Platform, Masters, Olm, OlmSingleNode, OlmSeveralNodes
  <2>23. CASE i = 23
    BY <1>1, <2>23 DEF default_triggers, Trigger, Platform, Masters, Olm, OlmSingleNode, OlmSeveralNodes
  <2>24. CASE i = 24
    BY <1>1, <2>24 DEF default_triggers, Trigger, Platform, Masters, Olm, OlmSingleNode, OlmSeveralNodes
  <2>25. CASE i = 25
    BY <1>1, <2>25 DEF default_triggers, Trigger, Platform, Masters, Olm, OlmSingleNode, OlmSeveralNodes
  <2> QED
    BY <1>2, <2>1, <2>2, <2>3, <2>4, <2>5, <2>6, <2>7, <2>8, <2>9, <2>10, <2>11, <2>12, <2>13, <2>14, <2>15, <2>16, <2>17, <2>18, <2>19, <2>20, <2>21, <2>22, <2>23, <2>24, <2>25
<1> QED
  <2>1. Len(default_triggers(c)) = 25 /\ Len(default_triggers(d)) = 25
    BY ValuesAt
  <2>2. \A i \in 1 .. 25 : default_triggers(c)[i].met = default_triggers(d)[i].met
    BY <1>2
  <2> QED
    BY <2>1, <2>2 DEF MetTriggers

\* The configuration is typed where the type invariant holds.
LEMMA ConfigTyped == ConfigTypeOK <=>
    /\ stage \in {"pool", "config", "done"} /\ Typed(pool) /\ Typed(config)
    /\ origin \in [VarNames -> {None, "ENVIRONMENT", "PARAMETERIZED", "TRIGGER"}]
  BY DEF ConfigTypeOK, Typed

\* The condition of the single node.
LEMMA SnoIsMet ==
    ASSUME NEW c, c.masters_count = 1
    PROVE  SnoPlace \in MetTriggers(c)
<1>1. default_triggers(c)[6].met = (c.masters_count = 1)
  BY DEF default_triggers, Trigger
<1>2. default_triggers(c)[6].met
  BY <1>1
<1>3. 6 \in 1 .. 25
  OBVIOUS
<1>4. Len(default_triggers(c)) = 25
  BY ValuesAt
<1> QED
  BY <1>2, <1>3, <1>4 DEF MetTriggers, SnoPlace

LEMMA ConditionVarsAreVars == ConditionVars \subseteq VarNames
  BY DEF ConditionVars, VarNames, IntVars, BoolVars, StringVars

\* What triggers set, written over a typed configuration, leaves it typed, and
\* the conditions of the triggers as they are.
LEMMA SettingStaysTyped ==
    ASSUME NEW c, Typed(c), NEW values, SetsFreely(values), NEW d, DOMAIN d = VarNames,
           \A k \in VarNames : d[k] = c[k] \/ (k \in DOMAIN values /\ d[k] = values[k])
    PROVE  Typed(d) /\ MetTriggers(d) = MetTriggers(c) /\ \A k \in ConditionVars : d[k] = c[k]
<1>1. Typed(d)
  BY DEF Typed, SetsFreely
<1>2. \A k \in ConditionVars : d[k] = c[k]
  BY ConditionVarsAreVars DEF SetsFreely
<1> QED
  BY <1>1, <1>2, ConditionsRead

\* The defaults of the variables have their types.
LEMMA DefaultsTyped == Typed(_EnvVariables)
<1> DEFINE e == _EnvVariables
<1>1. DOMAIN e = VarNames
  BY DEF _EnvVariables, VarNames, IntVars, BoolVars, StringVars
<1>2. \A k \in IntVars : e[k] \in Nat
  BY DEF _EnvVariables, IntVars
<1>3. \A k \in BoolVars : e[k] \in BOOLEAN
  <2>1. /\ e["is_ipv4"] = TRUE /\ e["is_ipv6"] = FALSE /\ e["user_managed_networking"] = FALSE
        /\ e["download_image"] = TRUE /\ e["ipxe_boot"] = FALSE /\ e["static_ips_vlan"] = FALSE
        /\ e["is_static_ip"] = FALSE
    BY DEF _EnvVariables
  <2> QED
    BY <2>1 DEF BoolVars
<1>4. \A k \in StringVars : e[k] \in Words
  <2>1. \A k \in StringVars : e[k] \in {None, "baremetal", "x86_64", "minimal-iso"}
    BY DEF _EnvVariables, StringVars
  <2> QED
    BY <2>1 DEF Words
<1> QED
  BY <1>1, <1>2, <1>3, <1>4 DEF Typed, HasType

\* What the user or a test gives, over a typed configuration.
LEMMA GivenStaysTyped ==
    ASSUME NEW c, Typed(c), NEW values \in UserEnvs \cup Parameters, NEW d, DOMAIN d = VarNames,
           \A k \in VarNames : d[k] = c[k] \/ (k \in DOMAIN values /\ d[k] = values[k])
    PROVE  Typed(d)
  BY ConfigAssumption DEF Typed

LEMMA ConfigInitHolds == ConfigInit => ConfigIInv
<1> SUFFICES ASSUME ConfigInit PROVE ConfigIInv
  OBVIOUS
<1> USE DEF ConfigInit
<1>1. DOMAIN userEnv \subseteq VarNames
  BY ConfigAssumption
<1>2. Typed(pool)
  <2>1. DOMAIN pool = VarNames
    OBVIOUS
  <2>2. \A k \in VarNames : pool[k] = _EnvVariables[k] \/ (k \in DOMAIN userEnv /\ pool[k] = userEnv[k])
    BY DEF EnvVarValue
  <2> QED
    BY <2>1, <2>2, DefaultsTyped, GivenStaysTyped
<1>3. ConfigTypeOK
  <2>1. origin \in [VarNames -> {None, "ENVIRONMENT", "PARAMETERIZED", "TRIGGER"}]
    OBVIOUS
  <2> QED
    BY <1>2, <2>1, ConfigTyped
<1>4. OriginIsKnown
  BY <1>1 DEF OriginIsKnown, None
<1>5. UserValuesKept
  BY <1>1 DEF UserValuesKept, EnvVarValue
<1>6. ConditionsStay
  BY DEF ConditionsStay
<1>7. WorkersGo
  BY DEF WorkersGo
<1> QED
  BY <1>3, <1>4, <1>5, <1>6, <1>7 DEF ConfigIInv

LEMMA ConfigStep == ConfigIInv /\ [ConfigNext]_configVars => ConfigIInv'
<1> SUFFICES ASSUME ConfigIInv, [ConfigNext]_configVars PROVE ConfigIInv'
  OBVIOUS
<1>0. /\ stage \in {"pool", "config", "done"} /\ Typed(pool) /\ Typed(config)
      /\ origin \in [VarNames -> {None, "ENVIRONMENT", "PARAMETERIZED", "TRIGGER"}]
  BY ConfigTyped DEF ConfigIInv
<1>a. DOMAIN userEnv \subseteq VarNames
  BY ConfigAssumption DEF ConfigIInv, OriginIsKnown
<1>b. \A k \in DOMAIN userEnv : origin[k] = "ENVIRONMENT" /\ ~MaySet(k)
  BY <1>a DEF ConfigIInv, OriginIsKnown, MaySet, None
<1>1. CASE handle_trigger_on_pool
  <2> PICK i \in todo :
        /\ todo' = todo \ {i}
        /\ pool' = [k \in VarNames |->
                     IF k \in DOMAIN default_triggers(pool)[i].values /\ MaySet(k)
                     THEN EnvVarCopy(k, pool[k], default_triggers(pool)[i].values[k]) ELSE pool[k]]
    BY <1>1 DEF handle_trigger_on_pool
  <2> DEFINE values == default_triggers(pool)[i].values
  <2>0. stage = "pool" /\ UNCHANGED <<stage, userEnv, config, origin>>
    BY <1>1 DEF handle_trigger_on_pool
  <2>1. i \in MetTriggers(pool) /\ todo \subseteq MetTriggers(pool)
    BY <2>0 DEF ConfigIInv, ConditionsStay
  <2>2. SetsFreely(values)
    BY <2>1, <1>0, TriggerSetsFreely
  <2>3. \A k \in VarNames : pool'[k] = pool[k] \/ (k \in DOMAIN values /\ pool'[k] = values[k])
    BY DEF EnvVarCopy
  <2>4. Typed(pool') /\ MetTriggers(pool') = MetTriggers(pool)
    <3>1. DOMAIN pool' = VarNames
      OBVIOUS
    <3> HIDE DEF values
    <3> QED
      BY <1>0, <2>2, <2>3, <3>1, SettingStaysTyped
  <2>5. ConfigTypeOK'
    BY <1>0, <2>0, <2>4, ConfigTyped DEF ConfigTypeOK, Typed
  <2>6. OriginIsKnown'
    BY <2>0 DEF ConfigIInv, OriginIsKnown
  <2>7. UserValuesKept'
    <3>1. \A k \in DOMAIN userEnv : pool'[k] = pool[k]
      BY <1>a, <1>b
    <3> QED
      BY <2>0, <3>1 DEF ConfigIInv, UserValuesKept
  <2>8. ConditionsStay'
    BY <2>0, <2>1, <2>4 DEF ConditionsStay
  <2>9. WorkersGo'
    BY <2>0 DEF WorkersGo
  <2> QED
    BY <2>5, <2>6, <2>7, <2>8, <2>9 DEF ConfigIInv
<1>2. CASE new_configuration
  <2> PICK p \in Parameters :
         /\ config' = [k \in VarNames |-> IF k \in DOMAIN p THEN p[k] ELSE pool[k]]
         /\ origin' = [k \in VarNames |-> IF k \in DOMAIN p /\ origin[k] = None THEN "PARAMETERIZED" ELSE origin[k]]
         /\ todo' = MetTriggers(config')
    BY <1>2 DEF new_configuration
  <2>0. stage' = "config" /\ UNCHANGED <<userEnv, pool>>
    BY <1>2 DEF new_configuration
  <2>1. Typed(config')
    <3>1. DOMAIN config' = VarNames
      OBVIOUS
    <3>2. \A k \in VarNames : config'[k] = pool[k] \/ (k \in DOMAIN p /\ config'[k] = p[k])
      OBVIOUS
    <3> QED
      BY <1>0, <3>1, <3>2, GivenStaysTyped
  <2>2. origin' \in [VarNames -> {None, "ENVIRONMENT", "PARAMETERIZED", "TRIGGER"}]
    BY <1>0
  <2>3. ConfigTypeOK'
    BY <1>0, <2>0, <2>1, <2>2 DEF ConfigTypeOK, Typed
  <2>4. OriginIsKnown'
    BY <2>0 DEF ConfigIInv, OriginIsKnown, None
  <2>5. UserValuesKept'
    <3>1. \A k \in DOMAIN userEnv : config'[k] = pool[k] \/ (k \in DOMAIN p /\ config'[k] = p[k])
      BY <1>a
    <3> QED
      BY <2>0, <3>1 DEF ConfigIInv, UserValuesKept
  <2>6. ConditionsStay'
    BY <2>0 DEF ConditionsStay
  <2>7. WorkersGo'
    <3>1. config'.masters_count = 1 => SnoPlace \in MetTriggers(config')
      BY SnoIsMet
    <3> QED
      BY <3>1 DEF WorkersGo
  <2> QED
    BY <2>3, <2>4, <2>5, <2>6, <2>7 DEF ConfigIInv
<1>3. CASE handle_trigger_on_config
  <2> PICK i \in todo :
         /\ todo' = todo \ {i}
         /\ config' = Handled(config, i)
         /\ origin' = [k \in VarNames |->
                         IF k \in DOMAIN default_triggers(config)[i].values /\ MaySet(k) THEN "TRIGGER" ELSE origin[k]]
    BY <1>3 DEF handle_trigger_on_config
  <2> DEFINE values == default_triggers(config)[i].values
  <2>0. stage = "config" /\ UNCHANGED <<stage, userEnv, pool>>
    BY <1>3 DEF handle_trigger_on_config
  <2>1. i \in MetTriggers(config) /\ todo \subseteq MetTriggers(config)
    BY <2>0 DEF ConfigIInv, ConditionsStay
  <2>2. /\ SetsFreely(values)
        /\ /\ config.olm_operators \cap {"odf", "openshift-ai"} = {} /\ config.workers_count = 0
           /\ "workers_count" \in DOMAIN values
           => values["workers_count"] = 0
    BY <2>1, <1>0, TriggerSetsFreely
  <2>3. config' = [k \in VarNames |-> IF k \in DOMAIN values /\ MaySet(k) THEN values[k] ELSE config[k]]
    BY DEF Handled, ConfigSet
  <2>a. i = SnoPlace => "workers_count" \in DOMAIN values /\ values["workers_count"] = 0
    <3>1. values = [workers_count |-> 0, control_plane_count |-> 1, user_managed_networking |-> TRUE, network_type |-> None]
          <=> values = default_triggers(config)[SnoPlace].values
      BY ValuesAt DEF SnoPlace
    <3> SUFFICES ASSUME i = SnoPlace PROVE "workers_count" \in DOMAIN values /\ values["workers_count"] = 0
      OBVIOUS
    <3>2. values = [workers_count |-> 0, control_plane_count |-> 1, user_managed_networking |-> TRUE, network_type |-> None]
      BY <3>1
    <3> HIDE DEF values
    <3> QED
      BY <3>2
  <2>b. origin' = [k \in VarNames |-> IF k \in DOMAIN values /\ MaySet(k) THEN "TRIGGER" ELSE origin[k]]
    OBVIOUS
  <2> HIDE DEF values
  <2>4. Typed(config') /\ MetTriggers(config') = MetTriggers(config) /\ \A k \in ConditionVars : config'[k] = config[k]
    <3>1. DOMAIN config' = VarNames
      BY <2>3
    <3>2. \A k \in VarNames : config'[k] = config[k] \/ (k \in DOMAIN values /\ config'[k] = values[k])
      BY <2>3
    <3> QED
      BY <1>0, <2>2, <3>1, <3>2, SettingStaysTyped
  <2>5. ConfigTypeOK'
    <3>1. origin' \in [VarNames -> {None, "ENVIRONMENT", "PARAMETERIZED", "TRIGGER"}]
      BY <1>0, <2>b
    <3> QED
      BY <1>0, <2>0, <2>4, <3>1 DEF ConfigTypeOK, Typed
  <2>6. OriginIsKnown'
    <3>1. \A k \in VarNames : origin'[k] = "ENVIRONMENT" <=> origin[k] = "ENVIRONMENT"
      BY <2>b DEF MaySet, None
    <3> QED
      BY <2>0, <3>1 DEF ConfigIInv, OriginIsKnown
  <2>7. UserValuesKept'
    <3>1. \A k \in DOMAIN userEnv : config'[k] = config[k]
      BY <1>a, <1>b, <2>3
    <3> QED
      BY <2>0, <3>1 DEF ConfigIInv, UserValuesKept
  <2>8. ConditionsStay'
    BY <2>0, <2>1, <2>4 DEF ConditionsStay
  <2>9. WorkersGo'
    <3> SUFFICES ASSUME config'.masters_count = 1, MaySet("workers_count")',
                        config'.olm_operators \cap {"odf", "openshift-ai"} = {}
                 PROVE  config'.workers_count = 0 \/ SnoPlace \in todo'
      BY DEF WorkersGo
    <3>1. config.masters_count = 1 /\ config.olm_operators = config'.olm_operators
      BY <2>4 DEF ConditionVars
    <3>2. "workers_count" \in VarNames
      BY DEF VarNames, IntVars
    <3>3. MaySet("workers_count")
      BY <2>b, <3>2 DEF MaySet
    <3>4. config.workers_count = 0 \/ SnoPlace \in todo
      BY <2>0, <3>1, <3>3 DEF ConfigIInv, WorkersGo
    <3>5. config'["workers_count"] = IF "workers_count" \in DOMAIN values THEN values["workers_count"] ELSE config["workers_count"]
      BY <2>3, <3>2, <3>3
    <3>6. CASE config.workers_count = 0
      BY <2>2, <3>1, <3>5, <3>6
    <3>7. CASE SnoPlace \in todo
      BY <2>a, <3>5, <3>7
    <3> QED
      BY <3>4, <3>6, <3>7
  <2> QED
    BY <2>5, <2>6, <2>7, <2>8, <2>9 DEF ConfigIInv
<1>4. CASE configuration_is_ready \/ UNCHANGED configVars
  <2>1. /\ UNCHANGED <<userEnv, pool, config, origin, todo>>
        /\ stage' = stage \/ (stage = "config" /\ stage' = "done" /\ todo = {})
    BY <1>4 DEF configuration_is_ready, configVars
  <2>2. ConfigTypeOK'
    BY <1>0, <2>1 DEF ConfigTypeOK, Typed
  <2>3. OriginIsKnown' /\ UserValuesKept'
    BY <2>1 DEF ConfigIInv, OriginIsKnown, UserValuesKept
  <2>4. ConditionsStay'
    BY <2>1 DEF ConfigIInv, ConditionsStay
  <2>5. WorkersGo'
    BY <2>1 DEF ConfigIInv, WorkersGo, MaySet
  <2> QED
    BY <2>2, <2>3, <2>4, <2>5 DEF ConfigIInv
<1> QED
  BY <1>1, <1>2, <1>3, <1>4 DEF ConfigNext

LEMMA ConfigConclusion == ConfigIInv => ConfigTypeOK /\ UserValueWins /\ SnoHasNoWorkers
<1> SUFFICES ASSUME ConfigIInv PROVE UserValueWins /\ SnoHasNoWorkers
  BY DEF ConfigIInv
<1>1. UserValueWins
  BY DEF ConfigIInv, OriginIsKnown, UserValuesKept, UserValueWins
<1>2. SnoHasNoWorkers
  BY DEF ConfigIInv, WorkersGo, ConditionsStay, SnoHasNoWorkers, MaySet
<1> QED
  BY <1>1, <1>2

-----------------------------------------------------------------------------
(***************************************************************************)
(* The addresses of the nodes.                                             *)
(***************************************************************************)
LEMMA Slots ==
    ASSUME NEW s \in Nat \ {0}, NEW count \in Nat, NEW i \in 1 .. count * s
    PROVE  \E n \in 0 .. count - 1 : i \in s * n + 1 .. s * (n + 1)
<1> DEFINE n == (i - 1) \div s
<1>1. count * s \in Nat /\ i - 1 \in Nat
  OBVIOUS
<1>2. n \in Nat /\ s * n <= i - 1 /\ i - 1 < s * (n + 1)
  BY <1>1
<1> HIDE DEF n
<1>3. s * n < s * count
  BY <1>1, <1>2
<1>4. n < count
  BY <1>2, <1>3
<1>5. s * n \in Nat /\ s * (n + 1) \in Nat
  BY <1>2
<1>6. i \in s * n + 1 .. s * (n + 1)
  BY <1>2, <1>5
<1>7. n \in 0 .. count - 1
  BY <1>2, <1>4
<1> QED
  BY <1>6, <1>7

LEMMA SlotsApart ==
    ASSUME NEW s \in Nat \ {0}, NEW n \in Nat, NEW m \in Nat,
           NEW i \in s * n + 1 .. s * (n + 1), i \in s * m + 1 .. s * (m + 1)
    PROVE  n = m
<1>1. s * n \in Nat /\ s * m \in Nat /\ s * (n + 1) \in Nat /\ s * (m + 1) \in Nat
  OBVIOUS
<1>2. s * n < s * (m + 1) /\ s * m < s * (n + 1)
  BY <1>1
<1>3. n < m + 1 /\ m < n + 1
  BY <1>2
<1> QED
  BY <1>3

LEMMA SlotsInside ==
    ASSUME NEW s \in Nat \ {0}, NEW count \in Nat, NEW n \in 0 .. count - 1
    PROVE  s * n + 1 .. s * (n + 1) \subseteq 1 .. count * s
<1>1. s * n \in Nat /\ s * (n + 1) \in Nat /\ n + 1 <= count
  OBVIOUS
<1>2. s * (n + 1) <= count * s
  BY <1>1
<1> QED
  BY <1>1, <1>2

\* What a layout is.
LEMMA LayoutFacts ==
    ASSUME NEW c \in Layouts
    PROVE  /\ c.master \in Nat \ {0} /\ c.worker \in Nat /\ c.arbiter \in Nat /\ c.slaves \in Nat \ {0}
           /\ c.master + c.worker + c.arbiter <= 20
           /\ \A r \in Roles : c[r] \in Nat /\ Count(c, r) = c[r]
  BY AddrAssumption DEF MostNodes, Roles, Count

\* The hardware addresses of a node: those of a run, a role and the places of
\* its bond, at each of two interfaces.
LEMMA MacsOfNode ==
    ASSUME NEW c \in Layouts, NEW r \in Nat, NEW who \in {"master", "worker"}, NEW n \in 0 .. c[who] - 1, NEW index
    PROVE  prepare_host_static_network_data(FilledTfvars(c, r), c, who, n, index).macs
             = {<<r, who, nic, i>> : nic \in {1, 2}, i \in c.slaves * n + 1 .. c.slaves * (n + 1)}
<1>1. who \in Roles /\ c.slaves \in Nat \ {0} /\ c[who] \in Nat /\ Count(c, who) = c[who]
  BY LayoutFacts DEF Roles
<1>2. c.slaves * n + 1 .. c.slaves * (n + 1) \subseteq 1 .. c[who] * c.slaves
  BY <1>1, SlotsInside
<1> DEFINE t == FilledTfvars(c, r)
           places == c.slaves * n + 1 .. c.slaves * (n + 1)
<1>3. t.macs[who] = generate_macs(c, r, who, 1) /\ t.secondary_macs[who] = generate_macs(c, r, who, 2)
  BY <1>1 DEF FilledTfvars
<1>4. prepare_host_static_network_data(t, c, who, n, index).macs
        = Slice(t.macs[who], c.slaves, n) \cup Slice(t.secondary_macs[who], c.slaves, n)
  BY DEF prepare_host_static_network_data
<1> HIDE DEF t
<1>5. ASSUME NEW nic PROVE Slice(generate_macs(c, r, who, nic), c.slaves, n) = {<<r, who, nic, i>> : i \in places}
  <2>1. \A i \in places : generate_macs(c, r, who, nic)[i] = <<r, who, nic, i>>
    BY <1>1, <1>2 DEF generate_macs
  <2>2. Slice(generate_macs(c, r, who, nic), c.slaves, n) = {generate_macs(c, r, who, nic)[i] : i \in places}
    BY DEF Slice
  <2> HIDE DEF places
  <2> QED
    BY <2>1, <2>2
<1> HIDE DEF places
<1> QED
  BY <1>3, <1>4, <1>5 DEF t, places

\* The data of the hosts: the masters first, then the workers.
LEMMA HostsOfData ==
    ASSUME NEW c \in Layouts, NEW t
    PROVE  LET data == generate_static_network_data_from_tf(t, c)
           IN  /\ Len(data) = c.master + c.worker /\ data # <<>>
               /\ \A h \in 1 .. c.master :
                    data[h] = prepare_host_static_network_data(t, c, "master", h - 1, h - 1)
               /\ \A h \in c.master + 1 .. c.master + c.worker :
                    data[h] = prepare_host_static_network_data(t, c, "worker", h - c.master - 1, h - 1)
<1> DEFINE ms == [i \in 1 .. c.master |-> prepare_host_static_network_data(t, c, "master", i - 1, i - 1)]
           ws == [i \in 1 .. c.worker |-> prepare_host_static_network_data(t, c, "worker", i - 1, c.master + i - 1)]
           HostRows == {prepare_host_static_network_data(t, c, who, i, j) : who \in {"master", "worker"}, i \in Nat, j \in Nat}
           data == generate_static_network_data_from_tf(t, c)
<1>0. c.master \in Nat \ {0} /\ c.worker \in Nat
  BY LayoutFacts
<1>1. ms \in Seq(HostRows) /\ Len(ms) = c.master
  <2>1. \A i \in 1 .. c.master : ms[i] \in HostRows
    BY <1>0
  <2>2. ms \in [1 .. c.master -> HostRows]
    BY <2>1
  <2> HIDE DEF ms, HostRows
  <2> QED
    BY <1>0, <2>2
<1>2. ws \in Seq(HostRows) /\ Len(ws) = c.worker
  <2>1. ASSUME NEW i \in 1 .. c.worker PROVE ws[i] \in HostRows
    <3>1. i - 1 \in Nat /\ c.master + i - 1 \in Nat
      BY <1>0
    <3>2. ws[i] = prepare_host_static_network_data(t, c, "worker", i - 1, c.master + i - 1)
      OBVIOUS
    <3> QED
      BY <3>1, <3>2
  <2>2. ws \in [1 .. c.worker -> HostRows]
    BY <2>1
  <2> HIDE DEF ws, HostRows
  <2> QED
    BY <1>0, <2>2
<1>3. data = ms \o ws
  BY DEF generate_static_network_data_from_tf
<1>4. \A h \in 1 .. c.master : ms[h] = prepare_host_static_network_data(t, c, "master", h - 1, h - 1)
  OBVIOUS
<1>5. \A i \in 1 .. c.worker : ws[i] = prepare_host_static_network_data(t, c, "worker", i - 1, c.master + i - 1)
  OBVIOUS
<1> HIDE DEF ms, ws, HostRows, data
<1>6. Len(data) = c.master + c.worker
  <2>1. ms \in Seq(HostRows) /\ ws \in Seq(HostRows)
    BY <1>1, <1>2
  <2>2. Len(ms \o ws) = Len(ms) + Len(ws)
    BY <2>1, ConcatProperties
  <2> QED
    BY <1>1, <1>2, <1>3, <2>2
<1>7. data # <<>>
  BY <1>0, <1>6
<1>8. \A h \in 1 .. c.master : data[h] = ms[h]
  BY <1>0, <1>1, <1>2, <1>3
<1>9. ASSUME NEW h \in c.master + 1 .. c.master + c.worker
      PROVE  data[h] = prepare_host_static_network_data(t, c, "worker", h - c.master - 1, h - 1)
  <2>1. data[h] = ws[h - c.master]
    BY <1>0, <1>1, <1>2, <1>3
  <2>2. h - c.master \in 1 .. c.worker /\ c.master + (h - c.master) - 1 = h - 1
    BY <1>0
  <2> QED
    BY <1>5, <2>1, <2>2
<1> QED
  BY <1>4, <1>6, <1>7, <1>8, <1>9 DEF data

\* Which node a host of the data is.
RoleOf(c, h) == IF h <= c.master THEN "master" ELSE "worker"
PlaceOf(c, h) == IF h <= c.master THEN h - 1 ELSE h - c.master - 1

LEMMA DataAt ==
    ASSUME NEW c \in Layouts, NEW t, NEW h \in 1 .. c.master + c.worker
    PROVE  /\ RoleOf(c, h) \in {"master", "worker"}
           /\ PlaceOf(c, h) \in 0 .. c[RoleOf(c, h)] - 1
           /\ generate_static_network_data_from_tf(t, c)[h]
                = prepare_host_static_network_data(t, c, RoleOf(c, h), PlaceOf(c, h), h - 1)
<1>0. c.master \in Nat \ {0} /\ c.worker \in Nat
  BY LayoutFacts
<1>1. CASE h <= c.master
  BY <1>0, <1>1, HostsOfData DEF RoleOf, PlaceOf
<1>2. CASE h > c.master
  <2>1. h \in c.master + 1 .. c.master + c.worker /\ ~(h <= c.master)
    BY <1>0, <1>2
  <2> QED
    BY <1>0, <2>1, HostsOfData DEF RoleOf, PlaceOf
<1> QED
  BY <1>0, <1>1, <1>2

\* The hardware addresses of two hosts of the data have none in common, and
\* tell the run they were drawn in.
LEMMA MacsOfData ==
    ASSUME NEW c \in Layouts, NEW r \in Nat
    PROVE  LET data == generate_static_network_data_from_tf(FilledTfvars(c, r), c)
           IN  \A h \in 1 .. c.master + c.worker :
                 /\ data[h].macs # {}
                 /\ data[h].macs = {<<r, RoleOf(c, h), nic, i>> : nic \in {1, 2},
                                     i \in c.slaves * PlaceOf(c, h) + 1 .. c.slaves * (PlaceOf(c, h) + 1)}
                 /\ \A m \in data[h].macs : m[1] = r
                 /\ \A g \in 1 .. c.master + c.worker : data[h].macs \cap data[g].macs # {} => g = h
<1> DEFINE data == generate_static_network_data_from_tf(FilledTfvars(c, r), c)
           Places(h) == c.slaves * PlaceOf(c, h) + 1 .. c.slaves * (PlaceOf(c, h) + 1)
<1>0. c.master \in Nat \ {0} /\ c.worker \in Nat /\ c.slaves \in Nat \ {0}
  BY LayoutFacts
<1>1. ASSUME NEW h \in 1 .. c.master + c.worker
      PROVE  data[h].macs = {<<r, RoleOf(c, h), nic, i>> : nic \in {1, 2}, i \in Places(h)}
  BY DataAt, MacsOfNode
<1>2. ASSUME NEW h \in 1 .. c.master + c.worker
      PROVE  PlaceOf(c, h) \in Nat /\ c.slaves * PlaceOf(c, h) + 1 \in Places(h)
  <2>1. PlaceOf(c, h) \in Nat
    BY <1>0 DEF PlaceOf
  <2>2. c.slaves * PlaceOf(c, h) \in Nat /\ c.slaves * (PlaceOf(c, h) + 1) = c.slaves * PlaceOf(c, h) + c.slaves
    BY <1>0, <2>1
  <2> QED
    BY <1>0, <2>1, <2>2
<1> HIDE DEF data
<1>3. ASSUME NEW h \in 1 .. c.master + c.worker, NEW g \in 1 .. c.master + c.worker,
             data[h].macs \cap data[g].macs # {}
      PROVE  g = h
  <2>1. PICK m : m \in data[h].macs /\ m \in data[g].macs
    BY <1>3
  <2>2. PICK nic \in {1, 2}, i \in Places(h) : m = <<r, RoleOf(c, h), nic, i>>
    BY <1>1, <2>1
  <2>3. PICK nicg \in {1, 2}, j \in Places(g) : m = <<r, RoleOf(c, g), nicg, j>>
    BY <1>1, <2>1
  <2>4. RoleOf(c, h) = RoleOf(c, g) /\ i = j
    BY <2>2, <2>3
  <2>5. PlaceOf(c, h) = PlaceOf(c, g)
    BY <1>0, <1>2, <2>2, <2>3, <2>4, SlotsApart
  <2> QED
    BY <1>0, <2>4, <2>5 DEF RoleOf, PlaceOf
<1>4. ASSUME NEW h \in 1 .. c.master + c.worker
      PROVE  data[h].macs # {} /\ \A m \in data[h].macs : m[1] = r
  <2> HIDE DEF Places
  <2>1. <<r, RoleOf(c, h), 1, c.slaves * PlaceOf(c, h) + 1>> \in data[h].macs
    BY <1>1, <1>2
  <2>2. \A m \in data[h].macs : m[1] = r
    BY <1>1
  <2> QED
    BY <2>1, <2>2
<1> QED
  BY <1>1, <1>3, <1>4 DEF data

\* Two lists of one.
LEMMA PairOfTwo == ASSUME NEW a, NEW b PROVE <<a>> \o <<b>> = <<a, b>>
<1> DEFINE S == {a, b}
           u == <<a>>
           v == <<b>>
           w == <<a, b>>
<1>1. u \in Seq(S) /\ v \in Seq(S) /\ Len(u) = 1 /\ Len(v) = 1 /\ u[1] = a /\ v[1] = b
  OBVIOUS
<1>2. w \in Seq(S) /\ Len(w) = 2 /\ w[1] = a /\ w[2] = b
  OBVIOUS
<1> HIDE DEF u, v, w, S
<1>3. /\ u \o v \in Seq(S) /\ Len(u \o v) = Len(u) + Len(v)
      /\ \A i \in 1 .. Len(u) + Len(v) : (u \o v)[i] = IF i <= Len(u) THEN u[i] ELSE v[i - Len(u)]
  BY <1>1, ConcatProperties
<1>4. \A i \in 1 .. 2 : (u \o v)[i] = w[i]
  BY <1>1, <1>2, <1>3
<1>5. u \o v = w
  BY <1>1, <1>2, <1>3, <1>4, SeqEqual
<1> QED
  BY <1>5 DEF u, v, w

\* One stack or both.
HasStack(c) == c.v4 \in BOOLEAN /\ c.v6 \in BOOLEAN /\ (c.v4 \/ c.v6)

\* The subnets of the two interfaces, by the stacks of the layout.
LEMMA StackSubnets ==
    ASSUME NEW c, HasStack(c)
    PROVE  /\ ~c.v6 => /\ get_all_machine_addresses(c) = <<"machine">>
                       /\ get_all_provisioning_addresses(c) = <<"provisioning">>
           /\ c.v6 /\ ~c.v4 => /\ get_all_machine_addresses(c) = <<"machine6">>
                               /\ get_all_provisioning_addresses(c) = <<"provisioning6">>
           /\ c.v6 /\ c.v4 => /\ get_all_machine_addresses(c)
                                   = IF V6First(c) THEN <<"machine6", "machine">> ELSE <<"machine", "machine6">>
                              /\ get_all_provisioning_addresses(c) = <<"provisioning", "provisioning6">>
           /\ ~c.v6 => ~V6First(c)
           /\ ~c.v4 => c.v6 /\ V6First(c)
<1>1. c.v4 \in BOOLEAN /\ c.v6 \in BOOLEAN /\ (c.v4 \/ c.v6)
  BY DEF HasStack
<1>2. (~c.v6 => ~V6First(c)) /\ (~c.v4 => c.v6 /\ V6First(c))
  BY <1>1 DEF V6First
<1>3. ASSUME ~c.v6
      PROVE  get_all_machine_addresses(c) = <<"machine">> /\ get_all_provisioning_addresses(c) = <<"provisioning">>
  BY <1>1, <1>2, <1>3 DEF get_all_machine_addresses, get_all_provisioning_addresses, Optional
<1>4. ASSUME c.v6, ~c.v4
      PROVE  get_all_machine_addresses(c) = <<"machine6">> /\ get_all_provisioning_addresses(c) = <<"provisioning6">>
  BY <1>1, <1>2, <1>4 DEF get_all_machine_addresses, get_all_provisioning_addresses, Optional
<1>5. ASSUME c.v6, c.v4
      PROVE  /\ get_all_machine_addresses(c)
                  = IF V6First(c) THEN <<"machine6", "machine">> ELSE <<"machine", "machine6">>
             /\ get_all_provisioning_addresses(c) = <<"provisioning", "provisioning6">>
  <2>1. \A x : Optional(c.v4, x) = <<x>> /\ Optional(c.v6, x) = <<x>>
    BY <1>5 DEF Optional
  <2>2. /\ <<"machine6">> \o <<"machine">> = <<"machine6", "machine">>
        /\ <<"machine">> \o <<"machine6">> = <<"machine", "machine6">>
        /\ <<"provisioning">> \o <<"provisioning6">> = <<"provisioning", "provisioning6">>
    BY PairOfTwo, Zenon
  <2>3. get_all_machine_addresses(c)
          = IF V6First(c) THEN <<"machine6">> \o <<"machine">> ELSE <<"machine">> \o <<"machine6">>
    BY <2>1, Zenon DEF get_all_machine_addresses
  <2>4. get_all_provisioning_addresses(c) = <<"provisioning">> \o <<"provisioning6">>
    BY <2>1, Zenon DEF get_all_provisioning_addresses
  <2> QED
    BY <2>2, <2>3, <2>4, Zenon
<1> QED
  BY <1>2, <1>3, <1>4, <1>5

LEMMA SubnetsOfLayout ==
    ASSUME NEW c \in Layouts
    PROVE  /\ ~c.v6 => /\ get_all_machine_addresses(c) = <<"machine">>
                       /\ get_all_provisioning_addresses(c) = <<"provisioning">>
           /\ c.v6 /\ ~c.v4 => /\ get_all_machine_addresses(c) = <<"machine6">>
                               /\ get_all_provisioning_addresses(c) = <<"provisioning6">>
           /\ c.v6 /\ c.v4 => /\ get_all_machine_addresses(c)
                                   = IF V6First(c) THEN <<"machine6", "machine">> ELSE <<"machine", "machine6">>
                              /\ get_all_provisioning_addresses(c) = <<"provisioning", "provisioning6">>
           /\ ~c.v6 => ~V6First(c)
           /\ ~c.v4 => c.v6 /\ V6First(c)
<1>1. HasStack(c)
  BY AddrAssumption DEF HasStack
<1> QED
  BY <1>1, StackSubnets


\* The lists of subnets whose first is IPv4 or the only one.
SubnetLists ==
    {<<"machine">>, <<"machine", "machine6">>, <<"provisioning">>, <<"provisioning6">>,
     <<"provisioning", "provisioning6">>}

\* An interface has an address in every subnet, unless the first is IPv6.
LEMMA InterfaceSubnets ==
    ASSUME NEW n, NEW cidrs \in SubnetLists
    PROVE  {a[1] : a \in InterfaceAddresses(cidrs, n)} = {cidrs[i] : i \in 1 .. Len(cidrs)}
<1>0. (Len(cidrs) = 1) \/ (Len(cidrs) = 2 /\ ~IsV6(cidrs[1]))
  BY DEF SubnetLists, IsV6
<1>1. CASE Len(cidrs) = 1
  <2>1. InterfaceAddresses(cidrs, n) = {<<cidrs[1], 30 + n>>}
    BY <1>1 DEF InterfaceAddresses
  <2>2. {cidrs[i] : i \in 1 .. Len(cidrs)} = {cidrs[1]}
    BY <1>1
  <2> QED
    BY <2>1, <2>2
<1>2. CASE Len(cidrs) = 2 /\ ~IsV6(cidrs[1])
  <2>2. InterfaceAddresses(cidrs, n) = {<<cidrs[1], 30 + n>>, <<cidrs[2], 30 + n>>}
    BY <1>2 DEF InterfaceAddresses
  <2>3. {cidrs[i] : i \in 1 .. Len(cidrs)} = {cidrs[1], cidrs[2]}
    BY <1>2
  <2> QED
    <3> DEFINE first == <<cidrs[1], 30 + n>>
               second == <<cidrs[2], 30 + n>>
    <3>1. first[1] = cidrs[1] /\ second[1] = cidrs[2]
      OBVIOUS
    <3> HIDE DEF first, second
    <3>2. {a[1] : a \in {first, second}} = {first[1], second[1]}
      OBVIOUS
    <3> QED
      BY <2>2, <2>3, <3>1, <3>2 DEF first, second
<1> QED
  BY <1>0, <1>1, <1>2

\* The parts of the variables of terraform that say the same in every run.
LEMMA FilledFacts ==
    ASSUME NEW c, NEW r
    PROVE  LET t == FilledTfvars(c, r)
           IN  /\ t.run = r
               /\ t.machine = get_all_machine_addresses(c)
               /\ t.provisioning = get_all_provisioning_addresses(c)
               /\ t.vips = get_ingress_and_api_vips(c)
               /\ \A who \in Roles :
                    /\ t.macs[who] = generate_macs(c, r, who, 1)
                    /\ t.ips[who] = create_address_list(c, get_primary_machine_cidr(c), Starting(c, who), Count(c, who))
                    /\ t.secondary[who] = create_address_list(c, get_provisioning_cidr(c), Starting(c, who), Count(c, who))
  BY DEF FilledTfvars

LEMMA InterfacesOfData ==
    ASSUME NEW c \in Layouts, NEW r, NEW h \in 1 .. c.master + c.worker
    PROVE  LET host == generate_static_network_data_from_tf(FilledTfvars(c, r), c)[h]
           IN  /\ host.machine = InterfaceAddresses(get_all_machine_addresses(c), h - 1)
               /\ host.provisioning = InterfaceAddresses(get_all_provisioning_addresses(c), h - 1)
<1> DEFINE t == FilledTfvars(c, r)
<1>1. t.machine = get_all_machine_addresses(c) /\ t.provisioning = get_all_provisioning_addresses(c)
  BY FilledFacts
<1> HIDE DEF t
<1>2. generate_static_network_data_from_tf(t, c)[h]
        = prepare_host_static_network_data(t, c, RoleOf(c, h), PlaceOf(c, h), h - 1)
  BY DataAt
<1>3. /\ prepare_host_static_network_data(t, c, RoleOf(c, h), PlaceOf(c, h), h - 1).machine
           = InterfaceAddresses(t.machine, h - 1)
      /\ prepare_host_static_network_data(t, c, RoleOf(c, h), PlaceOf(c, h), h - 1).provisioning
           = InterfaceAddresses(t.provisioning, h - 1)
  BY DEF prepare_host_static_network_data
<1> QED
  BY <1>1, <1>2, <1>3 DEF t

\* The static data of the session.
LEMMA StaticFacts ==
    ASSUME AddrIInv, staticCfg # <<>>
    PROVE  \E r \in 1 .. run :
             /\ r \in Nat /\ layout \in Layouts
             /\ staticCfg = generate_static_network_data_from_tf(FilledTfvars(layout, r), layout)
             /\ Len(staticCfg) = layout.master + layout.worker
             /\ ~recreated => r = run
             /\ recreated /\ (prepared \/ apc = "vlan") => r < run
             /\ tfvars = FilledTfvars(layout, run)
<1>1. PICK r \in 1 .. run :
        /\ staticCfg = StaticData(r)
        /\ ~recreated => r = run
        /\ recreated /\ (prepared \/ apc = "vlan") => r < run
  BY DEF AddrIInv, DataIsOfRun
<1>2. layout \in Layouts /\ run \in Nat
  BY AddrAssumption DEF AddrIInv, AddrTypeOK
<1>3. tfvars = FilledTfvars(layout, run)
  BY <1>2 DEF AddrIInv, TfvarsAreFilled
<1>4. staticCfg = generate_static_network_data_from_tf(FilledTfvars(layout, r), layout)
  BY <1>1 DEF StaticData
<1>5. Len(staticCfg) = layout.master + layout.worker
  BY <1>2, <1>4, HostsOfData
<1> QED
  BY <1>1, <1>2, <1>3, <1>4, <1>5

LEMMA SubnetsConclusion == ASSUME AddrIInv PROVE SubnetsAreConfigured
<1> SUFFICES ASSUME NEW h \in 1 .. Len(staticCfg), staticCfg # <<>>
             PROVE  /\ ~V6First(layout) =>
                         {a[1] : a \in staticCfg[h].machine} = {tfvars.machine[i] : i \in 1 .. Len(tfvars.machine)}
                    /\ {a[1] : a \in staticCfg[h].provisioning} = {tfvars.provisioning[i] : i \in 1 .. Len(tfvars.provisioning)}
  <2>1. staticCfg = <<>> => 1 .. Len(staticCfg) = {}
    OBVIOUS
  <2> QED
    BY <2>1 DEF SubnetsAreConfigured
<1>1. PICK r \in 1 .. run :
             /\ r \in Nat /\ layout \in Layouts
             /\ staticCfg = generate_static_network_data_from_tf(FilledTfvars(layout, r), layout)
             /\ Len(staticCfg) = layout.master + layout.worker
             /\ tfvars = FilledTfvars(layout, run)
  BY StaticFacts
<1>2. /\ staticCfg[h].machine = InterfaceAddresses(get_all_machine_addresses(layout), h - 1)
      /\ staticCfg[h].provisioning = InterfaceAddresses(get_all_provisioning_addresses(layout), h - 1)
  BY <1>1, InterfacesOfData
<1>3. tfvars.machine = get_all_machine_addresses(layout) /\ tfvars.provisioning = get_all_provisioning_addresses(layout)
  BY <1>1, FilledFacts
<1>4. get_all_provisioning_addresses(layout) \in {<<"provisioning">>, <<"provisioning6">>, <<"provisioning", "provisioning6">>}
  BY <1>1, SubnetsOfLayout
<1>5. ~V6First(layout) => get_all_machine_addresses(layout) \in {<<"machine">>, <<"machine", "machine6">>}
  BY <1>1, SubnetsOfLayout
<1>6. ~V6First(layout) =>
        {a[1] : a \in staticCfg[h].machine} = {tfvars.machine[i] : i \in 1 .. Len(tfvars.machine)}
  <2> DEFINE ms == get_all_machine_addresses(layout)
             n == h - 1
  <2> HIDE DEF ms, n
  <2>1. ASSUME ~V6First(layout)
        PROVE  {a[1] : a \in InterfaceAddresses(ms, n)} = {ms[i] : i \in 1 .. Len(ms)}
    <3>1. ms \in SubnetLists
      BY <1>5, <2>1 DEF ms, SubnetLists
    <3> QED
      BY <3>1, InterfaceSubnets
  <2> QED
    BY <1>2, <1>3, <2>1 DEF ms, n
<1>7. {a[1] : a \in staticCfg[h].provisioning} = {tfvars.provisioning[i] : i \in 1 .. Len(tfvars.provisioning)}
  <2> DEFINE ms == get_all_provisioning_addresses(layout)
             n == h - 1
  <2> HIDE DEF ms, n
  <2>1. {a[1] : a \in InterfaceAddresses(ms, n)} = {ms[i] : i \in 1 .. Len(ms)}
    <3>1. ms \in SubnetLists
      BY <1>4 DEF ms, SubnetLists
    <3> QED
      BY <3>1, InterfaceSubnets
  <2> QED
    BY <1>2, <1>3, <2>1 DEF ms, n
<1> QED
  BY <1>6, <1>7

LEMMA ImageConclusion == ASSUME AddrIInv PROVE ImageMatchesMacs
<1> SUFFICES ASSUME apc = "started", layout.static, ~recreated
             PROVE  /\ \A who \in {"master", "worker"} : \A i \in 1 .. Len(tfvars.macs[who]) :
                         \E h \in 1 .. Len(image) : tfvars.macs[who][i] \in image[h].macs
                    /\ \A h1, h2 \in 1 .. Len(image) : h1 # h2 => image[h1].macs \cap image[h2].macs = {}
  BY DEF ImageMatchesMacs
<1>1. image = staticCfg /\ staticCfg # <<>>
  BY DEF AddrIInv, ImageIsData
<1>2. PICK r \in 1 .. run :
             /\ r \in Nat /\ layout \in Layouts
             /\ staticCfg = generate_static_network_data_from_tf(FilledTfvars(layout, r), layout)
             /\ Len(staticCfg) = layout.master + layout.worker
             /\ r = run
             /\ tfvars = FilledTfvars(layout, run)
  BY <1>1, StaticFacts
<1> DEFINE c == layout
<1>0. c.master \in Nat \ {0} /\ c.worker \in Nat /\ c.slaves \in Nat \ {0}
  BY <1>2, LayoutFacts
<1>3. \A h1, h2 \in 1 .. Len(image) : h1 # h2 => image[h1].macs \cap image[h2].macs = {}
  BY <1>1, <1>2, MacsOfData
<1>4. ASSUME NEW who \in {"master", "worker"}, NEW i \in 1 .. Len(tfvars.macs[who])
      PROVE  \E h \in 1 .. Len(image) : tfvars.macs[who][i] \in image[h].macs
  <2>1. who \in Roles /\ c[who] \in Nat /\ Count(c, who) = c[who]
    BY <1>2, LayoutFacts DEF Roles
  <2>2. tfvars.macs[who] = [j \in 1 .. c[who] * c.slaves |-> <<r, who, 1, j>>]
    BY <1>2, <2>1, FilledFacts DEF generate_macs
  <2>3. Len(tfvars.macs[who]) = c[who] * c.slaves
    <3>1. c[who] * c.slaves \in Nat
      BY <1>0, <2>1
    <3> QED
      BY <2>2, <3>1
  <2>4. i \in 1 .. c[who] * c.slaves /\ tfvars.macs[who][i] = <<r, who, 1, i>>
    BY <2>2, <2>3
  <2>5. PICK n \in 0 .. c[who] - 1 : i \in c.slaves * n + 1 .. c.slaves * (n + 1)
    BY <1>0, <2>1, <2>4, Slots
  <2> DEFINE h == IF who = "master" THEN n + 1 ELSE c.master + n + 1
  <2>6. h \in 1 .. c.master + c.worker /\ RoleOf(c, h) = who /\ PlaceOf(c, h) = n
    BY <1>0, <2>1 DEF RoleOf, PlaceOf
  <2> HIDE DEF h
  <2>7. image[h].macs = {<<r, who, nic, j>> : nic \in {1, 2}, j \in c.slaves * n + 1 .. c.slaves * (n + 1)}
    BY <1>1, <1>2, <2>6, MacsOfData
  <2>8. <<r, who, 1, i>> \in image[h].macs
    BY <2>5, <2>7
  <2> QED
    BY <1>1, <1>2, <2>4, <2>6, <2>8
<1> QED
  BY <1>3, <1>4

\* Whom an offset belongs to: the host, a lease, static data or a virtual address.
Lease(c, who, n) == Starting(c, who) + n - 1

LEMMA LeasesApart ==
    ASSUME NEW c \in Layouts, NEW who \in Roles, NEW n \in 1 .. c[who]
    PROVE  /\ Lease(c, who, n) \in 10 .. 29
           /\ \A w \in Roles : \A m \in 1 .. c[w] : Lease(c, w, m) = Lease(c, who, n) => w = who /\ m = n
<1>1. c.master \in Nat \ {0} /\ c.worker \in Nat /\ c.arbiter \in Nat /\ c.master + c.worker + c.arbiter <= 20
  BY LayoutFacts
<1>2. /\ Starting(c, "master") = 10 /\ Starting(c, "worker") = 10 + c.master
      /\ Starting(c, "arbiter") = 10 + c.master + c.worker
  BY DEF Starting
<1> QED
  BY <1>1, <1>2 DEF Lease, Roles

\* The owner of an address by its offset.
Owned(c, x) ==
    \/ x[1] = <<"host", 0>> /\ x[2][2] = 1
    \/ x[1] = <<"api", 0>> /\ x[2][2] = 100
    \/ x[1] = <<"ingress", 0>> /\ x[2][2] = 101
    \/ \E who \in Roles : \E n \in 1 .. c[who] : x[1] = <<who, n>> /\ x[2][2] = Lease(c, who, n)
    \/ \E n \in 1 .. c.master + c.worker : x[1] = <<"static", n>> /\ x[2][2] = 29 + n

LEMMA OwnersApart ==
    ASSUME NEW c \in Layouts, NEW x, NEW y, Owned(c, x), Owned(c, y), x[2] = y[2]
    PROVE  x[1] = y[1]
<1>0. c.master \in Nat \ {0} /\ c.worker \in Nat /\ c.master + c.worker <= 20
  BY LayoutFacts
<1> DEFINE off == x[2][2]
<1>1. off = y[2][2]
  OBVIOUS
<1>2. \A who \in Roles : \A n \in 1 .. c[who] : Lease(c, who, n) \in 10 .. 29
  BY LeasesApart
<1>3. \A n \in 1 .. c.master + c.worker : 29 + n \in 30 .. 49
  BY <1>0
<1> HIDE DEF off
<1>4. CASE off = 1
  BY <1>1, <1>2, <1>3, <1>4 DEF Owned, off
<1>5. CASE off = 100
  BY <1>1, <1>2, <1>3, <1>5 DEF Owned, off
<1>6. CASE off = 101
  BY <1>1, <1>2, <1>3, <1>6 DEF Owned, off
<1>7. CASE off \in 10 .. 29
  <2>1. \E who \in Roles : \E n \in 1 .. c[who] : x[1] = <<who, n>> /\ x[2][2] = Lease(c, who, n)
    BY <1>3, <1>7 DEF Owned, off
  <2>2. \E who \in Roles : \E n \in 1 .. c[who] : y[1] = <<who, n>> /\ y[2][2] = Lease(c, who, n)
    BY <1>1, <1>3, <1>7 DEF Owned
  <2> QED
    BY <2>1, <2>2, LeasesApart
<1>8. CASE off \in 30 .. 49
  <2>1. \E n \in 1 .. c.master + c.worker : x[1] = <<"static", n>> /\ x[2][2] = 29 + n
    BY <1>2, <1>8 DEF Owned, off
  <2>2. \E n \in 1 .. c.master + c.worker : y[1] = <<"static", n>> /\ y[2][2] = 29 + n
    BY <1>1, <1>2, <1>8 DEF Owned
  <2> QED
    BY <1>0, <2>1, <2>2
<1>9. off \in 10 .. 29 \/ off \in 30 .. 49 \/ off = 1 \/ off = 100 \/ off = 101
  BY <1>2, <1>3 DEF Owned, off
<1> QED
  BY <1>4, <1>5, <1>6, <1>7, <1>8, <1>9

LEMMA LeaseOwned ==
    ASSUME NEW c \in Layouts, NEW r, NEW who \in Roles, NEW n \in 1 .. Len(FilledTfvars(c, r).ips[who]),
           NEW a \in FilledTfvars(c, r).ips[who][n] \cup FilledTfvars(c, r).secondary[who][n]
    PROVE  n \in 1 .. c[who] /\ a[2] = Lease(c, who, n)
<1> DEFINE t == FilledTfvars(c, r)
<1>1. c[who] \in Nat /\ Count(c, who) = c[who]
  BY LayoutFacts
<1>2. /\ t.ips[who] = create_address_list(c, get_primary_machine_cidr(c), Starting(c, who), c[who])
      /\ t.secondary[who] = create_address_list(c, get_provisioning_cidr(c), Starting(c, who), c[who])
  BY <1>1, FilledFacts
<1>3. n \in 1 .. Len(t.ips[who]) /\ a \in t.ips[who][n] \cup t.secondary[who][n]
  OBVIOUS
<1> HIDE DEF t
<1>4. Len(t.ips[who]) = c[who]
  BY <1>1, <1>2 DEF create_address_list
<1>5. n \in 1 .. c[who]
  BY <1>3, <1>4
<1>6. ASSUME NEW cidr PROVE create_address_list(c, cidr, Starting(c, who), c[who])[n]
                              \subseteq {<<cidr, Starting(c, who) + n - 1>>}
  BY <1>5 DEF create_address_list
<1>7. a \in {<<get_primary_machine_cidr(c), Lease(c, who, n)>>, <<get_provisioning_cidr(c), Lease(c, who, n)>>}
  BY <1>2, <1>3, <1>6 DEF Lease
<1> QED
  BY <1>5, <1>7

LEMMA DistinctConclusion == ASSUME AddrIInv PROVE AddressesDistinct
<1> SUFFICES ASSUME run > 0, NEW x \in Handed(tfvars, staticCfg) PROVE Owned(layout, x)
  <2>1. layout \in Layouts
    BY DEF AddrIInv, AddrTypeOK
  <2> QED
    BY <2>1, OwnersApart DEF AddressesDistinct
<1> DEFINE t == tfvars
           c == layout
<1>0. layout \in Layouts /\ run \in Nat
  BY AddrAssumption DEF AddrIInv, AddrTypeOK
<1>1. tfvars = FilledTfvars(layout, run)
  BY <1>0 DEF AddrIInv, TfvarsAreFilled
<1> DEFINE A == {<<<<"host", 0>>, <<t.machine[i], 1>>>> : i \in 1 .. Len(t.machine)}
           B == {<<<<who, 0>>, t.vips[who][i]>> : who \in {"api", "ingress"}, i \in 1 .. Len(t.vips.api)}
           E(who, n) == {<<<<who, n>>, a>> : a \in t.ips[who][n] \cup t.secondary[who][n]}
           D(who) == UNION {E(who, n) : n \in 1 .. Len(t.ips[who])}
           C == UNION {D(who) : who \in Roles}
           G(n) == {<<<<"static", n>>, a>> : a \in staticCfg[n].machine \cup staticCfg[n].provisioning}
           F == UNION {G(n) : n \in 1 .. Len(staticCfg)}
<1>2. x \in A \/ x \in B \/ x \in C \/ x \in F
  <2>1. Handed(tfvars, staticCfg) = A \cup B \cup C \cup F
    BY DEF Handed
  <2> HIDE DEF A, B, C, F
  <2> QED
    BY <2>1
<1>3. CASE x \in A
  BY <1>3 DEF Owned
<1>4. CASE x \in B
  <2>1. PICK who \in {"api", "ingress"}, i \in 1 .. Len(t.vips.api) : x = <<<<who, 0>>, t.vips[who][i]>>
    BY <1>4
  <2>2. t.vips = get_ingress_and_api_vips(layout)
    BY <1>1, FilledFacts
  <2> DEFINE cidrs == IF c.v4 /\ c.v6 THEN get_all_machine_addresses(c) ELSE <<get_primary_machine_cidr(c)>>
  <2>3. /\ t.vips.api = [j \in 1 .. Len(cidrs) |-> <<cidrs[j], 100>>]
        /\ t.vips.ingress = [j \in 1 .. Len(cidrs) |-> <<cidrs[j], 101>>]
    BY <2>2 DEF get_ingress_and_api_vips
  <2>4. Len(cidrs) \in {1, 2}
    BY <1>0, SubnetsOfLayout
  <2> HIDE DEF cidrs
  <2>5. Len(t.vips.api) = Len(cidrs)
    BY <2>3, <2>4
  <2>6. t.vips.api[i] = <<cidrs[i], 100>> /\ t.vips.ingress[i] = <<cidrs[i], 101>>
    BY <2>3, <2>5
  <2> QED
    BY <2>1, <2>6 DEF Owned
<1>5. CASE x \in C
  <2>1. PICK who \in Roles : x \in D(who)
    BY <1>5
  <2>2. PICK n \in 1 .. Len(t.ips[who]) : x \in E(who, n)
    BY <2>1
  <2>3. PICK a \in t.ips[who][n] \cup t.secondary[who][n] : x = <<<<who, n>>, a>>
    BY <2>2
  <2>4. n \in 1 .. c[who] /\ a[2] = Lease(c, who, n)
    BY <1>0, <1>1, LeaseOwned
  <2> QED
    BY <2>3, <2>4 DEF Owned
<1>6. CASE x \in F
  <2>1. PICK n \in 1 .. Len(staticCfg) : x \in G(n)
    BY <1>6
  <2>2. PICK a \in staticCfg[n].machine \cup staticCfg[n].provisioning : x = <<<<"static", n>>, a>>
    BY <2>1
  <2>3. staticCfg # <<>>
    OBVIOUS
  <2>4. PICK r \in 1 .. run :
             /\ staticCfg = generate_static_network_data_from_tf(FilledTfvars(layout, r), layout)
             /\ Len(staticCfg) = layout.master + layout.worker
    BY <2>3, StaticFacts
  <2>5. n \in 1 .. c.master + c.worker
    BY <2>4
  <2>6. /\ staticCfg[n].machine = InterfaceAddresses(get_all_machine_addresses(c), n - 1)
        /\ staticCfg[n].provisioning = InterfaceAddresses(get_all_provisioning_addresses(c), n - 1)
    BY <1>0, <2>4, <2>5, InterfacesOfData
  <2>7. ASSUME NEW cidrs, NEW b \in InterfaceAddresses(cidrs, n - 1) PROVE b[2] = 30 + (n - 1)
    BY <2>7 DEF InterfaceAddresses
  <2>8. a[2] = 30 + (n - 1)
    BY <2>6, <2>7
  <2>9. 30 + (n - 1) = 29 + n
    BY <2>5, <1>0, LayoutFacts
  <2> QED
    BY <2>2, <2>5, <2>8, <2>9 DEF Owned
<1> QED
  BY <1>2, <1>3, <1>4, <1>5, <1>6

LEMMA AddrInitHolds == AddrInit => AddrIInv
<1> SUFFICES ASSUME AddrInit PROVE AddrIInv
  OBVIOUS
<1>1. MaxPrepares \in Nat /\ 0 \in 0 .. MaxPrepares
  BY AddrAssumption
<1>2. AddrTypeOK
  <2>1. Len(staticCfg) = 0 /\ came \in Seq({"right", "wrong", "none"}) /\ run \in 0 .. MaxPrepares
    BY <1>1 DEF AddrInit
  <2>2. prepared \in BOOLEAN /\ recreated \in BOOLEAN
    BY DEF AddrInit
  <2> QED
    BY <2>1, <2>2 DEF AddrInit, AddrTypeOK
<1>3. TfvarsAreFilled /\ DataIsOfRun
  BY DEF AddrInit, TfvarsAreFilled, DataIsOfRun
<1>4. ImageIsData
  BY DEF AddrInit, ImageIsData
<1>5. ValidatedNodesAreOurs /\ HostKeepsAddresses
  BY DEF AddrInit, ValidatedNodesAreOurs, HostKeepsAddresses
<1> QED
  BY <1>2, <1>3, <1>4, <1>5 DEF AddrIInv

\* The types of the variables, and what the invariant says of the nodes.
LEMMA AddrFacts ==
    ASSUME AddrIInv
    PROVE  /\ layout \in Layouts /\ layout.static \in BOOLEAN /\ layout.vlan \in BOOLEAN
           /\ MaxPrepares \in Nat /\ run \in 0 .. MaxPrepares /\ run \in Nat
           /\ prepared \in BOOLEAN /\ recreated \in BOOLEAN
  BY AddrAssumption DEF AddrIInv, AddrTypeOK

\* Steps that change only where the entity is.
LEMMA StepKeepsData ==
    ASSUME AddrIInv, UNCHANGED <<layout, tfvars, prepared, run, staticCfg, image, bridge, vlan, moving, recreated>>,
           apc' \in {"idle", "create", "image", "started", "registered", "validated", "failed"},
           apc' # "vlan", came' \in Seq({"right", "wrong", "none"}),
           layout.static /\ apc' = "image" => prepared,
           layout.static /\ apc' \in {"started", "registered", "validated", "failed"} =>
             prepared /\ image = staticCfg /\ staticCfg # <<>>,
           ValidatedNodesAreOurs'
    PROVE  AddrIInv'
<1>1. AddrTypeOK'
  BY DEF AddrIInv, AddrTypeOK
<1>2. TfvarsAreFilled'
  BY DEF AddrIInv, TfvarsAreFilled
<1>3. DataIsOfRun'
  BY DEF AddrIInv, DataIsOfRun, StaticData
<1>4. ImageIsData'
  BY DEF AddrIInv, ImageIsData
<1>5. HostKeepsAddresses'
  BY DEF AddrIInv, HostKeepsAddresses
<1> QED
  BY <1>1, <1>2, <1>3, <1>4, <1>5 DEF AddrIInv

\* Hosts whose hardware addresses are found are the nodes of the last run.
LEMMA FoundAreOurs ==
    ASSUME AddrIInv, layout.static, staticCfg # <<>>, prepared,
           \A h \in 1 .. Len(staticCfg) : Present(staticCfg[h].macs)
    PROVE  ~recreated /\ \A h \in 1 .. Len(staticCfg) : came[h] # "none"
<1>1. PICK r \in 1 .. run :
             /\ r \in Nat /\ layout \in Layouts
             /\ staticCfg = generate_static_network_data_from_tf(FilledTfvars(layout, r), layout)
             /\ Len(staticCfg) = layout.master + layout.worker
             /\ recreated /\ (prepared \/ apc = "vlan") => r < run
             /\ tfvars = FilledTfvars(layout, run)
  BY StaticFacts
<1>2. tfvars.run = run /\ run \in Nat
  BY <1>1, FilledFacts, AddrFacts
<1>3. \A h \in 1 .. Len(staticCfg) :
        /\ staticCfg[h].macs # {}
        /\ \A m \in staticCfg[h].macs : m[1] = r
        /\ \A g \in 1 .. Len(staticCfg) : staticCfg[h].macs \cap staticCfg[g].macs # {} => g = h
  <2> DEFINE data == generate_static_network_data_from_tf(FilledTfvars(layout, r), layout)
  <2>1. \A h \in 1 .. layout.master + layout.worker :
          /\ data[h].macs # {}
          /\ \A m \in data[h].macs : m[1] = r
          /\ \A g \in 1 .. layout.master + layout.worker : data[h].macs \cap data[g].macs # {} => g = h
    BY <1>1, MacsOfData
  <2> HIDE DEF data
  <2>2. staticCfg = data /\ Len(staticCfg) = layout.master + layout.worker
    BY <1>1 DEF data
  <2> QED
    BY <2>1, <2>2
<1>4. ASSUME NEW h \in 1 .. Len(staticCfg) PROVE came[h] # "none" /\ r = run
  <2>1. PICK g \in 1 .. Len(staticCfg) :
          came[g] # "none" /\ staticCfg[g].macs = staticCfg[h].macs /\ \A m \in staticCfg[h].macs : m[1] = tfvars.run
    BY DEF Present
  <2>2. g = h
    BY <1>3, <2>1
  <2>3. PICK m : m \in staticCfg[h].macs
    BY <1>3
  <2> QED
    BY <1>2, <1>3, <2>1, <2>2, <2>3
<1>5. 1 \in 1 .. Len(staticCfg)
  BY <1>1, LayoutFacts
<1> QED
  BY <1>1, <1>2, <1>4, <1>5

LEMMA AddrStep == AddrIInv /\ [AddrNext]_addrVars => AddrIInv'
<1> SUFFICES ASSUME AddrIInv, [AddrNext]_addrVars PROVE AddrIInv'
  OBVIOUS
<1>0. /\ layout \in Layouts /\ layout.static \in BOOLEAN /\ layout.vlan \in BOOLEAN
      /\ MaxPrepares \in Nat /\ run \in 0 .. MaxPrepares /\ run \in Nat
      /\ prepared \in BOOLEAN /\ recreated \in BOOLEAN
  BY AddrFacts
<1>a. came \in Seq({"right", "wrong", "none"})
  BY DEF AddrIInv, AddrTypeOK
<1>b. ImageIsData /\ DataIsOfRun /\ AddrTypeOK /\ TfvarsAreFilled /\ HostKeepsAddresses
  BY DEF AddrIInv
<1>1. CASE addr_prepare_nodes
  <2>1. /\ UNCHANGED <<layout, tfvars, prepared, run, staticCfg, image, bridge, vlan, moving, came, recreated>>
        /\ apc' \in {"create", "image"} /\ (layout.static => apc' = "create")
    BY <1>1 DEF addr_prepare_nodes
  <2>2. ValidatedNodesAreOurs'
    BY <2>1 DEF ValidatedNodesAreOurs
  <2> QED
    BY <1>a, <2>1, <2>2, StepKeepsData
<1>2. CASE fill_tfvars /\ prepared
  <2>1. /\ UNCHANGED <<layout, tfvars, prepared, run, staticCfg, image, bridge, vlan, moving, came, recreated>>
        /\ apc' = IF layout.static THEN "image" ELSE "started"
    BY <1>2 DEF fill_tfvars
  <2>2. ValidatedNodesAreOurs'
    BY <2>1 DEF ValidatedNodesAreOurs
  <2> QED
    BY <1>2, <1>a, <2>1, <2>2, StepKeepsData
<1>3. CASE fill_tfvars /\ ~prepared
  <2>1. /\ apc = "create" /\ run < MaxPrepares /\ run' = run + 1 /\ tfvars' = FilledTfvars(layout, run + 1)
        /\ bridge' = HostAddresses(layout)
        /\ UNCHANGED <<layout, staticCfg, image, vlan, came, recreated>>
    BY <1>3 DEF fill_tfvars
  <2>2. \/ apc' = "vlan" /\ moving' = bridge' /\ prepared' = prepared
        \/ apc' \in {"image", "started"} /\ (layout.static => apc' = "image") /\ prepared' = TRUE /\ moving' = moving
    BY <1>3 DEF fill_tfvars
  <2>3. AddrTypeOK'
    <3>1. run' \in 0 .. MaxPrepares
      BY <1>0, <2>1
    <3>2. prepared' \in BOOLEAN
      BY <1>0, <2>2
    <3>3. moving' \subseteq HostAddresses(layout)
      BY <1>b, <2>1, <2>2 DEF AddrTypeOK
    <3> QED
      BY <1>b, <2>1, <2>2, <3>1, <3>2, <3>3 DEF AddrTypeOK
  <2>4. TfvarsAreFilled'
    BY <1>0, <2>1 DEF TfvarsAreFilled
  <2>5. DataIsOfRun'
    <3> SUFFICES ASSUME staticCfg' # <<>>
                 PROVE  \E r \in 1 .. run' : /\ staticCfg' = StaticData(r)'
                                             /\ ~recreated' => r = run' /\ prepared'
                                             /\ recreated' /\ (prepared' \/ apc' = "vlan") => r < run'
      BY DEF DataIsOfRun
    <3>1. PICK r \in 1 .. run : staticCfg = StaticData(r) /\ (~recreated => prepared)
      BY <1>b, <2>1 DEF DataIsOfRun
    <3>2. recreated' /\ r \in 1 .. run' /\ r < run'
      BY <1>0, <1>3, <2>1, <3>1
    <3>3. staticCfg' = StaticData(r)'
      BY <2>1, <3>1 DEF StaticData
    <3> QED
      BY <3>2, <3>3
  <2>6. ImageIsData'
    <3>1. run' > 0
      BY <1>0, <2>1
    <3>2. apc' = "vlan" \/ (prepared' /\ (layout'.static => apc' = "image"))
      BY <2>1, <2>2
    <3> QED
      BY <1>b, <2>1, <3>1, <3>2 DEF ImageIsData
  <2>7. ValidatedNodesAreOurs'
    BY <2>2 DEF ValidatedNodesAreOurs
  <2>8. HostKeepsAddresses'
    <3>1. bridge' \cup vlan' = HostAddresses(layout')
      BY <1>b, <2>1 DEF AddrTypeOK
    <3> QED
      BY <3>1 DEF HostKeepsAddresses
  <2> QED
    BY <2>3, <2>4, <2>5, <2>6, <2>7, <2>8 DEF AddrIInv
<1>4. CASE move_address
  <2>1. /\ apc = "vlan" /\ UNCHANGED <<layout, tfvars, run, staticCfg, image, came, recreated>>
        /\ bridge \cup vlan = HostAddresses(layout) /\ run > 0
    BY <1>4, <1>b DEF move_address, HostKeepsAddresses, ImageIsData
  <2>2. /\ moving' \subseteq HostAddresses(layout)
        /\ bridge' \cup vlan' = HostAddresses(layout)
        /\ \/ apc' = apc /\ prepared' = prepared
           \/ apc' \in {"image", "started"} /\ (layout.static => apc' = "image") /\ prepared' = TRUE
    <3>1. CASE \E a \in moving :
                 /\ moving' = moving \ {a}
                 /\ \/ UNCHANGED <<bridge, vlan>>
                    \/ vlan' = vlan \cup {a} /\ UNCHANGED bridge
                    \/ vlan' = vlan \cup {a} /\ bridge' = bridge \ {a}
                 /\ UNCHANGED <<apc, prepared>>
      <4>1. PICK a \in moving :
              /\ moving' = moving \ {a}
              /\ \/ UNCHANGED <<bridge, vlan>>
                 \/ vlan' = vlan \cup {a} /\ UNCHANGED bridge
                 \/ vlan' = vlan \cup {a} /\ bridge' = bridge \ {a}
        BY <3>1
      <4>2. a \in HostAddresses(layout) /\ moving \subseteq HostAddresses(layout)
        BY <1>b DEF AddrTypeOK
      <4>3. bridge' \cup vlan' = HostAddresses(layout)
        BY <2>1, <4>1, <4>2
      <4> QED
        BY <3>1, <4>1, <4>2, <4>3
    <3>2. CASE /\ moving = {} /\ prepared' = TRUE
               /\ apc' = IF layout.static THEN "image" ELSE "started"
               /\ UNCHANGED <<bridge, vlan, moving>>
      BY <2>1, <3>2
    <3> QED
      BY <1>4, <3>1, <3>2 DEF move_address
  <2>3. AddrTypeOK'
    <3>1. prepared' \in BOOLEAN /\ bridge' \subseteq HostAddresses(layout) /\ vlan' \subseteq HostAddresses(layout)
      BY <1>0, <2>2
    <3> QED
      BY <1>b, <2>1, <2>2, <3>1 DEF AddrTypeOK
  <2>4. TfvarsAreFilled'
    BY <1>b, <2>1 DEF TfvarsAreFilled
  <2>5. DataIsOfRun'
    BY <1>b, <2>1, <2>2 DEF DataIsOfRun, StaticData
  <2>6. ImageIsData'
    BY <1>b, <2>1, <2>2 DEF ImageIsData
  <2>7. ValidatedNodesAreOurs' /\ HostKeepsAddresses'
    BY <2>1, <2>2 DEF ValidatedNodesAreOurs, HostKeepsAddresses
  <2> QED
    BY <2>3, <2>4, <2>5, <2>6, <2>7 DEF AddrIInv
<1>5. CASE download_image
  <2>1. /\ apc = "image" /\ UNCHANGED <<layout, tfvars, prepared, run, bridge, vlan, moving, came>>
        /\ apc' \in {"started", "create"} /\ (layout.static => apc' = "started")
        /\ image' = IF layout.static THEN staticCfg' ELSE <<>>
    BY <1>5 DEF download_image
  <2>2. CASE layout.static /\ staticCfg = <<>>
    <3>1. prepared /\ run > 0
      BY <1>b, <2>1, <2>2 DEF ImageIsData
    <3>2. staticCfg' = generate_static_network_data_from_tf(tfvars, layout) /\ recreated' = FALSE /\ image' = staticCfg'
      BY <1>5, <2>1, <2>2 DEF download_image, Generate
    <3>3. staticCfg' = StaticData(run)' /\ run \in 1 .. run
      BY <1>0, <1>b, <2>1, <3>1, <3>2 DEF TfvarsAreFilled, StaticData
    <3>4. Len(staticCfg') = layout.master + layout.worker /\ staticCfg' # <<>>
      BY <1>0, <3>2, HostsOfData
    <3>5. AddrTypeOK'
      BY <1>b, <2>1, <3>2, <3>4 DEF AddrTypeOK
    <3>6. TfvarsAreFilled'
      BY <1>b, <2>1 DEF TfvarsAreFilled
    <3>7. DataIsOfRun'
      BY <2>1, <3>1, <3>2, <3>3 DEF DataIsOfRun
    <3>8. ImageIsData'
      BY <2>1, <2>2, <3>1, <3>2, <3>4 DEF ImageIsData
    <3>9. ValidatedNodesAreOurs' /\ HostKeepsAddresses'
      BY <1>b, <2>1 DEF ValidatedNodesAreOurs, HostKeepsAddresses
    <3> QED
      BY <3>5, <3>6, <3>7, <3>8, <3>9 DEF AddrIInv
  <2>3. CASE ~(layout.static /\ staticCfg = <<>>)
    <3>1. UNCHANGED <<staticCfg, recreated>>
      BY <1>5, <2>3 DEF download_image, Generate
    <3>2. AddrTypeOK' /\ TfvarsAreFilled'
      BY <1>b, <2>1, <3>1 DEF AddrTypeOK, TfvarsAreFilled
    <3>3. DataIsOfRun'
      BY <1>b, <2>1, <3>1 DEF DataIsOfRun, StaticData
    <3>4. ImageIsData'
      BY <1>b, <2>1, <2>3, <3>1 DEF ImageIsData
    <3>5. ValidatedNodesAreOurs' /\ HostKeepsAddresses'
      BY <1>b, <2>1 DEF ValidatedNodesAreOurs, HostKeepsAddresses
    <3> QED
      BY <3>2, <3>3, <3>4, <3>5 DEF AddrIInv
  <2> QED
    BY <2>2, <2>3
<1>6. CASE hosts_register
  <2>1. /\ UNCHANGED <<layout, tfvars, prepared, run, staticCfg, image, bridge, vlan, moving, recreated>>
        /\ apc = "started" /\ apc' = "registered"
        /\ came' \in [1 .. Len(image) -> {"right", "wrong", "none"}]
    BY <1>6 DEF hosts_register
  <2>2. came' \in Seq({"right", "wrong", "none"})
    <3>1. Len(image) \in Nat
      <4>1. Len(<<>>) \in Nat
        OBVIOUS
      <4>2. Len(staticCfg) \in Nat
        BY <1>b, <1>0, LayoutFacts DEF AddrTypeOK
      <4> QED
        BY <1>b, <4>1, <4>2 DEF ImageIsData
    <3> QED
      BY <2>1, <3>1
  <2>3. ValidatedNodesAreOurs'
    BY <2>1 DEF ValidatedNodesAreOurs
  <2> QED
    BY <1>b, <2>1, <2>2, <2>3, StepKeepsData DEF ImageIsData
<1>7. CASE validate_static_ip
  <2>1. /\ UNCHANGED <<layout, tfvars, prepared, run, staticCfg, image, bridge, vlan, moving, came, recreated>>
        /\ apc = "registered" /\ apc' \in {"validated", "failed"}
        /\ apc' = "validated" =>
             \/ staticCfg = <<>>
             \/ layout.slaves > 1 \/ \A h \in 1 .. Len(staticCfg) : Present(staticCfg[h].macs)
    BY <1>7 DEF validate_static_ip
  <2>2. layout.static => prepared /\ image = staticCfg /\ staticCfg # <<>>
    BY <1>b, <2>1 DEF ImageIsData
  <2>3. ValidatedNodesAreOurs'
    <3> SUFFICES ASSUME apc' = "validated", layout'.static, layout'.slaves = 1
                 PROVE  ~recreated' /\ \A h \in 1 .. Len(staticCfg') : came'[h] # "none"
      BY DEF ValidatedNodesAreOurs
    <3>1. layout.static /\ ~(layout.slaves > 1)
      BY <2>1
    <3>2. \A h \in 1 .. Len(staticCfg) : Present(staticCfg[h].macs)
      BY <2>1, <2>2, <3>1
    <3>3. ~recreated /\ \A h \in 1 .. Len(staticCfg) : came[h] # "none"
      BY <2>2, <3>1, <3>2, FoundAreOurs
    <3> QED
      BY <2>1, <3>3
  <2> QED
    BY <1>a, <2>1, <2>2, <2>3, StepKeepsData
<1>8. CASE addr_destroy_all_nodes
  <2>1. /\ apc' = "idle" /\ prepared' = FALSE /\ bridge' = {} /\ vlan' = {} /\ moving' = {}
        /\ recreated' = (staticCfg # <<>>)
        /\ UNCHANGED <<layout, tfvars, run, staticCfg, image, came>>
    BY <1>8 DEF addr_destroy_all_nodes
  <2>2. AddrTypeOK' /\ TfvarsAreFilled'
    BY <1>b, <2>1 DEF AddrTypeOK, TfvarsAreFilled
  <2>3. DataIsOfRun'
    BY <1>b, <2>1 DEF DataIsOfRun, StaticData
  <2>4. ImageIsData'
    BY <1>b, <2>1 DEF ImageIsData
  <2>5. ValidatedNodesAreOurs' /\ HostKeepsAddresses'
    BY <2>1 DEF ValidatedNodesAreOurs, HostKeepsAddresses
  <2> QED
    BY <2>2, <2>3, <2>4, <2>5 DEF AddrIInv
<1>9. CASE addr_again
  <2>1. /\ UNCHANGED <<layout, tfvars, prepared, run, staticCfg, image, bridge, vlan, moving, came, recreated>>
        /\ apc' = "idle"
    BY <1>9 DEF addr_again
  <2>2. ValidatedNodesAreOurs'
    BY <2>1 DEF ValidatedNodesAreOurs
  <2> QED
    BY <1>a, <2>1, <2>2, StepKeepsData
<1>10. CASE UNCHANGED addrVars
  <2>1. AddrTypeOK' /\ TfvarsAreFilled' /\ DataIsOfRun'
    BY <1>b, <1>10 DEF addrVars, AddrTypeOK, TfvarsAreFilled, DataIsOfRun, StaticData
  <2>2. ImageIsData' /\ ValidatedNodesAreOurs' /\ HostKeepsAddresses'
    BY <1>10 DEF addrVars, AddrIInv, ImageIsData, ValidatedNodesAreOurs, HostKeepsAddresses
  <2> QED
    BY <2>1, <2>2 DEF AddrIInv
<1> QED
  BY <1>1, <1>2, <1>3, <1>4, <1>5, <1>6, <1>7, <1>8, <1>9, <1>10 DEF AddrNext

-----------------------------------------------------------------------------
(***************************************************************************)
(* The preparation of a cluster.                                           *)
(***************************************************************************)
\* What the configuration of a cluster is.
LEMMA PrepFacts ==
    ASSUME NEW c \in PrepConfigs
    PROVE  /\ c.platform \in {"baremetal", "none", "external", "vsphere"} /\ c.lb \in {"cluster", "user"}
           /\ c.dhcp \in BOOLEAN /\ c.v4 \in BOOLEAN /\ c.v6 \in BOOLEAN /\ (c.v4 \/ c.v6)
           /\ c.primary \in {"ipv4", "ipv6"} /\ c.words \subseteq Roles
           /\ \A r \in Roles : c[r] \in Nat
           /\ c.master \in Nat \ {0} /\ c["master"] \in Nat \ {0}
           /\ c.lb = "user" => ~Sno(c) /\ ~c.dhcp /\ ~Unmanaged(c)
  BY PrepAssumption DEF Roles

LEMMA HostsAreFinite ==
    ASSUME NEW c \in PrepConfigs
    PROVE  IsFiniteSet(PrepHosts(c)) /\ Cardinality(PrepHosts(c)) \in Nat
<1>1. \A r \in Roles : c[r] \in Nat
  BY PrepFacts
<1> DEFINE most == c["master"] + c["worker"] + c["arbiter"]
<1>2. most \in Nat /\ \A r \in Roles : c[r] <= most
  BY <1>1 DEF Roles
<1>3. PrepHosts(c) \subseteq Roles \X (1 .. most)
  <2> SUFFICES ASSUME NEW h \in PrepHosts(c) PROVE h \in Roles \X (1 .. most)
    OBVIOUS
  <2>1. PICK r \in Roles : h \in {<<r, i>> : i \in 1 .. c[r]}
    BY DEF PrepHosts
  <2>2. PICK i \in 1 .. c[r] : h = <<r, i>>
    BY <2>1
  <2>3. i \in 1 .. most
    BY <1>1, <1>2
  <2> QED
    BY <2>2, <2>3
<1>4. IsFiniteSet(Roles)
  <2>1. Roles = {"master"} \cup {"worker"} \cup {"arbiter"}
    BY DEF Roles
  <2>2. IsFiniteSet({"master"}) /\ IsFiniteSet({"worker"}) /\ IsFiniteSet({"arbiter"})
    BY FS_Singleton
  <2>3. IsFiniteSet({"master"} \cup {"worker"})
    BY <2>2, FS_Union
  <2>4. IsFiniteSet({"master"} \cup {"worker"} \cup {"arbiter"})
    BY <2>2, <2>3, FS_Union
  <2> QED
    BY <2>1, <2>4
<1> HIDE DEF most
<1>5. IsFiniteSet(1 .. most)
  BY <1>2, FS_Interval
<1>6. IsFiniteSet(Roles \X (1 .. most))
  BY <1>4, <1>5, FS_Product
<1> QED
  BY <1>3, <1>6, FS_Subset, FS_CardinalityType

LEMMA HostShape ==
    ASSUME NEW c \in PrepConfigs, NEW h \in PrepHosts(c)
    PROVE  h[1] \in Roles /\ h[2] \in 1 .. c[h[1]] /\ h = <<h[1], h[2]>>
<1>1. PICK r \in Roles : h \in {<<r, i>> : i \in 1 .. c[r]}
  BY DEF PrepHosts
<1>2. PICK i \in 1 .. c[r] : h = <<r, i>>
  BY <1>1
<1> QED
  BY <1>2

LEMMA IntervalFromOne == ASSUME NEW n \in Nat PROVE IsFiniteSet(1 .. n) /\ Cardinality(1 .. n) = n
<1>1. 1 \in Int /\ n \in Int
  OBVIOUS
<1>2. IsFiniteSet(1 .. n) /\ Cardinality(1 .. n) = IF 1 > n THEN 0 ELSE n - 1 + 1
  BY <1>1, FS_Interval
<1> QED
  BY <1>2

\* A role that the name of the cluster does not contain is matched by the hosts
\* of that role, and by all of them.
LEMMA MatchingIsRole ==
    ASSUME PrepTypeOK, NEW order \in Orders(PrepHosts(prep)), NEW r \in Roles, r \notin prep.words,
           NEW h \in PrepHosts(prep)
    PROVE  /\ h \in Matching(order, r) => h[1] = r
           /\ (\E k \in DOMAIN order : order[k] = h) /\ h[1] = r => h \in Matching(order, r)
<1> DEFINE named == {k \in DOMAIN order : r \in {order[k][1]} \cup prep.words}
           hosts == PrepHosts(prep)
           sooner(k) == {j \in named : j < k}
<1>0. prep \in PrepConfigs /\ prep[r] \in Nat
  BY PrepFacts DEF PrepTypeOK
<1>1. Cardinality(hosts) \in Nat
  BY <1>0, HostsAreFinite
<1>2. /\ DOMAIN order = 1 .. Cardinality(hosts) /\ \A k \in DOMAIN order : order[k] \in hosts
      /\ \A i, j \in DOMAIN order : order[i] = order[j] => i = j
  BY DEF Orders
<1>3. named = {k \in DOMAIN order : order[k][1] = r}
  OBVIOUS
<1>4. Matching(order, r) = {order[k] : k \in {i \in named : Cardinality(sooner(i)) < prep[r]}}
  BY DEF Matching
<1> HIDE DEF named, hosts
<1>5. h \in Matching(order, r) => h[1] = r
  BY <1>3, <1>4
<1>6. IsFiniteSet(named) /\ Cardinality(named) <= prep[r]
  <2> DEFINE f == [k \in named |-> order[k][2]]
  <2>1. \A k \in named : order[k][2] \in 1 .. prep[r] /\ order[k] = <<r, order[k][2]>>
    BY <1>0, <1>2, <1>3, HostShape DEF hosts
  <2>2. f \in [named -> 1 .. prep[r]]
    BY <2>1
  <2>3. \A i, j \in named : f[i] = f[j] => i = j
    BY <1>2, <1>3, <2>1
  <2>4. f \in Injection(named, 1 .. prep[r])
    <3> HIDE DEF f
    <3> QED
      BY <2>2, <2>3 DEF Injection, IsInjective
  <2>5. IsFiniteSet(1 .. prep[r]) /\ Cardinality(1 .. prep[r]) = prep[r]
    BY <1>0, IntervalFromOne
  <2> HIDE DEF f
  <2> QED
    BY <2>4, <2>5, FS_Injection
<1>7. ASSUME NEW k \in DOMAIN order, order[k] = h, h[1] = r PROVE h \in Matching(order, r)
  <2>1. k \in named /\ k \in Nat
    BY <1>1, <1>2, <1>3, <1>7
  <2>2. sooner(k) \in SUBSET named /\ k \notin sooner(k) /\ sooner(k) \cup {k} \in SUBSET named
    BY <2>1
  <2>3. IsFiniteSet(sooner(k)) /\ Cardinality(sooner(k) \cup {k}) = Cardinality(sooner(k)) + 1
    BY <1>6, <2>2, FS_Subset, FS_AddElement
  <2>4. Cardinality(sooner(k) \cup {k}) <= Cardinality(named)
    BY <1>6, <2>2, FS_Subset
  <2>5. Cardinality(sooner(k)) \in Nat /\ Cardinality(named) \in Nat
    BY <1>6, <2>3, FS_CardinalityType
  <2>6. Cardinality(sooner(k)) < prep[r]
    BY <1>0, <1>6, <2>3, <2>4, <2>5
  <2> QED
    BY <1>4, <1>7, <2>1, <2>6
<1> QED
  BY <1>5, <1>7

\* A list of all hosts has every host.
LEMMA EveryHostIsListed ==
    ASSUME PrepTypeOK, NEW order \in Orders(PrepHosts(prep)), NEW h \in PrepHosts(prep)
    PROVE  \E k \in DOMAIN order : order[k] = h
<1> DEFINE hosts == PrepHosts(prep)
           n == Cardinality(hosts)
<1>0. IsFiniteSet(hosts) /\ n \in Nat
  BY HostsAreFinite DEF PrepTypeOK
<1>1. order \in [1 .. n -> hosts] /\ \A i, j \in DOMAIN order : order[i] = order[j] => i = j
  BY DEF Orders
<1> HIDE DEF hosts
<1>2. order \in Injection(1 .. n, hosts)
  BY <1>1 DEF Injection, IsInjective
<1>3. Cardinality(1 .. n) = n
  BY <1>0, IntervalFromOne
<1>4. order \in Surjection(1 .. n, hosts)
  BY <1>0, <1>2, <1>3, FS_Injection
<1> QED
  BY <1>1, <1>4 DEF Surjection, hosts

\* The stack of a network.
LeadOf(net) == IF IsV6(net) THEN "ipv6" ELSE "ipv4"

\* The virtual addresses that the controller gives.
LEMMA ControllerFacts ==
    ASSUME NEW c \in PrepConfigs
    PROVE  /\ Len(ControllerVips(c)) \in {1, 2} /\ DOMAIN ControllerVips(c) = 1 .. Len(ControllerVips(c))
           /\ Dual(c) => /\ Len(get_all_machine_addresses(c)) = 2
                         /\ LeadOf(get_all_machine_addresses(c)[1]) = c.primary
                         /\ Len(ControllerVips(c)) = 2
                         /\ \A i \in 1 .. 2 : ControllerVips(c)[i] = <<get_all_machine_addresses(c)[i], 100>>
           /\ ~Dual(c) => Len(ControllerVips(c)) = 1 /\ ControllerVips(c)[1] = <<get_primary_machine_cidr(c), 100>>
           /\ Dual(c) => LeadOf(get_primary_machine_cidr(c)) = c.primary
<1>0. c.v4 \in BOOLEAN /\ c.v6 \in BOOLEAN /\ (c.v4 \/ c.v6) /\ c.primary \in {"ipv4", "ipv6"}
  BY PrepFacts
<1> DEFINE cidrs == IF c.v4 /\ c.v6 THEN get_all_machine_addresses(c) ELSE <<get_primary_machine_cidr(c)>>
<1>1. ControllerVips(c) = [i \in 1 .. Len(cidrs) |-> <<cidrs[i], 100>>]
  BY DEF ControllerVips, get_ingress_and_api_vips
<1>2. ASSUME Dual(c)
      PROVE  /\ cidrs = get_all_machine_addresses(c) /\ Len(cidrs) = 2
             /\ LeadOf(cidrs[1]) = c.primary /\ LeadOf(get_primary_machine_cidr(c)) = c.primary
  <2>1. c.v4 /\ c.v6 /\ (V6First(c) <=> c.primary = "ipv6")
    BY <1>2 DEF Dual, V6First
  <2>2. cidrs = IF V6First(c) THEN <<"machine6", "machine">> ELSE <<"machine", "machine6">>
    <3>1. cidrs = get_all_machine_addresses(c)
      BY <2>1
    <3>2. c.v6 /\ c.v4 => get_all_machine_addresses(c)
                             = IF V6First(c) THEN <<"machine6", "machine">> ELSE <<"machine", "machine6">>
      <4>1. HasStack(c)
        BY <1>0 DEF HasStack
      <4> QED
        BY <4>1, StackSubnets
    <3> HIDE DEF cidrs
    <3> QED
      BY <2>1, <3>1, <3>2, Zenon
  <2>3. CASE V6First(c)
    <3>1. cidrs = <<"machine6", "machine">>
      BY <2>2, <2>3
    <3>2. get_primary_machine_cidr(c) = "machine6"
      BY <2>3 DEF get_primary_machine_cidr
    <3>3. cidrs = get_all_machine_addresses(c)
      BY <2>1
    <3> HIDE DEF cidrs
    <3>4. Len(cidrs) = 2 /\ cidrs[1] = "machine6"
      BY <3>1
    <3> QED
      BY <2>1, <2>3, <3>2, <3>3, <3>4 DEF LeadOf, IsV6
  <2>4. CASE ~V6First(c)
    <3>1. cidrs = <<"machine", "machine6">>
      BY <2>2, <2>4
    <3>2. get_primary_machine_cidr(c) = "machine" /\ c.primary = "ipv4"
      BY <1>0, <2>1, <2>4 DEF get_primary_machine_cidr
    <3>3. cidrs = get_all_machine_addresses(c)
      BY <2>1
    <3> HIDE DEF cidrs
    <3>4. Len(cidrs) = 2 /\ cidrs[1] = "machine"
      BY <3>1
    <3> QED
      BY <3>2, <3>3, <3>4 DEF LeadOf, IsV6
  <2> QED
    BY <2>3, <2>4
<1>3. ASSUME ~Dual(c) PROVE Len(cidrs) = 1 /\ cidrs[1] = get_primary_machine_cidr(c)
  BY <1>3 DEF Dual
<1> HIDE DEF cidrs
<1>4. Len(cidrs) \in Nat /\ Len(cidrs) \in {1, 2}
  BY <1>2, <1>3
<1>5. Len(ControllerVips(c)) = Len(cidrs) /\ DOMAIN ControllerVips(c) = 1 .. Len(cidrs)
  BY <1>1, <1>4
<1>6. \A i \in 1 .. Len(cidrs) : ControllerVips(c)[i] = <<cidrs[i], 100>>
  BY <1>1
<1>7. ASSUME Dual(c)
      PROVE  /\ Len(get_all_machine_addresses(c)) = 2 /\ LeadOf(get_all_machine_addresses(c)[1]) = c.primary
             /\ Len(ControllerVips(c)) = 2
             /\ \A i \in 1 .. 2 : ControllerVips(c)[i] = <<get_all_machine_addresses(c)[i], 100>>
             /\ LeadOf(get_primary_machine_cidr(c)) = c.primary
  BY <1>2, <1>5, <1>6, <1>7
<1>8. ASSUME ~Dual(c)
      PROVE  Len(ControllerVips(c)) = 1 /\ ControllerVips(c)[1] = <<get_primary_machine_cidr(c), 100>>
  BY <1>3, <1>5, <1>6, <1>8
<1> QED
  BY <1>4, <1>5, <1>7, <1>8

\* What a request holds, and the addresses of a ready cluster.
LEMMA RequestFacts ==
    ASSUME NEW c \in PrepConfigs
    PROVE  /\ Len(PrimaryStackNetworks(c)) <= 2 /\ (Dual(c) => PrimaryStackNetworks(c)[1] = c.primary)
           /\ Len(RequestedVips(c)) <= 2 /\ Len(ReadyVips(c)) <= 2
           /\ ~Sno(c) /\ ~Unmanaged(c) => 1 \in DOMAIN ReadyVips(c)
           /\ UserBalanced(c) => ~Sno(c) /\ ReadyVips(c)[1] = LoadBalancerIp(c)
           /\ Unmanaged(c) => LoadBalancerIp(c) = <<get_primary_machine_cidr(c), 1>>
           /\ Dual(c) /\ ~UserBalanced(c) /\ 1 \in DOMAIN RequestedVips(c) => LeadOf(RequestedVips(c)[1][1]) = c.primary
           /\ Dual(c) /\ ~UserBalanced(c) /\ ~Sno(c) /\ ~Unmanaged(c) => LeadOf(ReadyVips(c)[1][1]) = c.primary
<1>0. /\ c.platform \in {"baremetal", "none", "external", "vsphere"} /\ c.lb \in {"cluster", "user"}
      /\ c.dhcp \in BOOLEAN /\ c.v4 \in BOOLEAN /\ c.v6 \in BOOLEAN /\ (c.v4 \/ c.v6)
      /\ c.primary \in {"ipv4", "ipv6"} /\ (c.lb = "user" => ~Sno(c) /\ ~c.dhcp /\ ~Unmanaged(c))
  BY PrepFacts
<1>1. Len(PrimaryStackNetworks(c)) <= 2 /\ (Dual(c) => PrimaryStackNetworks(c)[1] = c.primary)
  <2>1. CASE Dual(c) /\ c.primary = "ipv6"
    BY <2>1 DEF PrimaryStackNetworks
  <2>2. CASE Dual(c) /\ c.primary = "ipv4"
    BY <2>2 DEF PrimaryStackNetworks
  <2>3. CASE ~Dual(c)
    <3>1. PrimaryStackNetworks(c) = <<IF c.v4 THEN "ipv4" ELSE "ipv6">>
      BY <2>3 DEF PrimaryStackNetworks
    <3> QED
      BY <2>3, <3>1
  <2> QED
    BY <1>0, <2>1, <2>2, <2>3
<1>2. RequestedVips(c) = <<>> \/ RequestedVips(c) = <<LoadBalancerIp(c)>> \/ RequestedVips(c) = ControllerVips(c)
  BY DEF RequestedVips
<1>3. Len(RequestedVips(c)) <= 2
  <2>1. Len(<<>>) <= 2 /\ Len(<<LoadBalancerIp(c)>>) <= 2
    OBVIOUS
  <2>2. Len(ControllerVips(c)) \in {1, 2}
    BY ControllerFacts, Zenon
  <2>3. Len(ControllerVips(c)) <= 2
    <3> DEFINE n == Len(ControllerVips(c))
    <3>1. n \in {1, 2}
      BY <2>2
    <3> HIDE DEF n
    <3>2. n <= 2
      BY <3>1
    <3> QED
      BY <3>2 DEF n
  <2> QED
    BY <1>2, <2>1, <2>3
<1>4. Len(ReadyVips(c)) <= 2
  <2>1. CASE c.dhcp /\ ~Unmanaged(c) /\ ~Sno(c)
    BY <2>1 DEF ReadyVips
  <2>2. CASE ~(c.dhcp /\ ~Unmanaged(c) /\ ~Sno(c))
    BY <1>3, <2>2 DEF ReadyVips
  <2> QED
    BY <2>1, <2>2
<1>5. UserBalanced(c) => ~Sno(c) /\ ReadyVips(c) = <<LoadBalancerIp(c)>>
  BY <1>0 DEF UserBalanced, ReadyVips, RequestedVips
<1>6. Unmanaged(c) => LoadBalancerIp(c) = <<get_primary_machine_cidr(c), 1>>
  BY <1>0 DEF LoadBalancerIp
<1>7. ASSUME ~Sno(c), ~Unmanaged(c), ~UserBalanced(c)
      PROVE  \/ c.dhcp /\ ReadyVips(c) = <<<<RequestedNetworks(c)[1], 200>>>>
             \/ ~c.dhcp /\ ReadyVips(c) = ControllerVips(c)
  BY <1>0, <1>7 DEF ReadyVips, RequestedVips
<1>8. ~Sno(c) /\ ~Unmanaged(c) => 1 \in DOMAIN ReadyVips(c)
  <2>1. 1 \in DOMAIN ControllerVips(c)
    BY ControllerFacts
  <2>2. \A x : 1 \in DOMAIN <<x>>
    OBVIOUS
  <2> QED
    BY <1>5, <1>7, <2>1, <2>2
<1>9. ASSUME Dual(c) PROVE RequestedNetworks(c)[1] = get_all_machine_addresses(c)[1]
  BY <1>9 DEF RequestedNetworks
<1>10. ASSUME Dual(c) PROVE LeadOf(ControllerVips(c)[1][1]) = c.primary
  BY <1>10, ControllerFacts
<1>11. Dual(c) /\ ~UserBalanced(c) /\ 1 \in DOMAIN RequestedVips(c) => LeadOf(RequestedVips(c)[1][1]) = c.primary
  <2>1. ~UserBalanced(c) => RequestedVips(c) \in {<<>>, ControllerVips(c)}
    BY DEF RequestedVips
  <2>2. 1 \notin DOMAIN <<>>
    OBVIOUS
  <2> QED
    BY <1>10, <2>1, <2>2
<1>12. Dual(c) /\ ~UserBalanced(c) /\ ~Sno(c) /\ ~Unmanaged(c) => LeadOf(ReadyVips(c)[1][1]) = c.primary
  <2>1. ASSUME Dual(c) PROVE LeadOf(<<<<RequestedNetworks(c)[1], 200>>>>[1][1]) = c.primary
    <3>1. <<<<RequestedNetworks(c)[1], 200>>>>[1][1] = RequestedNetworks(c)[1]
      OBVIOUS
    <3> QED
      BY <1>9, <2>1, <3>1, ControllerFacts
  <2> QED
    BY <1>7, <1>10, <2>1
<1> QED
  <2>1. UserBalanced(c) => ~Sno(c) /\ ReadyVips(c)[1] = LoadBalancerIp(c)
    BY <1>5
  <2> QED
    BY <1>1, <1>3, <1>4, <1>6, <1>8, <1>11, <1>12, <2>1

\* The addresses of a role in the networks of the controller: one of every host
\* of the role, unless IPv6 is the first of two stacks.
LEMMA IpsOfRole ==
    ASSUME PrepTypeOK, NEW r, NEW h \in PrepHosts(prep), role[h] = r, ~(Dual(prep) /\ V6First(prep))
    PROVE  \E a \in IpsOf(r) : a[2] = h
<1> DEFINE a == <<NicNetwork(prep, "machine", TRUE), h>>
<1>0. prep.v4 \in BOOLEAN /\ prep.v6 \in BOOLEAN /\ (prep.v4 \/ prep.v6)
  BY PrepFacts DEF PrepTypeOK
<1>1. a \in get_ips_for_role(r)
  <2> DEFINE hosts == {x \in PrepHosts(prep) : role[x] = r}
             nics == {"machine", "provisioning"}
             net(nic) == NicNetwork(prep, nic, TRUE)
  <2>1. get_ips_for_role(r) = {<<net(nic), g>> : nic \in nics, g \in hosts}
    BY DEF get_ips_for_role
  <2>3. a = <<net("machine"), h>>
    OBVIOUS
  <2>2. h \in hosts /\ "machine" \in nics
    OBVIOUS
  <2> HIDE DEF hosts, nics, net, a
  <2> QED
    BY <2>1, <2>2, <2>3
<1>2. NicNetwork(prep, "machine", TRUE) = get_primary_machine_cidr(prep)
  <2>1. CASE prep.v4
    <3>1. ~V6First(prep)
      BY <2>1 DEF Dual, V6First
    <3> QED
      BY <2>1, <3>1 DEF NicNetwork, get_primary_machine_cidr
  <2>2. CASE ~prep.v4
    <3>1. V6First(prep)
      BY <1>0, <2>2 DEF V6First
    <3>2. V6Of["machine"] = "machine6"
      BY DEF V6Of
    <3> QED
      BY <2>2, <3>1, <3>2 DEF NicNetwork, get_primary_machine_cidr
  <2> QED
    BY <2>1, <2>2
<1>3. a[1] = get_primary_machine_cidr(prep) /\ a[2] = h
  BY <1>2
<1> HIDE DEF a
<1>4. a \in IpsOf(r)
  BY <1>1, <1>3 DEF IpsOf, IpsIn
<1> QED
  BY <1>3, <1>4

LEMMA IpsAreOfRole == ASSUME NEW r, NEW a \in IpsOf(r) PROVE a[2] \in PrepHosts(prep) /\ role[a[2]] = r
<1>1. a \in get_ips_for_role(r)
  BY DEF IpsOf, IpsIn
<1> DEFINE hosts == {x \in PrepHosts(prep) : role[x] = r}
           nics == {"machine", "provisioning"}
           net(nic) == NicNetwork(prep, nic, TRUE)
<1>2. get_ips_for_role(r) = {<<net(nic), g>> : nic \in nics, g \in hosts}
  BY DEF get_ips_for_role
<1>3. \A h \in hosts : h \in PrepHosts(prep) /\ role[h] = r
  OBVIOUS
<1> HIDE DEF hosts, nics, net
<1>4. PICK nic \in nics, h \in hosts : a = <<net(nic), h>>
  BY <1>1, <1>2
<1> QED
  BY <1>3, <1>4

LEMMA PrepInitHolds == PrepInit => PrepIInv
<1> SUFFICES ASSUME PrepInit PROVE PrepIInv
  OBVIOUS
<1>1. PrepTypeOK
  <2>1. role \in [PrepHosts(prep) -> Roles \cup {"auto-assign"}]
    BY DEF PrepInit
  <2>2. request.cluster = <<>> /\ request.vips = <<>>
    BY DEF PrepInit, NoRequest
  <2>3. Len(request.cluster) <= 2 /\ Len(request.vips) <= 2 /\ Len(vips) <= 2
    BY <2>2 DEF PrepInit
  <2> QED
    BY <2>1, <2>3 DEF PrepInit, PrepTypeOK
<1>2. RolesAreNodes /\ BalancerHasMasters
  BY DEF PrepInit, RolesAreNodes, BalancerHasMasters
<1>3. RequestIsMade /\ BalancerIsSet /\ RecordSoFar
  BY DEF PrepInit, RequestIsMade, BalancerIsSet, RecordSoFar
<1> QED
  BY <1>1, <1>2, <1>3 DEF PrepIInv

\* Steps that leave the roles, the load balancer and the configuration alone.
LEMMA RolesStay ==
    ASSUME PrepIInv, UNCHANGED <<prep, role, balancer>>, ppc # "discovered", ppc # "failed" \/ ppc' = "failed"
    PROVE  RolesAreNodes' /\ BalancerHasMasters'
  BY DEF PrepIInv, RolesAreNodes, BalancerHasMasters

\* The roles that the names give, after those that the nodes gave.
LEMMA AssignedKeepsRoles ==
    ASSUME PrepTypeOK, NEW order \in Orders(PrepHosts(prep)), prep.words \cap {"worker", "arbiter"} = {},
           \A h \in PrepHosts(prep) : role[h] = h[1]
    PROVE  \A h \in PrepHosts(prep) : Assigned(order)[h] = h[1]
<1> SUFFICES ASSUME NEW h \in PrepHosts(prep) PROVE Assigned(order)[h] = h[1]
  OBVIOUS
<1>0. DOMAIN role = PrepHosts(prep) /\ prep \in PrepConfigs
  BY DEF PrepTypeOK
<1>1. h[1] \in Roles
  BY <1>0, HostShape
<1>2. \E k \in DOMAIN order : order[k] = h
  BY EveryHostIsListed
<1>3. h \in Matching(order, "arbiter") <=> h[1] = "arbiter"
  BY <1>2, MatchingIsRole DEF Roles
<1>4. h \in Matching(order, "worker") <=> h[1] = "worker"
  BY <1>2, MatchingIsRole DEF Roles
<1>5. Assigned(order)[h] = IF h \in Matching(order, "arbiter") THEN "arbiter"
                            ELSE IF h \in Matching(order, "worker") THEN "worker"
                            ELSE IF h \in Matching(order, "master") THEN "master" ELSE role[h]
  BY <1>0 DEF Assigned
<1> QED
  BY <1>1, <1>3, <1>4, <1>5 DEF Roles

LEMMA PrepStep == PrepIInv /\ [PrepNext]_prepVars => PrepIInv'
<1> SUFFICES ASSUME PrepIInv, [PrepNext]_prepVars PROVE PrepIInv'
  OBVIOUS
<1>0. /\ PrepTypeOK /\ RolesAreNodes /\ BalancerHasMasters
      /\ RequestIsMade /\ BalancerIsSet /\ RecordSoFar
  BY DEF PrepIInv
<1>a. prep \in PrepConfigs
  BY <1>0 DEF PrepTypeOK
<1>b. <<>> \in {<<>>, OwnRecord(prep)}
  OBVIOUS
<1>1. CASE set_hostnames_and_roles
  <2>1. /\ UNCHANGED <<prep, networked, request, vips, balancer, record>>
        /\ ppc = "discovered" /\ ppc' \in {"nodes", "named"} /\ role' = [h \in PrepHosts(prep) |-> h[1]]
    BY <1>1 DEF set_hostnames_and_roles
  <2>2. role' \in [PrepHosts(prep) -> Roles \cup {"auto-assign"}]
    BY <1>a, <2>1, HostShape
  <2>3. PrepTypeOK'
    BY <1>0, <2>1, <2>2 DEF PrepTypeOK
  <2>4. RolesAreNodes' /\ BalancerHasMasters'
    BY <1>0, <2>1 DEF RolesAreNodes, BalancerHasMasters
  <2>5. RequestIsMade' /\ BalancerIsSet' /\ RecordSoFar'
    BY <1>0, <2>1 DEF RequestIsMade, BalancerIsSet, RecordSoFar
  <2> QED
    BY <2>3, <2>4, <2>5 DEF PrepIInv
<1>2. CASE set_host_roles
  <2>1. /\ UNCHANGED <<prep, networked, request, vips, balancer, record>>
        /\ ppc = "named" /\ ppc' = "nodes"
    BY <1>2 DEF set_host_roles
  <2>2. PICK order \in Orders(PrepHosts(prep)) : role' = Assigned(order)
    BY <1>2 DEF set_host_roles
  <2>3. role' \in [PrepHosts(prep) -> Roles \cup {"auto-assign"}]
    <3>1. role \in [PrepHosts(prep) -> Roles \cup {"auto-assign"}]
      BY <1>0 DEF PrepTypeOK
    <3> QED
      BY <2>2, <3>1 DEF Assigned, Roles
  <2>4. PrepTypeOK'
    BY <1>0, <2>1, <2>3 DEF PrepTypeOK
  <2>5. RolesAreNodes'
    <3> SUFFICES ASSUME prep.words \cap {"worker", "arbiter"} = {}
                 PROVE  \A h \in PrepHosts(prep) : role'[h] = h[1]
      BY <2>1 DEF RolesAreNodes
    <3>1. \A h \in PrepHosts(prep) : role[h] = h[1]
      BY <1>0, <2>1 DEF RolesAreNodes
    <3> QED
      BY <1>0, <2>2, <3>1, AssignedKeepsRoles
  <2>6. BalancerHasMasters'
    BY <1>0, <2>1 DEF BalancerHasMasters
  <2>7. RequestIsMade' /\ BalancerIsSet' /\ RecordSoFar'
    BY <1>0, <2>1 DEF RequestIsMade, BalancerIsSet, RecordSoFar
  <2> QED
    BY <2>4, <2>5, <2>6, <2>7 DEF PrepIInv
<1>3. CASE set_network_params
  <2>1. /\ UNCHANGED <<prep, role, networked, vips, balancer, record>> /\ ppc = "nodes"
        /\ \/ ppc' = "networks" /\ request' = RequestOf(prep)
           \/ ppc' = "failed" /\ request' = request
    BY <1>3 DEF set_network_params
  <2>2. PrepTypeOK'
    <3>1. RequestOf(prep).cluster = PrimaryStackNetworks(prep) /\ RequestOf(prep).vips = RequestedVips(prep)
      BY DEF RequestOf
    <3>2. Len(request'.cluster) <= 2 /\ Len(request'.vips) <= 2
      BY <1>0, <1>a, <2>1, <3>1, RequestFacts DEF PrepTypeOK
    <3> QED
      BY <1>0, <2>1, <3>2 DEF PrepTypeOK
  <2>3. RolesAreNodes' /\ BalancerHasMasters'
    BY <2>1, RolesStay
  <2>4. RequestIsMade' /\ BalancerIsSet' /\ RecordSoFar'
    BY <1>0, <2>1 DEF RequestIsMade, BalancerIsSet, RecordSoFar
  <2> QED
    BY <2>2, <2>3, <2>4 DEF PrepIInv
<1>4. CASE configure_load_balancer
  <2>1. /\ UNCHANGED <<prep, role, networked, request, vips>> /\ ppc = "networks"
        /\ Unmanaged(prep) \/ UserBalanced(prep)
        /\ \/ /\ balancer' = set_load_balancing_config(LoadBalancerIp(prep), IpsOf("master"), IpsOf("worker"))
              /\ record' = <<get_primary_machine_cidr(prep), 1>> /\ ppc' = "waiting"
           \/ ppc' = "failed" /\ UNCHANGED <<balancer, record>>
    BY <1>4 DEF configure_load_balancer
  <2>2. PrepTypeOK'
    BY <1>0, <2>1 DEF PrepTypeOK
  <2>3. CASE ppc' = "failed" /\ UNCHANGED <<balancer, record>>
    <3>1. RolesAreNodes' /\ BalancerHasMasters'
      BY <2>1, <2>3, RolesStay
    <3>2. RequestIsMade' /\ BalancerIsSet' /\ RecordSoFar'
      BY <1>0, <2>1, <2>3 DEF RequestIsMade, BalancerIsSet, RecordSoFar
    <3> QED
      BY <2>2, <3>1, <3>2 DEF PrepIInv
  <2>4. CASE /\ balancer' = set_load_balancing_config(LoadBalancerIp(prep), IpsOf("master"), IpsOf("worker"))
             /\ record' = <<get_primary_machine_cidr(prep), 1>> /\ ppc' = "waiting"
    <3>1. /\ balancer'.ip = LoadBalancerIp(prep) /\ balancer'.api = IpsOf("master")
          /\ balancer'.route = IF IpsOf("worker") # {} THEN IpsOf("worker") ELSE IpsOf("master")
      BY <2>4 DEF set_load_balancing_config
    <3>2. balancer' # NoBalancer
      <4>1. LoadBalancerIp(prep) # <<>> /\ NoBalancer.ip = <<>>
        BY DEF LoadBalancerIp, NoBalancer
      <4> QED
        BY <3>1, <4>1
    <3>3. RolesAreNodes'
      BY <1>0, <2>1, <2>4 DEF RolesAreNodes
    <3>4. BalancerHasMasters'
      <4> SUFFICES ASSUME ~(Dual(prep) /\ V6First(prep)), prep.words \cap {"worker", "arbiter"} = {}
                   PROVE  /\ \A h \in PrepHosts(prep) : h[1] = "master" => \E a \in balancer'.api : a[2] = h
                          /\ \A a \in balancer'.api : a[2][1] = "master"
                          /\ balancer'.route # {}
        BY <2>1 DEF BalancerHasMasters
      <4>1. \A h \in PrepHosts(prep) : role[h] = h[1]
        BY <1>0, <2>1 DEF RolesAreNodes
      <4>2. \A h \in PrepHosts(prep) : h[1] = "master" => \E a \in balancer'.api : a[2] = h
        BY <1>0, <3>1, <4>1, IpsOfRole
      <4>3. \A a \in balancer'.api : a[2][1] = "master"
        BY <3>1, <4>1, IpsAreOfRole
      <4>4. <<"master", 1>> \in PrepHosts(prep)
        <5>1. "master" \in Roles /\ 1 \in 1 .. prep["master"]
          BY <1>a, PrepFacts DEF Roles
        <5>2. <<"master", 1>> \in {<<"master", i>> : i \in 1 .. prep["master"]}
          BY <5>1
        <5> QED
          BY <5>1, <5>2 DEF PrepHosts
      <4>5. IpsOf("master") # {}
        <5>1. <<"master", 1>>[1] = "master"
          OBVIOUS
        <5>2. \E a \in balancer'.api : a[2] = <<"master", 1>>
          BY <4>2, <4>4, <5>1
        <5> QED
          BY <3>1, <5>2
      <4> QED
        BY <3>1, <4>2, <4>3, <4>5
    <3>5. RequestIsMade'
      BY <1>0, <2>1, <2>4 DEF RequestIsMade
    <3>6. BalancerIsSet'
      BY <2>1, <2>4, <3>1, <3>2 DEF BalancerIsSet
    <3>7. RecordSoFar'
      <4>1. record' = OwnRecord(prep)
        BY <2>1, <2>4 DEF OwnRecord
      <4> QED
        BY <1>0, <2>1, <2>4, <4>1 DEF RecordSoFar
    <3> QED
      BY <2>2, <3>3, <3>4, <3>5, <3>6, <3>7 DEF PrepIInv
  <2> QED
    BY <2>1, <2>3, <2>4
<1>5. CASE set_single_node_dns
  <2>1. /\ UNCHANGED <<prep, role, networked, request, vips, balancer>> /\ ppc = "networks"
        /\ Sno(prep) /\ ~Unmanaged(prep) /\ ~UserBalanced(prep)
        /\ \/ record' = <<get_primary_machine_cidr(prep), <<"master", 1>>>> /\ ppc' = "waiting"
           \/ ppc' = "failed" /\ record' = record
    BY <1>5 DEF set_single_node_dns
  <2>2. PrepTypeOK'
    BY <1>0, <2>1 DEF PrepTypeOK
  <2>3. RolesAreNodes' /\ BalancerHasMasters'
    BY <2>1, RolesStay
  <2>4. RequestIsMade' /\ BalancerIsSet'
    BY <1>0, <2>1 DEF RequestIsMade, BalancerIsSet
  <2>5. RecordSoFar'
    <3>1. OwnRecord(prep) = <<get_primary_machine_cidr(prep), <<"master", 1>>>>
      BY <2>1 DEF OwnRecord
    <3> QED
      BY <1>0, <2>1, <3>1 DEF RecordSoFar
  <2> QED
    BY <2>2, <2>3, <2>4, <2>5 DEF PrepIInv
<1>6. CASE set_no_dns_yet
  <2>1. /\ UNCHANGED <<prep, role, networked, request, vips, balancer, record>> /\ ppc = "networks" /\ ppc' = "waiting"
        /\ ~Sno(prep) /\ ~Unmanaged(prep) /\ ~UserBalanced(prep)
    BY <1>6 DEF set_no_dns_yet
  <2>2. PrepTypeOK'
    BY <1>0, <2>1 DEF PrepTypeOK
  <2>3. RolesAreNodes' /\ BalancerHasMasters'
    BY <2>1, RolesStay
  <2>4. RequestIsMade' /\ BalancerIsSet'
    BY <1>0, <2>1 DEF RequestIsMade, BalancerIsSet
  <2>5. RecordSoFar'
    <3>1. OwnRecord(prep) = <<>>
      BY <2>1 DEF OwnRecord
    <3>2. record = <<>>
      BY <1>0, <2>1, <3>1 DEF RecordSoFar
    <3> QED
      BY <1>0, <2>1, <3>1, <3>2 DEF RecordSoFar
  <2> QED
    BY <2>2, <2>3, <2>4, <2>5 DEF PrepIInv
<1>7. CASE cluster_gets_ready
  <2>1. /\ UNCHANGED <<prep, role, networked, request, balancer, record>> /\ ppc = "waiting" /\ ppc' = "ready"
        /\ vips' = IF prep.dhcp /\ ~Unmanaged(prep) /\ ~Sno(prep) THEN <<<<request.machine[1], 200>>>> ELSE request.vips
    BY <1>7 DEF cluster_gets_ready
  <2>2. vips' = ReadyVips(prep)
    <3>1. request.machine = RequestedNetworks(prep) /\ request.vips = RequestedVips(prep)
      BY <1>0, <2>1 DEF RequestIsMade, RequestOf
    <3> QED
      BY <2>1, <3>1 DEF ReadyVips
  <2>3. PrepTypeOK'
    <3>1. Len(vips') <= 2
      BY <1>a, <2>2, RequestFacts
    <3> QED
      BY <1>0, <2>1, <3>1 DEF PrepTypeOK
  <2>4. RolesAreNodes' /\ BalancerHasMasters'
    BY <2>1, RolesStay
  <2>5. RequestIsMade' /\ BalancerIsSet'
    BY <1>0, <2>1 DEF RequestIsMade, BalancerIsSet
  <2>6. RecordSoFar'
    BY <1>0, <2>1, <2>2 DEF RecordSoFar
  <2> QED
    BY <2>3, <2>4, <2>5, <2>6 DEF PrepIInv
<1>8. CASE set_dns_of_vips
  <2>1. /\ UNCHANGED <<prep, role, networked, request, vips, balancer>> /\ ppc = "ready" /\ ppc' = "prepared"
        /\ record' = IF Sno(prep) \/ Unmanaged(prep) THEN record ELSE vips[1]
    BY <1>8 DEF set_dns_of_vips
  <2>2. PrepTypeOK'
    BY <1>0, <2>1 DEF PrepTypeOK
  <2>3. RolesAreNodes' /\ BalancerHasMasters'
    BY <2>1, RolesStay
  <2>4. RequestIsMade' /\ BalancerIsSet'
    BY <1>0, <2>1 DEF RequestIsMade, BalancerIsSet
  <2>5. RecordSoFar'
    <3>1. vips = ReadyVips(prep) /\ record = OwnRecord(prep)
      BY <1>0, <2>1 DEF RecordSoFar
    <3> QED
      BY <2>1, <3>1 DEF RecordSoFar
  <2> QED
    BY <2>2, <2>3, <2>4, <2>5 DEF PrepIInv
<1>9. CASE preparation_raises \/ UNCHANGED prepVars
  <2>1. /\ UNCHANGED <<prep, role, networked, request, vips, balancer, record>>
        /\ ppc' = ppc \/ ppc' = "failed"
    BY <1>9 DEF preparation_raises, prepVars
  <2>2. PrepTypeOK'
    BY <1>0, <2>1 DEF PrepTypeOK
  <2>3. RolesAreNodes' /\ BalancerHasMasters'
    BY <1>0, <2>1 DEF RolesAreNodes, BalancerHasMasters
  <2>4. RequestIsMade' /\ BalancerIsSet'
    BY <1>0, <2>1 DEF RequestIsMade, BalancerIsSet
  <2>5. RecordSoFar'
    BY <1>0, <2>1 DEF RecordSoFar
  <2> QED
    BY <2>2, <2>3, <2>4, <2>5 DEF PrepIInv
<1> QED
  BY <1>1, <1>2, <1>3, <1>4, <1>5, <1>6, <1>7, <1>8, <1>9 DEF PrepNext

LEMMA PrepConclusion ==
    ASSUME PrepIInv
    PROVE  RecordIsServed /\ PrimaryStackLeads /\ VipsInMachineNetworks
<1>0. prep \in PrepConfigs /\ RequestIsMade /\ BalancerIsSet /\ RecordSoFar
  BY DEF PrepIInv, PrepTypeOK
<1>1. RecordIsServed
  <2> SUFFICES ASSUME ppc = "prepared"
               PROVE  CASE balancer # NoBalancer -> record = balancer.ip
                        [] balancer = NoBalancer /\ Sno(prep) -> record[2] = <<"master", 1>>
                        [] OTHER -> \E i \in DOMAIN vips : record = vips[i]
    BY DEF RecordIsServed
  <2>0. vips = ReadyVips(prep) /\ record = IF Sno(prep) \/ Unmanaged(prep) THEN OwnRecord(prep) ELSE vips[1]
    BY <1>0 DEF RecordSoFar
  <2>1. ASSUME balancer # NoBalancer PROVE record = balancer.ip
    <3>1. balancer.ip = LoadBalancerIp(prep) /\ (Unmanaged(prep) \/ UserBalanced(prep))
      BY <1>0, <2>1 DEF BalancerIsSet
    <3>2. CASE Unmanaged(prep)
      BY <1>0, <2>0, <3>1, <3>2, RequestFacts DEF OwnRecord
    <3>3. CASE UserBalanced(prep) /\ ~Unmanaged(prep)
      BY <1>0, <2>0, <3>1, <3>3, RequestFacts
    <3> QED
      BY <3>1, <3>2, <3>3
  <2>2. ASSUME balancer = NoBalancer PROVE ~Unmanaged(prep) /\ ~UserBalanced(prep)
    BY <1>0, <2>2 DEF BalancerIsSet
  <2>3. ASSUME balancer = NoBalancer, Sno(prep) PROVE record[2] = <<"master", 1>>
    <3>1. record = <<get_primary_machine_cidr(prep), <<"master", 1>>>>
      BY <2>0, <2>2, <2>3 DEF OwnRecord
    <3> QED
      BY <3>1
  <2>4. ASSUME balancer = NoBalancer, ~Sno(prep) PROVE \E i \in DOMAIN vips : record = vips[i]
    <3>1. 1 \in DOMAIN vips
      BY <1>0, <2>0, <2>2, <2>4, RequestFacts
    <3> QED
      BY <2>0, <2>2, <2>4, <3>1
  <2> QED
    BY <2>1, <2>3, <2>4
<1>2. PrimaryStackLeads
  <2> SUFFICES ASSUME Dual(prep), request # NoRequest
               PROVE  /\ request.cluster[1] = prep.primary /\ LeadOf(request.machine[1]) = prep.primary
                      /\ ~UserBalanced(prep) =>
                           /\ \A i \in DOMAIN request.vips : i = 1 => LeadOf(request.vips[i][1]) = prep.primary
                           /\ record # <<>> => LeadOf(record[1]) = prep.primary
    BY DEF PrimaryStackLeads, LeadOf
  <2>1. /\ request.cluster = PrimaryStackNetworks(prep) /\ request.machine = RequestedNetworks(prep)
        /\ request.vips = RequestedVips(prep)
    BY <1>0 DEF RequestIsMade, RequestOf
  <2>2. request.cluster[1] = prep.primary
    BY <1>0, <2>1, RequestFacts
  <2>3. LeadOf(request.machine[1]) = prep.primary
    <3>1. RequestedNetworks(prep) = get_all_machine_addresses(prep)
      BY DEF RequestedNetworks
    <3> QED
      BY <1>0, <2>1, <3>1, ControllerFacts
  <2>4. ASSUME ~UserBalanced(prep), 1 \in DOMAIN request.vips PROVE LeadOf(request.vips[1][1]) = prep.primary
    BY <1>0, <2>1, <2>4, RequestFacts
  <2>5. ASSUME ~UserBalanced(prep), record # <<>> PROVE LeadOf(record[1]) = prep.primary
    <3>1. CASE record = OwnRecord(prep)
      <4>1. \/ OwnRecord(prep) = <<>>
            \/ OwnRecord(prep) = <<get_primary_machine_cidr(prep), 1>>
            \/ OwnRecord(prep) = <<get_primary_machine_cidr(prep), <<"master", 1>>>>
        BY DEF OwnRecord
      <4>2. record[1] = get_primary_machine_cidr(prep)
        BY <2>5, <3>1, <4>1
      <4> QED
        BY <1>0, <4>2, ControllerFacts
    <3>2. CASE record = ReadyVips(prep)[1] /\ ~Sno(prep) /\ ~Unmanaged(prep)
      BY <1>0, <2>5, <3>2, RequestFacts
    <3> QED
      BY <1>0, <2>5, <3>1, <3>2 DEF RecordSoFar
  <2> QED
    BY <2>2, <2>3, <2>4, <2>5
<1>3. VipsInMachineNetworks
  <2> SUFFICES ASSUME request.machine # <<>>, ~(Dual(prep) /\ UserBalanced(prep)), NEW i \in DOMAIN request.vips
               PROVE  \E j \in DOMAIN request.machine : request.machine[j] = request.vips[i][1]
    BY DEF VipsInMachineNetworks
  <2>1. request = RequestOf(prep)
    BY <1>0 DEF RequestIsMade, NoRequest
  <2>2. request.machine = RequestedNetworks(prep) /\ request.vips = RequestedVips(prep)
    BY <2>1 DEF RequestOf
  <2>3. ~Unmanaged(prep) /\ ~prep.dhcp /\ ~Sno(prep)
    <3>1. ASSUME Unmanaged(prep) \/ prep.dhcp \/ Sno(prep) PROVE RequestedVips(prep) = <<>>
      BY <3>1 DEF RequestedVips
    <3>2. DOMAIN <<>> = {}
      OBVIOUS
    <3> QED
      BY <2>2, <3>1, <3>2
  <2>4. CASE Dual(prep)
    <3>1. RequestedNetworks(prep) = get_all_machine_addresses(prep) /\ RequestedVips(prep) = ControllerVips(prep)
      BY <2>3, <2>4 DEF RequestedNetworks, RequestedVips
    <3>2. i \in 1 .. 2 /\ ControllerVips(prep)[i] = <<get_all_machine_addresses(prep)[i], 100>>
      BY <1>0, <2>2, <2>4, <3>1, ControllerFacts
    <3>3. i \in DOMAIN get_all_machine_addresses(prep)
      <4>1. prep.v4 \in BOOLEAN /\ prep.v6 \in BOOLEAN /\ prep.v4 /\ prep.v6
        BY <1>0, <2>4, PrepFacts DEF Dual
      <4>2. HasStack(prep)
        BY <4>1 DEF HasStack
      <4>3. get_all_machine_addresses(prep) = <<"machine6", "machine">> \/ get_all_machine_addresses(prep) = <<"machine", "machine6">>
        BY <4>1, <4>2, StackSubnets
      <4>4. DOMAIN <<"machine6", "machine">> = 1 .. 2 /\ DOMAIN <<"machine", "machine6">> = 1 .. 2
        OBVIOUS
      <4> QED
        BY <3>2, <4>3, <4>4
    <3> QED
      BY <2>2, <3>1, <3>2, <3>3
  <2>5. CASE ~Dual(prep)
    <3>1. prep.lb = "user" /\ RequestedNetworks(prep) = get_machine_networks(prep) \o Optional(prep.platform = "baremetal", "lb")
      BY <2>2, <2>3, <2>5 DEF RequestedNetworks
    <3>2. prep.platform \in {"baremetal", "vsphere"}
      BY <1>0, <2>3, PrepFacts DEF Unmanaged
    <3>3. CASE prep.platform = "vsphere"
      <4>1. get_machine_networks(prep) = <<get_primary_machine_cidr(prep)>> \o <<>>
        BY <3>3 DEF get_machine_networks, Optional
      <4>2. RequestedNetworks(prep) = (<<get_primary_machine_cidr(prep)>> \o <<>>) \o <<>>
        BY <3>1, <3>3, <4>1 DEF Optional
      <4>3. RequestedNetworks(prep)[1] = get_primary_machine_cidr(prep) /\ 1 \in DOMAIN RequestedNetworks(prep)
        BY <4>2
      <4>4. RequestedVips(prep) = ControllerVips(prep)
        BY <2>3, <3>3 DEF RequestedVips, UserBalanced
      <4>5. i = 1 /\ RequestedVips(prep)[1] = <<get_primary_machine_cidr(prep), 100>>
        BY <1>0, <2>2, <2>5, <4>4, ControllerFacts
      <4> QED
        BY <2>2, <4>3, <4>5
    <3>4. CASE prep.platform = "baremetal"
      <4>1. get_machine_networks(prep) = <<get_primary_machine_cidr(prep)>> \o <<get_provisioning_cidr(prep)>>
        BY <3>4 DEF get_machine_networks, Optional
      <4>2. RequestedNetworks(prep) = (<<get_primary_machine_cidr(prep)>> \o <<get_provisioning_cidr(prep)>>) \o <<"lb">>
        BY <3>1, <3>4, <4>1 DEF Optional
      <4>3. RequestedNetworks(prep)[3] = "lb" /\ 3 \in DOMAIN RequestedNetworks(prep)
        BY <4>2
      <4>4. RequestedVips(prep) = <<LoadBalancerIp(prep)>> /\ LoadBalancerIp(prep) = <<"lb", 1>>
        BY <2>3, <3>1, <3>4 DEF RequestedVips, UserBalanced, LoadBalancerIp
      <4>5. i = 1 /\ RequestedVips(prep)[1][1] = "lb"
        BY <2>2, <4>4
      <4> QED
        BY <2>2, <4>3, <4>5
    <3> QED
      BY <3>2, <3>3, <3>4
  <2> QED
    BY <2>4, <2>5
<1> QED
  BY <1>1, <1>2, <1>3

-----------------------------------------------------------------------------
(***************************************************************************)
(* The parts together.                                                     *)
(***************************************************************************)
\* A step is one of one part, and the others stutter.
LEMMA StepOfOnePart ==
    [ServicesNext]_<<apiVars, testVars, focus>> =>
        /\ [KubeNext]_kubeVars /\ [HostedNext]_hostedVars /\ [CmNext]_cmVars
        /\ [Day2Next]_day2Vars /\ [ConfigNext]_configVars /\ [LogsNext]_logVars
        /\ [AddrNext]_addrVars /\ [PrepNext]_prepVars
<1> SUFFICES ASSUME [ServicesNext]_<<apiVars, testVars, focus>>
             PROVE  /\ [KubeNext]_kubeVars /\ [HostedNext]_hostedVars /\ [CmNext]_cmVars
                    /\ [Day2Next]_day2Vars /\ [ConfigNext]_configVars /\ [LogsNext]_logVars
                    /\ [AddrNext]_addrVars /\ [PrepNext]_prepVars
  OBVIOUS
<1>1. [ApiNext]_apiVars /\ [TestNext]_testVars
  BY DEF ServicesNext
<1>2. [KubeNext]_kubeVars /\ [HostedNext]_hostedVars /\ [CmNext]_cmVars
  BY <1>1 DEF ApiNext, apiVars
<1>3. /\ [Day2Next]_day2Vars /\ [ConfigNext]_configVars /\ [LogsNext]_logVars
      /\ [AddrNext]_addrVars /\ [PrepNext]_prepVars
  BY <1>1 DEF TestNext, testVars
<1> QED
  BY <1>2, <1>3

LEMMA ServicesInitHolds == ServicesInit => ServicesIInv
<1> SUFFICES ASSUME ServicesInit PROVE ServicesIInv
  OBVIOUS
<1>1. /\ KubeInit /\ HostedInit /\ CmInit /\ Day2Init
      /\ ConfigInit /\ LogsInit /\ AddrInit /\ PrepInit
  BY DEF ServicesInit
<1> QED
  BY <1>1, KubeInitHolds, HostedInitHolds, CmInitHolds, Day2InitHolds,
     ConfigInitHolds, LogsInitHolds, AddrInitHolds, PrepInitHolds DEF ServicesIInv

LEMMA ServicesStep == ServicesIInv /\ [ServicesNext]_<<apiVars, testVars, focus>> => ServicesIInv'
<1> SUFFICES ASSUME ServicesIInv, [ServicesNext]_<<apiVars, testVars, focus>> PROVE ServicesIInv'
  OBVIOUS
<1>1. KubeIInv' /\ HostedIInv' /\ CmIInv' /\ Day2IInv'
  BY StepOfOnePart, KubeStep, HostedStep, CmStep, Day2Step DEF ServicesIInv
<1>2. ConfigIInv' /\ LogsIInv' /\ AddrIInv' /\ PrepIInv'
  BY StepOfOnePart, ConfigStep, LogsStep, AddrStep, PrepStep DEF ServicesIInv
<1> QED
  BY <1>1, <1>2 DEF ServicesIInv

\* The inductive invariants of the eight parts hold together.
THEOREM ServicesInvariant == ServicesSpec => []ServicesIInv
  BY ServicesInitHolds, ServicesStep, PTL DEF ServicesSpec

LEMMA ServicesConclusions ==
    ServicesIInv => ServicesTypeOK /\ GoesOnWithReason /\ KubeLeftIsExplained /\ AddressingIsSound
<1> SUFFICES ASSUME ServicesIInv
             PROVE  ServicesTypeOK /\ GoesOnWithReason /\ KubeLeftIsExplained /\ AddressingIsSound
  OBVIOUS
<1>1. /\ KubeTypeOK /\ KubeInstallsEveryNode /\ KubeLeftIsExplained
      /\ HostedTypeOK
      /\ CmTypeOK /\ RolloutRestoresService
      /\ Day2TypeOK /\ Day2NodesAdded
      /\ LogsTypeOK
  BY KubeConclusion, CmConclusion
     DEF ServicesIInv, KubeIInv, HostedIInv, CmIInv, Day2IInv, LogsIInv
<1>2. ConfigTypeOK /\ UserValueWins /\ SnoHasNoWorkers
  BY ConfigConclusion DEF ServicesIInv
<1>3. /\ AddrTypeOK /\ ValidatedNodesAreOurs /\ HostKeepsAddresses
      /\ AddressesDistinct /\ ImageMatchesMacs /\ SubnetsAreConfigured
  BY DistinctConclusion, ImageConclusion, SubnetsConclusion DEF ServicesIInv, AddrIInv
<1>4. /\ PrepTypeOK /\ RolesAreNodes /\ BalancerHasMasters
      /\ RecordIsServed /\ PrimaryStackLeads /\ VipsInMachineNetworks
  BY PrepConclusion DEF ServicesIInv, PrepIInv
<1> QED
  BY <1>1, <1>2, <1>3, <1>4 DEF ServicesTypeOK, GoesOnWithReason, AddressingIsSound

(***************************************************************************)
(* For any nodes, agents, hosts, configurations, layouts and bounds: each  *)
(* variable of these parts keeps its type; in particular what unbind has   *)
(* read of an agent is an agent without a binding.                         *)
(***************************************************************************)
THEOREM ServicesTypeCorrect == ServicesSpec => []ServicesTypeOK
<1>1. ServicesIInv => ServicesTypeOK
  BY ServicesConclusions
<1> QED
  BY <1>1, ServicesInvariant, PTL

(***************************************************************************)
(* For any nodes, faults, values and configurations: a test that goes on   *)
(* after start_nodes and wait_to_be_installed, after the restart of the    *)
(* service, after the wait for day-2 nodes, after the preparation of a     *)
(* cluster or after the triggers finds what it relies on.                  *)
(***************************************************************************)
THEOREM TestsGoOnWithReason == ServicesSpec => []GoesOnWithReason
<1>1. ServicesIInv => GoesOnWithReason
  BY ServicesConclusions
<1> QED
  BY <1>1, ServicesInvariant, PTL

(***************************************************************************)
(* For any nodes and faults: an object that the exit of KubeAPIContext,    *)
(* with its teardown on, leaves on the hub has a delete that failed.       *)
(***************************************************************************)
THEOREM HubLeftoversAreExplained == ServicesSpec => []KubeLeftIsExplained
<1>1. ServicesIInv => KubeLeftIsExplained
  BY ServicesConclusions
<1> QED
  BY <1>1, ServicesInvariant, PTL

(***************************************************************************)
(* For any layouts of up to 20 nodes and any number of preparations: the   *)
(* addresses that _fill_tfvars hands out, those in the discovery image,    *)
(* those of the host bridge and the networks, virtual addresses and load   *)
(* balancer of the cluster agree with each other.                          *)
(***************************************************************************)
THEOREM AddressesAgree == ServicesSpec => []AddressingIsSound
<1>1. ServicesIInv => AddressingIsSound
  BY ServicesConclusions
<1> QED
  BY <1>1, ServicesInvariant, PTL

(***************************************************************************)
(* For any agents and any number of concurrent writes: the replace of      *)
(* Agent.unbind never takes back a host name written after its read, since *)
(* a copy with the current version is the agent itself.                    *)
(***************************************************************************)
THEOREM UnbindTakesNothingBack == ServicesSpec => UnbindKeepsUpdates
<1>1. ServicesIInv /\ [ServicesNext]_<<apiVars, testVars, focus>> => [HostNamesGrow]_hostedVars
  BY StepOfOnePart, HostedStep DEF ServicesIInv
<1> QED
  BY <1>1, ServicesInvariant, PTL DEF ServicesSpec, UnbindKeepsUpdates

(***************************************************************************)
(* For any clusters, retries and events: a folder that is_update_needed    *)
(* passes over holds the whole archive of its cluster, or the last         *)
(* collection of that cluster was interrupted before the archive came.     *)
(***************************************************************************)
THEOREM SkippedFoldersAreComplete == ServicesSpec => SkippedIsComplete
<1>1. ServicesIInv /\ [ServicesNext]_<<apiVars, testVars, focus>> => [SkippedIsWhole]_logVars
  BY StepOfOnePart, LogsSkip DEF ServicesIInv
<1> QED
  BY <1>1, ServicesInvariant, PTL DEF ServicesSpec, SkippedIsComplete
=============================================================================
