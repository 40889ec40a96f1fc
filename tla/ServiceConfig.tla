---------------------------- MODULE ServiceConfig ----------------------------
(***************************************************************************)
(* The config map of the assisted-service and its restarts                 *)
(* (update_assisted_service_cm.py, assisted_installer_infra_controller.py  *)
(* and the fixture k8s_assisted_installer_infra_controller).               *)
(*                                                                         *)
(* The environment is written into the config map before the service is    *)
(* deployed.  A test patches keys and restarts the deployment (scale to 0, *)
(* wait, scale to 1, wait); when it ends, the fixture compares the data    *)
(* with those it saved, patches the saved ones back and restarts again.    *)
(* A patch is a merge: it removes no key.  Kubernetes starts and stops the *)
(* pods on its own; a pod has the data of the moment it started.           *)
(***************************************************************************)
EXTENDS Naturals, FiniteSets

CONSTANTS
    EnvKeys,        \* keys of the config map that ENVS names
    RequirementsKey,\* one of them: HW_VALIDATOR_REQUIREMENTS
    PolicyKey,      \* another key, set when the kube API is enabled
    DefaultOf,      \* [EnvKeys -> value]: the default of ENVS
    EnvValues,      \* values a variable of the environment may have
    MaxCmChanges    \* bound: changes of a test

Absent == "absent"
Quoted == "quoted empty"   \* the two characters "" a Makefile leaves
CmKeys == EnvKeys \cup {PolicyKey}
CmValues == EnvValues \cup {Absent, "", "file", "test", "required", "policy"}

ASSUME CmAssumption ==
    /\ RequirementsKey \in EnvKeys
    /\ DefaultOf \in [EnvKeys -> EnvValues \cup {"", Quoted}]
    /\ MaxCmChanges \in Nat

VARIABLES
    cm,         \* the data of the config map
    replicasOf, \* spec.replicas of the deployment
    pods,       \* the pods of the service: a set of the data they run with
    scpc,       \* step: "deploy", "begin", "test", "scale", "gone", "up", "rollout", "done", "broken"
    restore,    \* the restart under way belongs to the rollout
    before,     \* configmap_before
    changed,    \* the rollout found a difference
    changes     \* changes the test made

cmVars == <<cm, replicasOf, pods, scpc, restore, before, changed, changes>>

CmInit ==
    /\ cm \in [CmKeys -> {Absent, "file"}]
    /\ replicasOf = 0 /\ pods = {} /\ scpc = "deploy" /\ restore = FALSE
    /\ before = cm /\ changed = FALSE /\ changes = 0

\* get_relevant_envs: an unset variable has its default; a quoted empty
\* string sets the key to empty, an empty one leaves it alone.
get_relevant_envs(env) ==
    [k \in EnvKeys |->
        LET value == IF env[k] = "unset" THEN DefaultOf[k] ELSE env[k]
        IN  IF value = Quoted THEN "" ELSE IF value = "" THEN Absent ELSE value]

\* A merge: what the update does not have keeps its value.
Merged(data, update) ==
    [k \in CmKeys |-> IF k \in DOMAIN update /\ update[k] # Absent THEN update[k] ELSE data[k]]

\* update_requirements: the requirements of the default version are replaced,
\* whatever the environment or the file had.
update_requirements(data) == [data EXCEPT ![RequirementsKey] = "required"]

kube_api_installer_policy_env(enabled) == [k \in {PolicyKey} |-> IF enabled THEN "policy" ELSE Absent]

set_envs_to_service_cm ==
    /\ scpc = "deploy"
    /\ \E env \in [EnvKeys -> EnvValues \cup {"unset", "", Quoted}], kubeApi \in BOOLEAN :
         cm' = update_requirements(Merged(Merged(cm, get_relevant_envs(env)),
                                          kube_api_installer_policy_env(kubeApi)))
    /\ replicasOf' = 1 /\ scpc' = "begin"
    /\ UNCHANGED <<pods, restore, before, changed, changes>>

\* The fixture saves the data.  (It also asks whether the deployments are
\* ready, and asserts a string, which is always true.)
save_configmap ==
    /\ scpc = "begin"
    /\ before' = cm /\ scpc' = "test"
    /\ UNCHANGED <<cm, replicasOf, pods, restore, changed, changes>>

\* change_configmap_data: patch one key, verify it, restart unless told not to.
change_configmap_data(restart) ==
    /\ scpc = "test" /\ changes < MaxCmChanges
    /\ \E k \in CmKeys : \E v \in {"test", before[k]} \ {Absent} : cm' = [cm EXCEPT ![k] = v]
    /\ changes' = changes + 1
    /\ scpc' = IF restart THEN "scale" ELSE "test"
    /\ UNCHANGED <<replicasOf, pods, restore, before, changed>>

\* The end of the test, however it ends.
test_ends ==
    /\ scpc = "test" /\ scpc' = "rollout"
    /\ UNCHANGED <<cm, replicasOf, pods, restore, before, changed, changes>>

\* _restart_deployment: change_deployment_scale(0).
scale_to_zero ==
    /\ scpc = "scale" /\ replicasOf' = 0 /\ scpc' = "gone"
    /\ UNCHANGED <<cm, pods, restore, before, changed, changes>>

\* Mutant: the drain is not awaited.
PodsAre_NoDrain(count) == count = 0 \/ Cardinality(pods) = count

\* wait_for_pod_change(0), then change_deployment_scale(1).
PodsAre(count) == Cardinality(pods) = count

scale_to_one ==
    /\ scpc = "gone" /\ PodsAre(0)
    /\ replicasOf' = 1 /\ scpc' = "up"
    /\ UNCHANGED <<cm, pods, restore, before, changed, changes>>

\* wait_for_pod_change(1): the restart is over.
pods_are_running ==
    /\ scpc = "up" /\ PodsAre(1)
    /\ scpc' = IF restore THEN "done" ELSE "test"
    /\ UNCHANGED <<cm, replicasOf, pods, restore, before, changed, changes>>

\* A wait or a verification of the restart fails: the test goes on to its
\* teardown, the teardown ends.
restart_fails ==
    /\ scpc \in {"scale", "gone", "up"}
    /\ scpc' = IF restore THEN "broken" ELSE "rollout"
    /\ UNCHANGED <<cm, replicasOf, pods, restore, before, changed, changes>>

rollout_assisted_service ==
    /\ scpc = "rollout"
    /\ changed' = (before # cm)
    /\ IF before # cm
       THEN cm' = Merged(cm, before) /\ restore' = TRUE /\ scpc' = "scale"
       ELSE UNCHANGED <<cm, restore>> /\ scpc' = "done"
    /\ UNCHANGED <<replicasOf, pods, before, changes>>

\* Kubernetes: pods follow the replicas.
pods_follow ==
    /\ \/ Cardinality(pods) < replicasOf /\ pods' = pods \cup {cm}
       \/ Cardinality(pods) > replicasOf /\ pods' = {}
    /\ UNCHANGED <<cm, replicasOf, scpc, restore, before, changed, changes>>

CmNext ==
    \/ set_envs_to_service_cm \/ save_configmap \/ change_configmap_data(TRUE) \/ change_configmap_data(FALSE)
    \/ test_ends \/ scale_to_zero \/ scale_to_one \/ pods_are_running \/ restart_fails
    \/ rollout_assisted_service \/ pods_follow

\* Every variable has a value of its type.
CmTypeOK ==
    /\ cm \in [CmKeys -> CmValues] /\ before \in [CmKeys -> CmValues]
    /\ pods \subseteq [CmKeys -> CmValues] /\ replicasOf \in {0, 1}
    /\ scpc \in {"deploy", "begin", "test", "scale", "gone", "up", "rollout", "done", "broken"}
    /\ restore \in BOOLEAN /\ changed \in BOOLEAN /\ changes \in 0..MaxCmChanges

\* When the rollout has ended normally after a change, the service runs, and it
\* runs with the value the key had before the test for every key that existed:
\* no pod of the test is left.
RolloutRestoresService ==
    scpc = "done" /\ changed =>
        /\ Cardinality(pods) = 1
        /\ \A data \in pods, k \in CmKeys : before[k] # Absent => data[k] = before[k]

\* The steps of the restart that the rollout starts.
RestoreSteps == {"scale", "gone", "up", "done", "broken"}

\* The deployment has one pod or none.
OnePodAtMost == pods = {} \/ \E data \in [CmKeys -> CmValues] : pods = {data}

\* From the rollout on, the config map has the saved values again; once the old
\* pod is gone, a pod can only have started with them.
RestoredData ==
    /\ changed = restore
    /\ restore => scpc \in RestoreSteps /\ \A k \in CmKeys : before[k] # Absent => cm[k] = before[k]
    /\ restore /\ scpc \in {"up", "done"} => replicasOf = 1 /\ pods \subseteq {cm}
    /\ restore /\ scpc = "done" => pods = {cm}

CmIInv == CmTypeOK /\ OnePodAtMost /\ RestoredData
=============================================================================
