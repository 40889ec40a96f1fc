---------------------------- MODULE Configuration ----------------------------
(***************************************************************************)
(* How a test gets its configuration (utils/env_var.py, config/*.py,       *)
(* triggers/*.py, tests/global_variables): the environment of the user is  *)
(* loaded into a pool of EnvVars with defaults; the triggers whose         *)
(* conditions hold set variables of the pool; the configuration objects    *)
(* take what they do not have from the pool, then the values a test is     *)
(* parameterised with, and the triggers are applied once more, to them.    *)
(* The attributes of the configuration objects of a test are taken         *)
(* together.                                                               *)
(***************************************************************************)
EXTENDS Naturals, FiniteSets, Sequences, TLC, SequencesExt

CONSTANTS
    UserEnvs,   \* what users set: functions from names of variables to values
    Parameters  \* what tests are parameterised with: the same

VARIABLES stage, userEnv, pool, config, origin, todo

configVars == <<stage, userEnv, pool, config, origin, todo>>

None == "None"

IntVars == {"masters_count", "workers_count", "control_plane_count", "worker_memory", "worker_disk", "master_disk_count"}
BoolVars == {"is_ipv4", "is_ipv6", "user_managed_networking", "download_image", "ipxe_boot", "static_ips_vlan", "is_static_ip"}
StringVars == {"platform", "tf_platform", "network_type", "networks", "cpu_architecture", "remote_service_url", "iso_image_type"}
VarNames == IntVars \cup BoolVars \cup StringVars \cup {"olm_operators"}

\* _EnvVariables: the default of each variable.
_EnvVariables ==
    [masters_count |-> 3, workers_count |-> 2, control_plane_count |-> 3,
     worker_memory |-> 8192, worker_disk |-> 20, master_disk_count |-> 1,
     is_ipv4 |-> TRUE, is_ipv6 |-> FALSE, user_managed_networking |-> FALSE,
     download_image |-> TRUE, ipxe_boot |-> FALSE, static_ips_vlan |-> FALSE, is_static_ip |-> FALSE,
     platform |-> None, tf_platform |-> "baremetal", network_type |-> None, networks |-> None,
     cpu_architecture |-> "x86_64", remote_service_url |-> None, iso_image_type |-> "minimal-iso",
     olm_operators |-> {}]

Falsy(k, v) ==
    CASE k \in IntVars -> v = 0
      [] k \in BoolVars -> v = FALSE
      [] k \in StringVars -> v = None
      [] OTHER -> v = {}

\* The words of the code, and those the user or a test gives.
Words ==
    {None, "none", "external", "vsphere", "nutanix", "baremetal", "s390x", "x86_64", "OVNKubernetes",
     "ipv4", "ipv6", "ipv4v6", "minimal-iso", "full-iso"}
    \cup UNION {{values[k] : k \in DOMAIN values \cap StringVars} : values \in UserEnvs \cup Parameters}

\* A value that a variable can have.
HasType(k, v) ==
    /\ k \in IntVars => v \in Nat
    /\ k \in BoolVars => v \in BOOLEAN
    /\ k \in StringVars => v \in Words

ASSUME ConfigAssumption ==
    \A values \in UserEnvs \cup Parameters :
        DOMAIN values \subseteq VarNames /\ \A k \in DOMAIN values : HasType(k, values[k])

-----------------------------------------------------------------------------
\* OperatorResource: what an operator asks for, 0 if nothing.
OperatorResource(op, sno) ==
    CASE op = "cnv" -> [worker_memory |-> 360, workers_count |-> 0, master_disk_count |-> 0]
      [] op = "mtv" -> [worker_memory |-> 1384, workers_count |-> 0, master_disk_count |-> 0]
      [] op = "odf" -> [worker_memory |-> 24000, workers_count |-> 4, master_disk_count |-> 1]
      [] op = "lvm" -> [worker_memory |-> 0, workers_count |-> 0, master_disk_count |-> 1]
      [] op = "mce" -> [worker_memory |-> IF sno THEN 0 ELSE 17000, workers_count |-> 0, master_disk_count |-> 0]
      [] op = "openshift-ai" -> [worker_memory |-> 65536, workers_count |-> 3, master_disk_count |-> 1]
      [] op = "osc" -> [worker_memory |-> IF sno THEN 0 ELSE 8192, workers_count |-> 0, master_disk_count |-> 0]

\* Mutant: what an operator needs is added whatever there is.
resource_param_Always(base, resource) == base + resource

resource_param(base, resource) == IF base <= resource THEN base + resource ELSE base

\* OlmOperatorsTrigger.get_olm_variables: computed from the configuration it
\* is applied to.
get_olm_variables(c, op, sno) ==
    LET need == OperatorResource(op, sno)
    IN  [k \in DOMAIN need |-> resource_param(c[k], need[k])]

\* The default triggers in their order: name, condition, values.
Trigger(name, met, values) == [name |-> name, met |-> met, values |-> values]

Platform(c, p, values) == Trigger(p, c.platform = p, values)

Olm(c, op) == Trigger(op, op \in c.olm_operators, get_olm_variables(c, op, FALSE))

OlmSingleNode(c, op, name) ==
    Trigger(name, op \in c.olm_operators /\ c.masters_count = 1, get_olm_variables(c, op, TRUE))
OlmSeveralNodes(c, op) ==
    Trigger(op, op \in c.olm_operators /\ c.masters_count > 1, get_olm_variables(c, op, FALSE))

Masters(c, n) == Trigger("control_plane_count", c.masters_count = n, [control_plane_count |-> n])

default_triggers(c) ==
    << Trigger("remote_deployment", c.remote_service_url # None, [worker_disk |-> 100]),
       Platform(c, "none", [user_managed_networking |-> TRUE, tf_platform |-> "none"]),
       Platform(c, "external", [user_managed_networking |-> TRUE, tf_platform |-> "none"]),
       Platform(c, "vsphere", [user_managed_networking |-> FALSE, tf_platform |-> "vsphere"]),
       Platform(c, "nutanix", [tf_platform |-> "nutanix"]),
       Trigger("sno", c.masters_count = 1,
               [workers_count |-> 0, control_plane_count |-> 1, user_managed_networking |-> TRUE, network_type |-> None]),
       Masters(c, 2), Masters(c, 4), Masters(c, 5),
       Trigger("ipv4", c.is_ipv4 /\ ~c.is_ipv6, [networks |-> "ipv4"]),
       Trigger("ipv6", ~c.is_ipv4 /\ c.is_ipv6, [networks |-> "ipv6"]),
       Trigger("ipv6_required_configurations", c.is_ipv6, [network_type |-> "OVNKubernetes"]),
       Trigger("dualstack", c.is_ipv4 /\ c.is_ipv6, [networks |-> "ipv4v6"]),
       Olm(c, "cnv"), Olm(c, "mtv"), Olm(c, "odf"), Olm(c, "lvm"), Olm(c, "openshift-ai"),
       OlmSingleNode(c, "mce", "sno_mce"), OlmSeveralNodes(c, "mce"),
       OlmSingleNode(c, "osc", "sno_osc"), OlmSeveralNodes(c, "osc"),
       Trigger("ipxe_boot", c.ipxe_boot, [download_image |-> FALSE]),
       Trigger("static_ips_vlan_enables_static", c.static_ips_vlan, [is_static_ip |-> TRUE]),
       Trigger("cpu_s390x", c.cpu_architecture = "s390x",
               [user_managed_networking |-> TRUE, iso_image_type |-> "full-iso", tf_platform |-> "s390x"]) >>

\* trigger_configurations: the conditions of all triggers are evaluated before
\* the first is handled; here, the places of those that hold.
MetTriggers(c) == {i \in 1 .. Len(default_triggers(c)) : default_triggers(c)[i].met}

\* They are handled in their order.
First(i, places) == i \in places /\ \A j \in places : i <= j

-----------------------------------------------------------------------------
\* EnvVar.__init__: the loaded value of the user, else the default.
EnvVarValue(k) == IF k \in DOMAIN userEnv THEN userEnv[k] ELSE _EnvVariables[k]

\* EnvVar.copy(value).
EnvVarCopy(k, old, value) == IF Falsy(k, value) THEN old ELSE value

ConfigInit ==
    /\ stage = "pool" /\ userEnv \in UserEnvs
    /\ pool = [k \in VarNames |-> EnvVarValue(k)]
    /\ config = pool
    /\ origin = [k \in VarNames |-> IF k \in DOMAIN userEnv THEN "ENVIRONMENT" ELSE None]
    /\ todo = MetTriggers(pool)

\* handle_trigger: a variable the user or the test has set is left alone.
MaySet(k) == origin[k] \in {None, "TRIGGER"}

\* A trigger is handled for the pool: DefaultVariables._set makes a copy of
\* the EnvVar, which keeps its origin.
handle_trigger_on_pool ==
    /\ stage = "pool"
    /\ \E i \in todo :
         LET values == default_triggers(pool)[i].values
         IN  /\ First(i, todo) /\ todo' = todo \ {i}
             /\ pool' = [k \in VarNames |->
                          IF k \in DOMAIN values /\ MaySet(k) THEN EnvVarCopy(k, pool[k], values[k]) ELSE pool[k]]
    /\ UNCHANGED <<stage, userEnv, config, origin>>

\* BaseConfig.__post_init__: what is None comes from the pool.  Then
\* update_parameterized sets the values of the test.
new_configuration ==
    /\ stage = "pool" /\ todo = {}
    /\ \E p \in Parameters :
         /\ config' = [k \in VarNames |-> IF k \in DOMAIN p THEN p[k] ELSE pool[k]]
         /\ origin' = [k \in VarNames |-> IF k \in DOMAIN p /\ origin[k] = None THEN "PARAMETERIZED" ELSE origin[k]]
         /\ todo' = MetTriggers(config')
    /\ stage' = "config"
    /\ UNCHANGED <<userEnv, pool>>

\* BaseConfig._set: the value as it is.
ConfigSet(k, old, value) == value

Handled(c, i) ==
    LET values == default_triggers(c)[i].values
    IN  [k \in VarNames |-> IF k \in DOMAIN values /\ MaySet(k) THEN ConfigSet(k, c[k], values[k]) ELSE c[k]]

handle_trigger_on_config ==
    /\ stage = "config"
    /\ \E i \in todo :
         /\ First(i, todo) /\ todo' = todo \ {i}
         /\ config' = Handled(config, i)
         /\ origin' = [k \in VarNames |->
                         IF k \in DOMAIN default_triggers(config)[i].values /\ MaySet(k) THEN "TRIGGER" ELSE origin[k]]
    /\ UNCHANGED <<stage, userEnv, pool>>

configuration_is_ready ==
    /\ stage = "config" /\ todo = {}
    /\ stage' = "done"
    /\ UNCHANGED <<userEnv, pool, config, origin, todo>>

ConfigNext ==
    \/ handle_trigger_on_pool \/ new_configuration
    \/ handle_trigger_on_config \/ configuration_is_ready

-----------------------------------------------------------------------------
\* Every variable has a value of its type.
ConfigTypeOK ==
    /\ stage \in {"pool", "config", "done"}
    /\ \A c \in {pool, config} : DOMAIN c = VarNames /\ \A k \in VarNames : HasType(k, c[k])
    /\ origin \in [VarNames -> {None, "ENVIRONMENT", "PARAMETERIZED", "TRIGGER"}]

\* No trigger of either round changes a variable that the user set in the
\* environment, in the pool or in the configuration (where a parameter of the
\* test may).
UserValueWins ==
    /\ \A k \in DOMAIN userEnv : pool[k] = userEnv[k]
    /\ stage = "done" =>
         \A k \in VarNames : origin[k] = "ENVIRONMENT" =>
            config[k] = userEnv[k] \/ \E p \in Parameters : k \in DOMAIN p /\ config[k] = p[k]

\* The triggers are applied to the pool and again to the configuration that
\* took its values from it: the second round must not add the resources of an
\* operator a second time.  Handling the triggers that hold once more changes
\* nothing.
TriggersAreIdempotent ==
    stage = "done" =>
        LET places == [i \in 1 .. Len(default_triggers(config)) |-> i]
        IN  FoldLeft(Handled, config, SelectSeq(places, LAMBDA i : i \in MetTriggers(config))) = config

\* A single-node configuration has no workers, although the zero of the trigger
\* is lost in the pool, unless somebody asked for them or an operator needs them.
SnoHasNoWorkers ==
    stage = "done" /\ config.masters_count = 1 =>
        \/ config.workers_count = 0
        \/ origin["workers_count"] # "TRIGGER"
        \/ config.olm_operators \cap {"odf", "openshift-ai"} # {}

\* The variables that conditions of triggers read: no trigger sets one of them.
ConditionVars == {"masters_count", "platform", "olm_operators", "is_ipv4", "is_ipv6", "remote_service_url",
                  "ipxe_boot", "static_ips_vlan", "cpu_architecture"}

\* The origin of a variable tells whether the user has set it.
OriginIsKnown ==
    /\ userEnv \in UserEnvs
    /\ \A k \in VarNames : origin[k] = "ENVIRONMENT" <=> k \in DOMAIN userEnv

\* The values of the user in the pool and, unless the test has its own, in the
\* configuration.
UserValuesKept ==
    /\ \A k \in DOMAIN userEnv : pool[k] = userEnv[k]
    /\ stage # "pool" =>
         \A k \in DOMAIN userEnv :
            config[k] = userEnv[k] \/ \E p \in Parameters : k \in DOMAIN p /\ config[k] = p[k]

\* The conditions that held before the first trigger still hold for the rest.
ConditionsStay ==
    /\ todo \subseteq MetTriggers(IF stage = "pool" THEN pool ELSE config)
    /\ stage = "done" => todo = {}

\* The trigger of the single node is still to be handled, or there are no workers.
SnoPlace == 6
WorkersGo ==
    /\ stage # "pool" /\ config.masters_count = 1 /\ MaySet("workers_count")
    /\ config.olm_operators \cap {"odf", "openshift-ai"} = {}
    => config.workers_count = 0 \/ SnoPlace \in todo

ConfigIInv == ConfigTypeOK /\ OriginIsKnown /\ UserValuesKept /\ ConditionsStay /\ WorkersGo
=============================================================================
