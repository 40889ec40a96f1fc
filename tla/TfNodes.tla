------------------------------ MODULE TfNodes ------------------------------
(***************************************************************************)
(* TFController with VSphereController and NutanixController: virtual      *)
(* machines made by terraform and operated through the provider's API.     *)
(* vSphere operations are tasks: they are polled until they succeed or     *)
(* fail, and a failed one is not reported.  A vSphere node gets its ISO by *)
(* a second apply, for which all nodes are shut down first.                *)
(***************************************************************************)
EXTENDS Integers, Sequences

CONSTANTS
    TfVms,             \* the machines of the terraform state, in order
    MaxTfFaults        \* bound on the tasks that end in error

ASSUME TfAssumption ==
    TfVms \in Seq({TfVms[i] : i \in 1..Len(TfVms)}) /\ MaxTfFaults \in Nat

VARIABLES
    tfProvider,        \* "vsphere" or "nutanix"
    tfPc,              \* the operation, or "idle"
    tfAt,              \* the machine that a loop over list_nodes is at
    tfTask,            \* the vSphere task that is polled
    tfPower, tfIso,    \* per machine: powered on; booted with the discovery ISO
    tfSpoiled,         \* history: a task of this operation ended in error
    tfFaults

tfVars == <<tfProvider, tfPc, tfAt, tfTask, tfPower, tfIso, tfSpoiled, tfFaults>>

TfVm == {TfVms[i] : i \in 1..Len(TfVms)}
TfLoops == {"start", "shutdown", "notify"}

TfTypeOK ==
    /\ tfProvider \in {"vsphere", "nutanix"}
    /\ tfPc \in TfLoops \cup {"absent", "idle", "stopped", "started", "apply", "isoReady"}
    /\ tfAt \in 1..Len(TfVms) + 1
    /\ tfTask \in {"none", "running"}
    /\ tfPower \in [TfVm -> BOOLEAN] /\ tfIso \in [TfVm -> BOOLEAN]
    /\ tfSpoiled \in BOOLEAN /\ tfFaults \in 0..MaxTfFaults

TfInit ==
    /\ tfProvider \in {"vsphere", "nutanix"}
    /\ tfPc = "absent" /\ tfAt = 1 /\ tfTask = "none"
    /\ tfPower = [v \in TfVm |-> FALSE] /\ tfIso = [v \in TfVm |-> FALSE]
    /\ tfSpoiled = FALSE /\ tfFaults = 0

TfResting == tfPc \in {"idle", "stopped", "started", "isoReady"}
-----------------------------------------------------------------------------
\* set_and_apply creates the machines and terraform powers them on; for vSphere
\* the ISO is taken out of the variables, Nutanix machines boot from it.
tf_prepare_nodes ==
    /\ tfPc = "absent"
    /\ tfPc' = "idle"
    /\ tfPower' = [v \in TfVm |-> TRUE]
    /\ tfIso' = [v \in TfVm |-> tfProvider = "nutanix"]
    /\ UNCHANGED <<tfProvider, tfAt, tfTask, tfSpoiled, tfFaults>>

\* A loop over the nodes begins: start_all_nodes, shutdown_all_nodes, or the
\* shutdown in the notify_iso_ready of vSphere (the one of Nutanix is empty).
tf_begin(op) ==
    /\ TfResting
    /\ op = "notify" => tfProvider = "vsphere"
    /\ tfPc' = op /\ tfAt' = 1 /\ tfSpoiled' = FALSE
    /\ UNCHANGED <<tfProvider, tfTask, tfPower, tfIso, tfFaults>>

\* __run_on_vm issues the task and polls it.
run_on_vm ==
    /\ tfProvider = "vsphere"
    /\ tfPc \in TfLoops /\ tfAt <= Len(TfVms) /\ tfTask = "none"
    /\ tfTask' = "running"
    /\ UNCHANGED <<tfProvider, tfPc, tfAt, tfPower, tfIso, tfSpoiled, tfFaults>>

\* The task ends; error and success are treated alike.
task_over ==
    /\ tfTask = "running"
    /\ \/ /\ tfPower' = [tfPower EXCEPT ![TfVms[tfAt]] = (tfPc = "start")]
          /\ UNCHANGED <<tfSpoiled, tfFaults>>
       \/ /\ tfFaults < MaxTfFaults /\ tfFaults' = tfFaults + 1
          /\ tfSpoiled' = TRUE
          /\ UNCHANGED tfPower
    /\ tfTask' = "none"
    /\ tfAt' = tfAt + 1
    /\ UNCHANGED <<tfProvider, tfPc, tfIso>>

\* NutanixController.start_node and shutdown_node: both power the machine on,
\* the first unless it is on, the second unless it is off.
nutanix_power ==
    /\ tfProvider = "nutanix"
    /\ tfPc \in TfLoops /\ tfAt <= Len(TfVms)
    /\ tfPower' = [tfPower EXCEPT ![TfVms[tfAt]] = (tfPc = "start") \/ @]
    /\ tfAt' = tfAt + 1
    /\ UNCHANGED <<tfProvider, tfPc, tfTask, tfIso, tfSpoiled, tfFaults>>

tf_loop_over ==
    /\ tfPc \in TfLoops /\ tfAt > Len(TfVms)
    /\ tfPc' = CASE tfPc = "start" -> "started"
                 [] tfPc = "shutdown" -> "stopped"
                 [] tfPc = "notify" -> "apply"
    /\ UNCHANGED <<tfProvider, tfAt, tfTask, tfPower, tfIso, tfSpoiled, tfFaults>>

\* The second apply gives the ISO to the machines; one that is off is powered
\* on with it, one that has stayed on does not boot again.
notify_iso_ready ==
    /\ tfPc = "apply"
    /\ tfIso' = [v \in TfVm |-> tfIso[v] \/ ~tfPower[v]]
    /\ tfPower' = [v \in TfVm |-> TRUE]
    /\ tfPc' = "isoReady"
    /\ UNCHANGED <<tfProvider, tfAt, tfTask, tfSpoiled, tfFaults>>

\* tf.destroy deletes the machines.
tf_destroy_all_nodes ==
    /\ TfResting
    /\ tfPc' = "absent"
    /\ tfPower' = [v \in TfVm |-> FALSE] /\ tfIso' = [v \in TfVm |-> FALSE]
    /\ UNCHANGED <<tfProvider, tfAt, tfTask, tfSpoiled, tfFaults>>

TfNext ==
    \/ tf_prepare_nodes \/ (\E op \in TfLoops : tf_begin(op)) \/ run_on_vm \/ task_over
    \/ nutanix_power \/ tf_loop_over \/ notify_iso_ready \/ tf_destroy_all_nodes
-----------------------------------------------------------------------------
\* When notify_iso_ready of vSphere returns and no task has failed, every node
\* has booted the discovery ISO; after shutdown_all_nodes every node is off,
\* and after start_all_nodes on.
TfOperationTookEffect ==
    ~tfSpoiled =>
        /\ tfPc = "isoReady" => \A v \in TfVm : tfIso[v] /\ tfPower[v]
        /\ tfPc = "stopped" /\ tfProvider = "vsphere" => \A v \in TfVm : ~tfPower[v]
        /\ tfPc = "started" => \A v \in TfVm : tfPower[v]
-----------------------------------------------------------------------------
\* Only vSphere has tasks and a second apply, and a task belongs to the machine
\* that the loop is at.
TasksAreOfLoops ==
    /\ tfTask = "running" => tfPc \in TfLoops /\ tfAt <= Len(TfVms) /\ tfProvider = "vsphere"
    /\ tfPc \in {"notify", "apply"} => tfProvider = "vsphere"

\* Unless a task has failed, the machines before the current one are done.
LoopIsEffective ==
    ~tfSpoiled =>
        /\ tfPc = "start" => \A i \in 1..Len(TfVms) : i < tfAt => tfPower[TfVms[i]]
        /\ tfPc \in {"shutdown", "notify"} /\ tfProvider = "vsphere" =>
              \A i \in 1..Len(TfVms) : i < tfAt => ~tfPower[TfVms[i]]
        /\ tfPc = "apply" => \A v \in TfVm : ~tfPower[v]
TfIInv == TfTypeOK /\ TasksAreOfLoops /\ LoopIsEffective /\ TfOperationTookEffect
=============================================================================
