---------------------------- MODULE LibvirtNodes -----------------------------
(***************************************************************************)
(* Operations on the nodes of a session: Nodes hands one job per node to   *)
(* the thread pool of run_concurrently, and a job is a method of Node,     *)
(* made of the steps of LibvirtController: shut the domain down, define    *)
(* its boot order, format its first disk, create it and wait for its       *)
(* addresses.  A domain that runs has a live definition, copied from the   *)
(* persistent one when it was created; one that does not run shows the     *)
(* persistent one.                                                         *)
(***************************************************************************)
EXTENDS Integers, FiniteSets

CONSTANTS
    Nodes,          \* the domains of the session, numbered in the order of list_nodes
    MaxWorkers,     \* max_workers of run_concurrently
    MaxOps          \* bound on the operations of the test

ASSUME NodesAssumption ==
    /\ Nodes \subseteq Nat /\ IsFiniteSet(Nodes)
    /\ MaxWorkers \in Nat \ {0}
    /\ MaxOps \in Nat

VARIABLES
    active,     \* whether the domain runs
    addr,       \* whether the running guest has an address
    config,     \* the boot order of the persistent definition
    live,       \* the boot order XMLDesc(0) shows: the one the domain was started with
    disk,       \* what is on the first disk
    op,         \* the method that is run
    job,        \* where the job of each node is, "none" if it was not given
    driver,     \* the thread that called run_concurrently
    outcome,    \* how the last operation ended
    ops         \* the operations so far

domains == <<active, addr, config, live, disk>>
vars == <<active, addr, config, live, disk, op, job, driver, outcome, ops>>

Orders == {"hd", "cdrom"}

BootFlows == {"set_boot_order_flow", "set_per_device_boot_order"}
BootMethods == {"set_boot_order"} \cup BootFlows
PowerOn == {"start", "restart", "reset", "set_per_device_boot_order"}
NoPowerOn == {"shutdown", "format_disk", "set_boot_order"}

\* The methods of Node with their arguments; start says whether they power on.
Operations ==
    {o \in [name : PowerOn \cup NoPowerOn \cup BootFlows,
            order : Orders, start : BOOLEAN, check_ips : BOOLEAN] :
        /\ o.name \in PowerOn => o.start
        /\ o.name \in NoPowerOn => ~o.start
        /\ o.name # "start" => o.check_ips
        /\ o.name \notin BootMethods => o.order = "hd"}

Steps == {"shutdown", "define", "format", "create", "wait", "last_wait"}
Ended == {"ok", "failed"}
Running == {n \in Nodes : job[n] \in Steps}

WorkersBounded == Cardinality(Running) <= MaxWorkers

NodesTypeOK ==
    /\ active \in [Nodes -> BOOLEAN]
    /\ addr \in [Nodes -> BOOLEAN]
    /\ config \in [Nodes -> Orders]
    /\ live \in [Nodes -> Orders]
    /\ disk \in [Nodes -> {"blank", "written"}]
    /\ op \in Operations
    /\ job \in [Nodes -> Steps \cup Ended \cup {"none", "queued"}]
    /\ driver \in {"idle", "running", "leaving"}
    /\ outcome \in {"none", "ok", "raised"}
    /\ ops \in 0 .. MaxOps
    /\ WorkersBounded

\* The nodes as terraform leaves them: defined, and not running.
Init ==
    /\ active = [n \in Nodes |-> FALSE]
    /\ addr = [n \in Nodes |-> FALSE]
    /\ config = [n \in Nodes |-> "hd"]
    /\ live = [n \in Nodes |-> "hd"]
    /\ disk = [n \in Nodes |-> "blank"]
    /\ op \in {o \in Operations : o.name = "shutdown"}
    /\ job = [n \in Nodes |-> "none"]
    /\ driver = "idle"
    /\ outcome = "none"
    /\ ops = 0
-----------------------------------------------------------------------------
(***************************************************************************)
(* run_concurrently                                                        *)
(***************************************************************************)
\* run_for_given_nodes: a job per node is submitted to the pool.
run_for_given_nodes(o, nodes) ==
    /\ driver = "idle"
    /\ ops < MaxOps
    /\ ops' = ops + 1
    /\ driver' = "running"
    /\ op' = o
    /\ job' = [n \in Nodes |-> IF n \in nodes THEN "queued" ELSE "none"]
    /\ outcome' = "none"
    /\ UNCHANGED domains

\* Mutant: the boot order is set on a node that may be running.
First_Running(o) ==
    CASE o.name = "start" -> "create"
      [] o.name = "format_disk" -> "format"
      [] o.name \in BootMethods -> "define"
      [] OTHER -> "shutdown"

\* The first step of a method, and the step after a step.
First(o) ==
    CASE o.name = "start" -> "create"
      [] o.name = "format_disk" -> "format"
      [] o.name \in {"set_boot_order", "set_per_device_boot_order"} -> "define"
      [] OTHER -> "shutdown"

After(o, step) ==
    CASE step = "shutdown" /\ o.name = "reset" -> "format"
      [] step = "shutdown" /\ o.name = "set_boot_order_flow" -> "define"
      [] step = "define" /\ o.name = "set_per_device_boot_order" -> "shutdown"
      [] OTHER -> IF o.start /\ step # "create" THEN "create" ELSE "ok"

To(n, step) == job' = [job EXCEPT ![n] = step]

\* Mutant: as many threads as jobs.
takeJob_Unbounded(n) ==
    /\ job[n] = "queued"
    /\ To(n, First(op))
    /\ UNCHANGED <<domains, op, driver, outcome, ops>>

\* A worker of the pool takes the oldest job.
takeJob(n) ==
    /\ job[n] = "queued"
    /\ \A m \in Nodes : job[m] = "queued" => n <= m
    /\ Cardinality(Running) < MaxWorkers
    /\ To(n, First(op))
    /\ UNCHANGED <<domains, op, driver, outcome, ops>>

AllEnded == \A n \in Nodes : job[n] \in Ended \cup {"none"}
SomeFailed == \E n \in Nodes : job[n] = "failed"

\* future.result raises in the body of the with statement of the executor.
resultRaises ==
    /\ driver = "running"
    /\ SomeFailed
    /\ driver' = "leaving"
    /\ UNCHANGED <<domains, op, job, outcome, ops>>

\* Mutant: an exception does not wait for the other jobs.
leaveExecutor_Early ==
    /\ \/ driver = "running" /\ AllEnded /\ ~SomeFailed /\ outcome' = "ok"
       \/ driver = "leaving" /\ outcome' = "raised"
    /\ driver' = "idle"
    /\ UNCHANGED <<domains, op, job, ops>>

\* The executor is left when all its jobs have ended, with or without an
\* exception: nothing is cancelled.
leaveExecutor ==
    /\ AllEnded
    /\ \/ driver = "running" /\ ~SomeFailed /\ outcome' = "ok"
       \/ driver = "leaving" /\ outcome' = "raised"
    /\ driver' = "idle"
    /\ UNCHANGED <<domains, op, job, ops>>
-----------------------------------------------------------------------------
(***************************************************************************)
(* The steps of LibvirtController                                          *)
(***************************************************************************)
\* Mutant: the guest is asked to shut down, and nobody waits for it.
shutdown_node_Asks(n) ==
    /\ job[n] = "shutdown"
    /\ To(n, After(op, "shutdown"))
    /\ UNCHANGED <<domains, op, driver, outcome, ops>>

\* shutdown_node: destroy, if the domain is active.
shutdown_node(n) ==
    /\ job[n] = "shutdown"
    /\ active' = [active EXCEPT ![n] = FALSE]
    /\ addr' = [addr EXCEPT ![n] = FALSE]
    /\ live' = [live EXCEPT ![n] = config[n]]
    /\ To(n, After(op, "shutdown"))
    /\ UNCHANGED <<config, disk, op, driver, outcome, ops>>

\* set_boot_order and the first part of set_per_device_boot_order: XMLDesc,
\* the boot elements replaced, defineXML.
set_boot_order(n) ==
    /\ job[n] = "define"
    /\ config' = [config EXCEPT ![n] = op.order]
    /\ live' = [live EXCEPT ![n] = IF active[n] THEN @ ELSE op.order]
    /\ To(n, After(op, "define"))
    /\ UNCHANGED <<active, addr, disk, op, driver, outcome, ops>>

\* qemu-img create over the disk; a guest that runs goes on writing to it.
format_node_disk(n) ==
    /\ job[n] = "format"
    /\ disk' = [disk EXCEPT ![n] = IF active[n] THEN "written" ELSE "blank"]
    /\ To(n, After(op, "format"))
    /\ UNCHANGED <<active, addr, config, live, op, driver, outcome, ops>>

\* The domain runs, with the persistent definition, has no address yet and
\* writes to its disk.
Created(n) ==
    /\ disk' = [disk EXCEPT ![n] = "written"]
    /\ active' = [active EXCEPT ![n] = TRUE]
    /\ addr' = [addr EXCEPT ![n] = FALSE]
    /\ live' = [live EXCEPT ![n] = config[n]]

\* start_node: an active domain is left alone, its addresses included.
start_node(n) ==
    /\ job[n] = "create"
    /\ \/ active[n] /\ To(n, "ok") /\ UNCHANGED <<active, addr, live, disk>>
       \/ ~active[n] /\ Created(n) /\ To(n, IF op.check_ips THEN "wait" ELSE "ok")
    /\ UNCHANGED <<config, op, driver, outcome, ops>>

wait_till_domain_has_ips(n) ==
    /\ job[n] \in {"wait", "last_wait"}
    /\ addr[n]
    /\ To(n, "ok")
    /\ UNCHANGED <<domains, op, driver, outcome, ops>>

\* Mutant: the retry is retried.
waitTimesOut_Again(n) ==
    /\ job[n] = "wait"
    /\ ~addr[n]
    /\ Created(n)
    /\ UNCHANGED <<config, op, job, driver, outcome, ops>>

\* The wait times out: the domain is shut down and created once more, which
\* may fail in between; the second timeout is not caught.
waitTimesOut(n) ==
    /\ ~addr[n]
    /\ \/ job[n] = "wait" /\ Created(n) /\ To(n, "last_wait")
       \/ /\ job[n] = "wait"
          /\ active' = [active EXCEPT ![n] = FALSE]
          /\ live' = [live EXCEPT ![n] = config[n]]
          /\ To(n, "failed")
          /\ UNCHANGED <<addr, disk>>
       \/ job[n] = "last_wait" /\ To(n, "failed") /\ UNCHANGED <<active, addr, live, disk>>
    /\ UNCHANGED <<config, op, driver, outcome, ops>>

\* A libvirt or qemu-img error: the job raises.
stepRaises(n) ==
    /\ job[n] \in {"shutdown", "define", "format", "create"}
    /\ To(n, "failed")
    /\ UNCHANGED <<domains, op, driver, outcome, ops>>

\* The guest gets an address.
guestGetsAddress(n) ==
    /\ active[n] /\ ~addr[n]
    /\ addr' = [addr EXCEPT ![n] = TRUE]
    /\ UNCHANGED <<active, config, live, disk, op, job, driver, outcome, ops>>
-----------------------------------------------------------------------------
JobStep(n) ==
    \/ shutdown_node(n) \/ set_boot_order(n) \/ format_node_disk(n) \/ start_node(n)
    \/ wait_till_domain_has_ips(n) \/ waitTimesOut(n) \/ stepRaises(n)

Next ==
    \/ \E o \in Operations, nodes \in (SUBSET Nodes) \ {{}} : run_for_given_nodes(o, nodes)
    \/ resultRaises \/ leaveExecutor
    \/ \E n \in Nodes : takeJob(n) \/ JobStep(n) \/ guestGetsAddress(n)

Spec == Init /\ [][Next]_vars

(***************************************************************************)
(* The threads of the pool run, every wait has a timeout, and the caller   *)
(* goes on when the pool is left.  Guests owe nothing.                     *)
(***************************************************************************)
Fairness ==
    /\ WF_vars(resultRaises \/ leaveExecutor)
    /\ \A n \in Nodes : WF_vars(takeJob(n)) /\ WF_vars(JobStep(n))

LiveSpec == Spec /\ Fairness
-----------------------------------------------------------------------------
Given == {n \in Nodes : job[n] # "none"}

\* What a method of Node promises of its node.
Effect(n) ==
    /\ op.name # "set_boot_order" /\ op.name # "format_disk" => active[n] = op.start
    /\ op.name \in {"restart", "reset"} => addr[n]
    /\ op.name \in BootMethods => config[n] = op.order
    /\ op.name \in BootFlows /\ op.start => live[n] = op.order /\ addr[n]

(***************************************************************************)
(* An operation that returns without an exception took effect on every     *)
(* node it was given: the nodes are on or off, the ones that were started  *)
(* afresh have addresses, and they run with the boot order that was set,   *)
(* whatever state they were in and however the jobs were interleaved.      *)
(***************************************************************************)
OperationTookEffect ==
    driver = "idle" /\ outcome = "ok" => \A n \in Given : Effect(n)

(***************************************************************************)
(* A host that is reset comes up with an empty disk: nothing that ran on   *)
(* the node before writes to it between the formatting and the start       *)
(* (Node.reset, used after a cluster was reset).                           *)
(***************************************************************************)
ResetStartsBlank ==
    \A n \in Nodes : op.name = "reset" /\ job[n] = "create" => ~active[n] /\ disk[n] = "blank"

(***************************************************************************)
(* Once run_concurrently has returned or raised, no thread of it goes on   *)
(* working on the nodes: their power and their definitions change during   *)
(* an operation only, even when one of several jobs has failed.            *)
(***************************************************************************)
QuietBetweenOperations ==
    [][driver = "idle" => UNCHANGED <<active, config, live>>]_vars

(***************************************************************************)
(* Every operation ends, also with more nodes than threads, nodes that     *)
(* never get an address and jobs that raise.                               *)
(***************************************************************************)
OperationEnds == driver = "running" ~> driver = "idle"
-----------------------------------------------------------------------------
(***************************************************************************)
(* The inductive invariant: what has been achieved on a node when its job  *)
(* is at a given step.                                                     *)
(***************************************************************************)
JobsJoined == driver = "idle" => AllEnded

AtShutdown(n) ==
    job[n] = "shutdown" =>
        /\ op.name \in {"shutdown", "restart", "reset"} \cup BootFlows
        /\ op.name = "set_per_device_boot_order" => config[n] = op.order

AtDefine(n) ==
    job[n] = "define" =>
        /\ op.name \in BootMethods
        /\ op.name = "set_boot_order_flow" => ~active[n]

AtFormat(n) ==
    job[n] = "format" =>
        /\ op.name \in {"reset", "format_disk"}
        /\ op.name = "reset" => ~active[n]

AtCreate(n) ==
    job[n] = "create" =>
        /\ op.start
        /\ op.name # "start" => ~active[n]
        /\ op.name = "reset" => disk[n] = "blank"
        /\ op.name \in BootFlows => config[n] = op.order

AtWait(n) ==
    job[n] \in {"wait", "last_wait"} =>
        /\ op.start
        /\ active[n] /\ live[n] = config[n]
        /\ op.name \in BootFlows => config[n] = op.order

Progress(n) ==
    /\ AtShutdown(n) /\ AtDefine(n) /\ AtFormat(n) /\ AtCreate(n) /\ AtWait(n)
    /\ job[n] = "ok" => Effect(n)

OkMeansOk == driver = "idle" /\ outcome = "ok" => ~SomeFailed

NodesIInv ==
    /\ NodesTypeOK
    /\ JobsJoined
    /\ \A n \in Nodes : Progress(n)
=============================================================================
