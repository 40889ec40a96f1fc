------------------------- MODULE LibvirtNodesProofs --------------------------
(***************************************************************************)
(* Proofs about LibvirtNodes, for any number of nodes and threads.         *)
(***************************************************************************)
EXTENDS LibvirtNodes, FiniteSetTheorems, TLAPS

\* What is true of the methods of Node and their arguments.
LEMMA OperationFacts ==
  ASSUME NEW o \in Operations
  PROVE  /\ o.name \in PowerOn \cup NoPowerOn \cup BootFlows
         /\ o.order \in Orders /\ o.start \in BOOLEAN /\ o.check_ips \in BOOLEAN
         /\ o.name \in PowerOn => o.start
         /\ o.name \in NoPowerOn => ~o.start
         /\ o.name # "start" => o.check_ips
BY DEF Operations

\* The steps a method begins with, and the steps after a step.
LEMMA FirstStep ==
  ASSUME NEW o \in Operations
  PROVE  First(o) \in {"create", "format", "define", "shutdown"}
BY DEF First

LEMMA AfterStep ==
  ASSUME NEW o \in Operations, NEW step \in Steps
  PROVE  After(o, step) \in {"create", "format", "define", "shutdown", "ok"}
BY DEF After

LEMMA NodesInitHolds == Init => NodesIInv
<1> SUFFICES ASSUME Init PROVE NodesIInv
  OBVIOUS
<1>1. Running = {}
  BY DEF Init, Running, Steps
<1>2. WorkersBounded
  BY <1>1, FS_EmptySet, NodesAssumption DEF WorkersBounded
<1>3. op \in Operations
  BY DEF Init
<1>4. NodesTypeOK
  BY <1>2, <1>3, NodesAssumption DEF Init, NodesTypeOK, Orders
<1> QED
  BY <1>4
  DEF Init, NodesIInv, JobsJoined, AllEnded, Progress, AtShutdown, AtDefine, AtFormat, AtCreate,
      AtWait
-----------------------------------------------------------------------------
(***************************************************************************)
(* Types                                                                   *)
(***************************************************************************)
\* Only taking a job adds a running one, and it needs a free thread.
LEMMA WorkersBoundedPreserved ==
  ASSUME NodesTypeOK, [Next]_vars
  PROVE  WorkersBounded'
<1>0. IsFiniteSet(Running) /\ Cardinality(Running) \in Nat
  BY NodesAssumption, FS_Subset, FS_CardinalityType DEF Running
<1>1. SUFFICES \/ Running' \subseteq Running
               \/ \E n \in Nodes : /\ Running' \subseteq Running \cup {n}
                                   /\ Cardinality(Running) < MaxWorkers
  <2>1. CASE Running' \subseteq Running
    <3>1. Cardinality(Running') <= Cardinality(Running)
      BY <1>0, <2>1, FS_Subset
    <3>2. Cardinality(Running') \in Nat
      BY <1>0, <2>1, FS_Subset, FS_CardinalityType
    <3> QED
      BY <1>0, <3>1, <3>2, NodesAssumption DEF NodesTypeOK, WorkersBounded
  <2>2. ASSUME NEW n \in Nodes, Running' \subseteq Running \cup {n},
               Cardinality(Running) < MaxWorkers
        PROVE  WorkersBounded'
    <3>1. /\ IsFiniteSet(Running \cup {n})
          /\ Cardinality(Running \cup {n}) <= Cardinality(Running) + 1
      BY <1>0, FS_AddElement
    <3>2. /\ Cardinality(Running') <= Cardinality(Running \cup {n})
          /\ Cardinality(Running') \in Nat /\ Cardinality(Running \cup {n}) \in Nat
      BY <2>2, <3>1, FS_Subset, FS_CardinalityType
    <3> QED
      BY <1>0, <2>2, <3>1, <3>2, NodesAssumption DEF WorkersBounded
  <2> QED
    BY <2>1, <2>2, <1>1
<1>2. CASE UNCHANGED vars
  BY <1>2 DEF vars, Running
<1>3. CASE \E o \in Operations, nodes \in (SUBSET Nodes) \ {{}} : run_for_given_nodes(o, nodes)
  BY <1>3 DEF run_for_given_nodes, Running, Steps
<1>4. CASE resultRaises \/ leaveExecutor
  BY <1>4 DEF resultRaises, leaveExecutor, Running
<1>5. ASSUME NEW n \in Nodes, takeJob(n)
      PROVE  Running' \subseteq Running \cup {n} /\ Cardinality(Running) < MaxWorkers
  BY <1>5 DEF takeJob, To, Running, NodesTypeOK
<1>6. ASSUME NEW n \in Nodes, JobStep(n) \/ guestGetsAddress(n)
      PROVE  Running' \subseteq Running
  BY <1>6
  DEF JobStep, shutdown_node, set_boot_order, format_node_disk, start_node,
      wait_till_domain_has_ips, waitTimesOut, stepRaises, guestGetsAddress, To, Running, Steps,
      NodesTypeOK
<1> QED
  BY <1>2, <1>3, <1>4, <1>5, <1>6 DEF Next

\* Every step keeps the types.
LEMMA NodesTypePreserved ==
  ASSUME NodesTypeOK, [Next]_vars
  PROVE  NodesTypeOK'
<1> USE DEF NodesTypeOK
<1>0. WorkersBounded'
  BY WorkersBoundedPreserved
<1>1. CASE UNCHANGED vars
  BY <1>0, <1>1 DEF vars
<1>2. ASSUME NEW o \in Operations, NEW nodes \in SUBSET Nodes, run_for_given_nodes(o, nodes)
      PROVE  NodesTypeOK'
  BY <1>0, <1>2, NodesAssumption DEF run_for_given_nodes, domains
<1>3. CASE resultRaises \/ leaveExecutor
  BY <1>0, <1>3 DEF resultRaises, leaveExecutor, domains
<1>4. ASSUME NEW n \in Nodes, takeJob(n) PROVE NodesTypeOK'
  BY <1>0, <1>4, FirstStep DEF takeJob, To, domains, Steps
<1>5. ASSUME NEW n \in Nodes, JobStep(n) PROVE NodesTypeOK'
  <2>1. CASE shutdown_node(n)
    BY <1>0, <2>1, AfterStep DEF shutdown_node, To, Steps, Ended
  <2>2. CASE set_boot_order(n)
    BY <1>0, <2>2, AfterStep, OperationFacts DEF set_boot_order, To, Steps, Ended
  <2>3. CASE format_node_disk(n)
    BY <1>0, <2>3, AfterStep DEF format_node_disk, To, Steps, Ended
  <2>4. CASE start_node(n)
    BY <1>0, <2>4 DEF start_node, Created, To, Steps, Ended
  <2>5. CASE wait_till_domain_has_ips(n) \/ stepRaises(n)
    BY <1>0, <2>5 DEF wait_till_domain_has_ips, stepRaises, To, domains, Steps, Ended
  <2>6. CASE waitTimesOut(n)
    BY <1>0, <2>6 DEF waitTimesOut, Created, To, Steps, Ended
  <2> QED
    BY <1>5, <2>1, <2>2, <2>3, <2>4, <2>5, <2>6 DEF JobStep
<1>6. ASSUME NEW n \in Nodes, guestGetsAddress(n) PROVE NodesTypeOK'
  BY <1>0, <1>6 DEF guestGetsAddress
<1> QED
  BY <1>1, <1>2, <1>3, <1>4, <1>5, <1>6 DEF Next
-----------------------------------------------------------------------------
(***************************************************************************)
(* Progress                                                                *)
(***************************************************************************)
\* A node none of whose state changes keeps what was achieved on it.
LEMMA Untouched ==
  ASSUME NEW m \in Nodes, Progress(m), op' = op, job'[m] = job[m], active'[m] = active[m],
         addr'[m] = addr[m], config'[m] = config[m], live'[m] = live[m], disk'[m] = disk[m]
  PROVE  Progress(m)'
BY DEF Progress, AtShutdown, AtDefine, AtFormat, AtCreate, AtWait, Effect

\* A step of the job of n touches n alone.
LEMMA StepIsLocal ==
  ASSUME NodesTypeOK, NEW n \in Nodes, takeJob(n) \/ JobStep(n) \/ guestGetsAddress(n),
         NEW m \in Nodes, m # n
  PROVE  /\ op' = op /\ job'[m] = job[m] /\ active'[m] = active[m] /\ addr'[m] = addr[m]
         /\ config'[m] = config[m] /\ live'[m] = live[m] /\ disk'[m] = disk[m]
<1> USE DEF NodesTypeOK, To, domains
<1>1. CASE takeJob(n)
  BY <1>1 DEF takeJob
<1>2. CASE shutdown_node(n) \/ set_boot_order(n) \/ format_node_disk(n)
  BY <1>2 DEF shutdown_node, set_boot_order, format_node_disk
<1>3. CASE start_node(n) \/ waitTimesOut(n)
  BY <1>3 DEF start_node, waitTimesOut, Created
<1>4. CASE wait_till_domain_has_ips(n) \/ stepRaises(n) \/ guestGetsAddress(n)
  BY <1>4 DEF wait_till_domain_has_ips, stepRaises, guestGetsAddress
<1> QED
  BY <1>1, <1>2, <1>3, <1>4 DEF JobStep

\* A step of the job of n keeps what is promised of n.
LEMMA StepProgresses ==
  ASSUME NodesTypeOK, NEW n \in Nodes, Progress(n),
         takeJob(n) \/ JobStep(n) \/ guestGetsAddress(n)
  PROVE  Progress(n)'
<1> USE DEF NodesTypeOK, To
<1>0. op \in Operations
  OBVIOUS
<1>1. CASE takeJob(n)
  <2>1. job'[n] = First(op) /\ op' = op
    BY <1>1 DEF takeJob
  <2> QED
    BY <2>1, <1>0, OperationFacts
    DEF First, Progress, AtShutdown, AtDefine, AtFormat, AtCreate, AtWait, PowerOn, NoPowerOn,
        BootFlows, BootMethods
<1>2. CASE shutdown_node(n)
  <2>1. /\ job[n] = "shutdown" /\ job'[n] = After(op, "shutdown") /\ op' = op
        /\ active'[n] = FALSE /\ config' = config
    BY <1>2 DEF shutdown_node
  <2> QED
    BY <2>1, <1>0, OperationFacts
    DEF After, Progress, AtShutdown, AtDefine, AtFormat, AtCreate, AtWait, Effect, PowerOn,
        NoPowerOn, BootFlows, BootMethods
<1>3. CASE set_boot_order(n)
  <2>1. /\ job[n] = "define" /\ job'[n] = After(op, "define") /\ op' = op
        /\ active' = active /\ config'[n] = op.order
    BY <1>3 DEF set_boot_order
  <2> QED
    BY <2>1, <1>0, OperationFacts
    DEF After, Progress, AtShutdown, AtDefine, AtFormat, AtCreate, AtWait, Effect, PowerOn,
        NoPowerOn, BootFlows, BootMethods
<1>4. CASE format_node_disk(n)
  <2>1. /\ job[n] = "format" /\ job'[n] = After(op, "format") /\ op' = op
        /\ active' = active /\ disk'[n] = IF active[n] THEN "written" ELSE "blank"
    BY <1>4 DEF format_node_disk
  <2> QED
    BY <2>1, <1>0, OperationFacts
    DEF After, Progress, AtShutdown, AtDefine, AtFormat, AtCreate, AtWait, Effect, PowerOn,
        NoPowerOn, BootFlows, BootMethods
<1>5. CASE start_node(n)
  <2>1. job[n] = "create" /\ op' = op /\ config' = config
    BY <1>5 DEF start_node
  <2>2. \/ active[n] /\ job'[n] = "ok" /\ active' = active
        \/ /\ active'[n] = TRUE /\ live'[n] = config[n]
           /\ job'[n] = IF op.check_ips THEN "wait" ELSE "ok"
    BY <1>5 DEF start_node, Created
  <2> QED
    BY <2>1, <2>2, <1>0, OperationFacts
    DEF Progress, AtShutdown, AtDefine, AtFormat, AtCreate, AtWait, Effect, PowerOn, NoPowerOn,
        BootFlows, BootMethods
<1>6. CASE wait_till_domain_has_ips(n)
  <2>1. /\ job[n] \in {"wait", "last_wait"} /\ job'[n] = "ok" /\ addr[n]
        /\ op' = op /\ UNCHANGED domains
    BY <1>6 DEF wait_till_domain_has_ips
  <2> QED
    BY <2>1, <1>0, OperationFacts
    DEF domains, Progress, AtShutdown, AtDefine, AtFormat, AtCreate, AtWait, Effect, PowerOn,
        NoPowerOn, BootFlows, BootMethods
<1>7. CASE waitTimesOut(n)
  <2>1. op' = op /\ config' = config /\ job[n] \in {"wait", "last_wait"}
    BY <1>7 DEF waitTimesOut
  <2>2. \/ job'[n] = "last_wait" /\ active'[n] = TRUE /\ live'[n] = config[n]
        \/ job'[n] = "failed"
    BY <1>7 DEF waitTimesOut, Created
  <2> QED
    BY <2>1, <2>2 DEF Progress, AtShutdown, AtDefine, AtFormat, AtCreate, AtWait
<1>8. CASE stepRaises(n)
  BY <1>8 DEF stepRaises, Progress, AtShutdown, AtDefine, AtFormat, AtCreate, AtWait
<1>9. CASE guestGetsAddress(n)
  BY <1>9
  DEF guestGetsAddress, Progress, AtShutdown, AtDefine, AtFormat, AtCreate, AtWait, Effect
<1> QED
  BY <1>1, <1>2, <1>3, <1>4, <1>5, <1>6, <1>7, <1>8, <1>9 DEF JobStep

\* The inductive invariant is kept by every step.
LEMMA NodesStep ==
  ASSUME NodesIInv, [Next]_vars
  PROVE  NodesIInv'
<1>0. NodesTypeOK /\ JobsJoined /\ \A n \in Nodes : Progress(n)
  BY DEF NodesIInv
<1>1. NodesTypeOK'
  BY <1>0, NodesTypePreserved
<1>2. JobsJoined' /\ \A m \in Nodes : Progress(m)'
  <2>1. CASE UNCHANGED vars
    <3>1. JobsJoined'
      BY <1>0, <2>1 DEF vars, JobsJoined, AllEnded
    <3> QED
      BY <1>0, <2>1, <3>1, Untouched DEF vars
  <2>2. ASSUME NEW o \in Operations, NEW nodes \in SUBSET Nodes, run_for_given_nodes(o, nodes)
        PROVE  JobsJoined' /\ \A m \in Nodes : Progress(m)'
    BY <2>2
    DEF run_for_given_nodes, JobsJoined, Progress, AtShutdown, AtDefine, AtFormat, AtCreate,
        AtWait
  <2>3. CASE resultRaises \/ leaveExecutor
    <3>1. UNCHANGED <<op, job>> /\ UNCHANGED domains
      BY <2>3 DEF resultRaises, leaveExecutor
    <3>2. JobsJoined'
      BY <2>3, <3>1 DEF resultRaises, leaveExecutor, JobsJoined, AllEnded
    <3> QED
      BY <1>0, <3>1, <3>2, Untouched DEF domains
  <2>4. ASSUME NEW n \in Nodes, takeJob(n) \/ JobStep(n) \/ guestGetsAddress(n)
        PROVE  JobsJoined' /\ \A m \in Nodes : Progress(m)'
    <3>1. ASSUME NEW m \in Nodes, m # n PROVE Progress(m)'
      BY <1>0, <2>4, <3>1, StepIsLocal, Untouched
    <3>2. Progress(n)'
      BY <1>0, <2>4, StepProgresses
    <3>3. driver' = driver /\ (driver = "idle" => job' = job)
      BY <1>0, <2>4
      DEF takeJob, JobStep, shutdown_node, set_boot_order, format_node_disk, start_node,
          wait_till_domain_has_ips, waitTimesOut, stepRaises, guestGetsAddress, JobsJoined,
          AllEnded, Ended
    <3> QED
      BY <1>0, <3>1, <3>2, <3>3 DEF JobsJoined, AllEnded
  <2> QED
    BY <2>1, <2>2, <2>3, <2>4 DEF Next
<1> QED
  BY <1>1, <1>2 DEF NodesIInv
-----------------------------------------------------------------------------
(***************************************************************************)
(* The state of the nodes and of the pool is well typed, and no more jobs  *)
(* run than the pool has threads.                                          *)
(***************************************************************************)
THEOREM NodesTypeCorrect == Spec => []NodesTypeOK
<1>1. NodesIInv /\ [Next]_vars => NodesIInv'
  BY NodesStep
<1>2. NodesIInv => NodesTypeOK
  BY DEF NodesIInv
<1> QED
  BY <1>1, <1>2, NodesInitHolds, PTL DEF Spec

(***************************************************************************)
(* For any number of nodes and threads, an operation of Nodes that does    *)
(* not raise took effect on every node it was given.                       *)
(***************************************************************************)
THEOREM OperationsTakeEffect == Spec => []OperationTookEffect
<1>1. NodesIInv /\ [Next]_vars => NodesIInv'
  BY NodesStep
<1>2. (NodesIInv /\ OkMeansOk) => OperationTookEffect
  BY
  DEF NodesIInv, OkMeansOk, JobsJoined, AllEnded, SomeFailed, Progress, OperationTookEffect,
      Given, Ended
<1>3. Init => OkMeansOk
  BY DEF Init, OkMeansOk
<1>4. NodesIInv /\ OkMeansOk /\ [Next]_vars => OkMeansOk'
  <2> SUFFICES ASSUME NodesIInv, OkMeansOk, [Next]_vars PROVE OkMeansOk'
    OBVIOUS
  <2>1. CASE UNCHANGED vars
    BY <2>1 DEF vars, OkMeansOk, SomeFailed
  <2>2. ASSUME NEW o \in Operations, NEW nodes \in SUBSET Nodes, run_for_given_nodes(o, nodes)
        PROVE  OkMeansOk'
    BY <2>2 DEF run_for_given_nodes, OkMeansOk
  <2>3. CASE resultRaises \/ leaveExecutor
    BY <2>3 DEF resultRaises, leaveExecutor, OkMeansOk, SomeFailed
  <2>4. ASSUME NEW n \in Nodes, takeJob(n) \/ JobStep(n) \/ guestGetsAddress(n)
        PROVE  OkMeansOk'
    BY <2>4
    DEF OkMeansOk, takeJob, JobStep, shutdown_node, set_boot_order, format_node_disk, start_node,
        wait_till_domain_has_ips, waitTimesOut, stepRaises, guestGetsAddress, NodesIInv,
        JobsJoined, AllEnded, Ended, SomeFailed
  <2> QED
    BY <2>1, <2>2, <2>3, <2>4 DEF Next
<1> QED
  BY <1>1, <1>2, <1>3, <1>4, NodesInitHolds, PTL DEF Spec

(***************************************************************************)
(* For any number of nodes and threads, Node.reset starts a node with an   *)
(* empty disk.                                                             *)
(***************************************************************************)
THEOREM ResetsStartBlank == Spec => []ResetStartsBlank
<1>1. NodesIInv /\ [Next]_vars => NodesIInv'
  BY NodesStep
<1>2. NodesIInv => ResetStartsBlank
  BY DEF NodesIInv, ResetStartsBlank, Progress, AtCreate
<1> QED
  BY <1>1, <1>2, NodesInitHolds, PTL DEF Spec

(***************************************************************************)
(* run_concurrently leaves no thread behind, for any number of nodes, also *)
(* when jobs raise.                                                        *)
(***************************************************************************)
THEOREM OperationsAreQuiet == Spec => QuietBetweenOperations
<1>1. NodesIInv /\ [Next]_vars => NodesIInv'
  BY NodesStep
<1>2. NodesIInv /\ [Next]_vars => [driver = "idle" => UNCHANGED <<active, config, live>>]_vars
  <2> SUFFICES ASSUME NodesIInv, Next, driver = "idle" PROVE UNCHANGED <<active, config, live>>
    OBVIOUS
  <2>1. AllEnded
    BY DEF NodesIInv, JobsJoined
  <2>2. CASE \E o \in Operations, nodes \in (SUBSET Nodes) \ {{}} : run_for_given_nodes(o, nodes)
    BY <2>2 DEF run_for_given_nodes, domains
  <2>3. CASE resultRaises \/ leaveExecutor
    BY <2>3 DEF resultRaises, leaveExecutor, domains
  <2>4. ASSUME NEW n \in Nodes, takeJob(n) \/ JobStep(n) \/ guestGetsAddress(n)
        PROVE  UNCHANGED <<active, config, live>>
    BY <2>1, <2>4
    DEF takeJob, JobStep, shutdown_node, set_boot_order, format_node_disk, start_node,
        wait_till_domain_has_ips, waitTimesOut, stepRaises, guestGetsAddress, AllEnded, Ended,
        domains
  <2> QED
    BY <2>2, <2>3, <2>4 DEF Next
<1> QED
  BY <1>1, <1>2, NodesInitHolds, PTL DEF Spec, QuietBetweenOperations
=============================================================================
