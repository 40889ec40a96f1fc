--------------------------- MODULE TerraformNodes ----------------------------
(***************************************************************************)
(* The virtual machines of test sessions that share a hypervisor.  A       *)
(* session creates its domains, storage pool and networks with terraform,  *)
(* which is applied again when it fails, and destroys them in two ways:    *)
(* terraform destroy, whose result nobody looks at, and then virsh, which  *)
(* lists everything whose name contains the name of the session and        *)
(* deletes it, under the file lock all sessions share.  The machines of a  *)
(* session stand for one domain, its two networks for one.                 *)
(***************************************************************************)
EXTENDS Integers, FiniteSets

CONSTANTS
    Sessions,       \* the sessions, each with a name of its own
    SkipList,       \* names that are not sessions and are never cleaned: minikube
    Contains,       \* <<s, t>>: grep with the names of s finds the resources of t
    Local,          \* the sessions whose libvirt_uri is qemu:///system
    Attempts,       \* TF_APPLY_ATTEMPTS
    MaxFaults,      \* bound on the failures of terraform
    NoOne           \* the lock is free

Owners == Sessions \cup SkipList

ASSUME TerraformAssumption ==
    /\ Contains \subseteq Sessions \X Owners
    /\ \A s \in Sessions : <<s, s>> \in Contains
    /\ Local \subseteq Owners
    /\ SkipList \cap Sessions = {}
    /\ Attempts \in Nat \ {0}
    /\ MaxFaults \in Nat
    /\ NoOne \notin Sessions

VARIABLES
    exists,     \* the resources on the hypervisors, each <<owner, kind>>
    tfstate,    \* the kinds in the state file of each session
    pc,         \* what each session does
    attempts,   \* the argument of TerraformUtils.apply
    listed,     \* what virsh list printed and the loop has not reached yet
    lock,       \* the holder of the file lock
    missed,     \* the resources whose deletion by virsh failed
    faults      \* the failures of terraform so far

vars == <<exists, tfstate, pc, attempts, listed, lock, missed, faults>>

Kinds == {"pool", "network", "domain"}
Resources == Owners \X Kinds

PC ==
    { "idle", "apply", "ready", "raised", "clean", "domains", "pools", "networks",
      "remove_state", "done", "killed" }

Cleaning == {"domains", "pools", "networks"}

TerraformTypeOK ==
    /\ exists \subseteq Resources
    /\ tfstate \in [Sessions -> SUBSET Kinds]
    /\ pc \in [Sessions -> PC]
    /\ attempts \in [Sessions -> 1 .. Attempts]
    /\ listed \in [Sessions -> SUBSET Resources]
    /\ lock \in Sessions \cup {NoOne}
    /\ missed \subseteq Resources
    /\ faults \in 0 .. MaxFaults

Init ==
    /\ exists = SkipList \X Kinds
    /\ tfstate = [s \in Sessions |-> {}]
    /\ pc = [s \in Sessions |-> "idle"]
    /\ attempts = [s \in Sessions |-> Attempts]
    /\ listed = [s \in Sessions |-> {}]
    /\ lock = NoOne
    /\ missed = {}
    /\ faults = 0
-----------------------------------------------------------------------------
Goto(s, from, to) ==
    /\ pc[s] = from
    /\ pc' = [pc EXCEPT ![s] = to]

Fault ==
    /\ faults < MaxFaults
    /\ faults' = faults + 1

(***************************************************************************)
(* prepare_nodes                                                           *)
(***************************************************************************)
\* _create_nodes up to tf.apply: the parameters are written to the tfvars file.
prepare_nodes(s) ==
    /\ Goto(s, "idle", "apply")
    /\ attempts' = [attempts EXCEPT ![s] = Attempts]
    /\ UNCHANGED <<exists, tfstate, listed, lock, missed, faults>>

\* terraform creates what is missing, the domains last.  When the provider
\* fails half-way the resource exists and the state does not know of it.
create_resource(s, k) ==
    /\ pc[s] = "apply"
    /\ <<s, k>> \notin exists
    /\ k = "domain" => {"pool", "network"} \subseteq tfstate[s]
    /\ exists' = exists \cup {<<s, k>>}
    /\ \/ tfstate' = [tfstate EXCEPT ![s] = @ \cup {k}] /\ UNCHANGED faults
       \/ Fault /\ UNCHANGED tfstate
    /\ UNCHANGED <<pc, attempts, listed, lock, missed>>

applySucceeds(s) ==
    /\ Goto(s, "apply", "ready")
    /\ \A k \in Kinds : k \in tfstate[s] /\ <<s, k>> \in exists
    /\ UNCHANGED <<exists, tfstate, attempts, listed, lock, missed, faults>>

\* Mutant: the last attempt is not the last.
applyFails_OffByOne(s) ==
    /\ pc[s] = "apply"
    /\ \/ Fault
       \/ (\E k \in Kinds : <<s, k>> \in exists /\ k \notin tfstate[s]) /\ UNCHANGED faults
    /\ IF attempts[s] = 0
       THEN pc' = [pc EXCEPT ![s] = "raised"] /\ UNCHANGED attempts
       ELSE attempts' = [attempts EXCEPT ![s] = @ - 1] /\ UNCHANGED pc
    /\ UNCHANGED <<exists, tfstate, listed, lock, missed>>

\* A failed apply: a fault, or something is there already that the state does
\* not know of.  The last attempt raises.
applyFails(s) ==
    /\ pc[s] = "apply"
    /\ \/ Fault
       \/ (\E k \in Kinds : <<s, k>> \in exists /\ k \notin tfstate[s]) /\ UNCHANGED faults
    /\ IF attempts[s] = 1
       THEN pc' = [pc EXCEPT ![s] = "raised"] /\ UNCHANGED attempts
       ELSE attempts' = [attempts EXCEPT ![s] = @ - 1] /\ UNCHANGED pc
    /\ UNCHANGED <<exists, tfstate, listed, lock, missed>>
-----------------------------------------------------------------------------
(***************************************************************************)
(* destroy_all_nodes                                                       *)
(***************************************************************************)
\* _try_to_delete_nodes: terraform forgets what it deleted; it may stop
\* early, and its exit code is dropped.
try_to_delete_nodes(s) ==
    /\ pc[s] \in {"idle", "ready", "raised"}
    /\ pc' = [pc EXCEPT ![s] = "clean"]
    /\ \E gone \in SUBSET tfstate[s] :
          /\ IF gone = tfstate[s] THEN UNCHANGED faults ELSE Fault
          /\ exists' = exists \ ({s} \X gone)
          /\ tfstate' = [tfstate EXCEPT ![s] = @ \ gone]
    /\ UNCHANGED <<attempts, listed, lock, missed>>

\* Mutant: virsh lists without the filter.
Listed_Unfiltered(s, k) == {r \in exists : r[2] = k /\ r[1] \in Local}

\* virsh -c qemu:///system, piped through grep -E "<name>|<net>|<secondary>",
\* the same for domains, pools and networks.
Listed(s, k) == {r \in exists : r[2] = k /\ r[1] \in Local /\ <<s, r[1]>> \in Contains}

\* clean_virsh_resources takes the lock and lists the domains.
clean_virsh_resources(s) ==
    /\ Goto(s, "clean", "domains")
    /\ lock = NoOne
    /\ lock' = s
    /\ listed' = [listed EXCEPT ![s] = Listed(s, "domain")]
    /\ UNCHANGED <<exists, tfstate, attempts, missed, faults>>

\* One name of the list: destroy and undefine.  Nobody looks at the exit codes.
clean_one(s) ==
    /\ pc[s] \in Cleaning
    /\ \E r \in listed[s] :
          /\ listed' = [listed EXCEPT ![s] = @ \ {r}]
          /\ \/ r[1] \in SkipList /\ UNCHANGED <<exists, missed>>
             \/ /\ r[1] \notin SkipList
                /\ exists' = exists \ {r}
                /\ UNCHANGED missed
             \/ /\ r[1] \notin SkipList
                /\ missed' = missed \cup {r}
                /\ UNCHANGED exists
    /\ UNCHANGED <<tfstate, pc, attempts, lock, faults>>

\* The loop is over: the next kind is listed.
clean_next(s, from, to, k) ==
    /\ Goto(s, from, to)
    /\ listed[s] = {}
    /\ listed' = [listed EXCEPT ![s] = Listed(s, k)]
    /\ UNCHANGED <<exists, tfstate, attempts, lock, missed, faults>>

\* Mutant: the pools are forgotten.
clean_pools_Skipped(s) == clean_next(s, "domains", "networks", "network")

clean_pools(s) == clean_next(s, "domains", "pools", "pool")

clean_networks(s) == clean_next(s, "pools", "networks", "network")

\* Mutant: the lock is kept.
leaveLock_Kept(s) ==
    /\ Goto(s, "networks", "remove_state")
    /\ listed[s] = {}
    /\ UNCHANGED <<exists, tfstate, attempts, listed, lock, missed, faults>>

leaveLock(s) ==
    /\ Goto(s, "networks", "remove_state")
    /\ listed[s] = {}
    /\ lock' = NoOne
    /\ UNCHANGED <<exists, tfstate, attempts, listed, missed, faults>>

\* os.remove(tfstate_path)
remove_state(s) ==
    /\ Goto(s, "remove_state", "done")
    /\ tfstate' = [tfstate EXCEPT ![s] = {}]
    /\ UNCHANGED <<exists, attempts, listed, lock, missed, faults>>

\* The process is killed; the kernel frees its lock.
crash(s) ==
    /\ pc[s] \notin {"done", "killed"}
    /\ pc' = [pc EXCEPT ![s] = "killed"]
    /\ lock' = IF lock = s THEN NoOne ELSE lock
    /\ listed' = [listed EXCEPT ![s] = {}]
    /\ UNCHANGED <<exists, tfstate, attempts, missed, faults>>
-----------------------------------------------------------------------------
Run(s) ==
    \/ prepare_nodes(s)
    \/ \E k \in Kinds : create_resource(s, k)
    \/ applySucceeds(s) \/ applyFails(s)
    \/ try_to_delete_nodes(s) \/ clean_virsh_resources(s) \/ clean_one(s)
    \/ clean_pools(s) \/ clean_networks(s) \/ leaveLock(s) \/ remove_state(s)

Next == \E s \in Sessions : Run(s) \/ crash(s)

Spec == Init /\ [][Next]_vars

(***************************************************************************)
(* A session that is not killed goes on: terraform comes to an end, and    *)
(* the lock is polled.  When to end the test is up to the test.            *)
(***************************************************************************)
Fairness(s) ==
    /\ WF_vars((\E k \in Kinds : create_resource(s, k)) \/ applySucceeds(s) \/ applyFails(s))
    /\ WF_vars(clean_virsh_resources(s) \/ clean_one(s) \/ clean_pools(s) \/ clean_networks(s)
                  \/ leaveLock(s) \/ remove_state(s))

LiveSpec == Spec /\ \A s \in Sessions : Fairness(s)
-----------------------------------------------------------------------------
(***************************************************************************)
(* The nodes of a session stay until the session destroys them: nothing    *)
(* another session deletes, when it tears down or cleans up after a failed *)
(* apply, belongs to a session whose nodes are ready, nor to minikube.     *)
(***************************************************************************)
ReadyNodesStay ==
    /\ \A s \in Sessions : pc[s] = "ready" => {s} \X Kinds \subseteq exists
    /\ SkipList \X Kinds \subseteq exists

(***************************************************************************)
(* "Runs terraform destroy and then cleans it with virsh cleanup to delete *)
(* everything relevant" (destroy_all_nodes): what a failed apply left      *)
(* outside of the state, and what a failed destroy left in it, is gone all *)
(* the same, except what virsh could not delete either.                    *)
(***************************************************************************)
DestroyedLeavesNothing ==
    \A s \in Sessions : pc[s] = "done" => exists \cap ({s} \X Kinds) \subseteq missed

(***************************************************************************)
(* Both directions end: terraform is applied a bounded number of times,    *)
(* and a teardown gets the lock and gets through its lists, unless the     *)
(* process is killed.                                                      *)
(***************************************************************************)
ApplyAndDestroyEnd ==
    \A s \in Sessions :
        /\ pc[s] = "apply" ~> pc[s] # "apply"
        /\ pc[s] = "clean" ~> pc[s] \in {"done", "killed"}
-----------------------------------------------------------------------------
(***************************************************************************)
(* The inductive invariant.  virsh only ever lists what the session owns,  *)
(* or what is on the skip list, if no name contains another one; and while *)
(* the cleanup goes on, a resource of the session is still to be listed,   *)
(* is in the list, or could not be deleted.                                *)
(***************************************************************************)
NamesDistinct == \A s, t \in Sessions : <<s, t>> \in Contains => s = t

ListsAreOwn ==
    \A s \in Sessions : listed[s] \subseteq ({s} \cup SkipList) \X Kinds

OnlyInCleanup == \A s \in Sessions : listed[s] # {} => pc[s] \in Cleaning

\* The kinds whose list was made, by the place of the session in the cleanup.
ListedKinds(s) ==
    CASE pc[s] = "domains" -> {"domain"}
      [] pc[s] = "pools" -> {"domain", "pool"}
      [] pc[s] \in {"networks", "remove_state", "done"} -> Kinds
      [] OTHER -> {}

CleanupComplete ==
    \A s \in Sessions : \A k \in ListedKinds(s) :
        <<s, k>> \in exists => <<s, k>> \in listed[s] \cup missed

TerraformIInv ==
    /\ TerraformTypeOK
    /\ OnlyInCleanup
    /\ NamesDistinct => ListsAreOwn /\ ReadyNodesStay
    /\ Sessions \subseteq Local => CleanupComplete
=============================================================================
