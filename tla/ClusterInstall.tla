--------------------------- MODULE ClusterInstall ----------------------------
(***************************************************************************)
(* One test that installs a cluster: the fixture cluster of base_test.py   *)
(* creates it (or adopts the one CLUSTER_ID names), prepare_for_installa-  *)
(* tion boots the hosts and waits until the cluster is ready, start_instal *)
(* l_and_wait_for_installed starts the installation, retries it when the   *)
(* cluster falls back to ready, and waits for hosts, operators and cluster *)
(* in turn, and the fixture's teardown cancels, deregisters and deletes.   *)
(*                                                                         *)
(* Every request is a step of its own: the service moves on between any    *)
(* two of them.  A request can fail before it has an effect, or after it,  *)
(* when the answer is lost; at most MaxFaults do.  The poll of a wait that *)
(* finds its condition false changes nothing, so only the polls that end a *)
(* wait are steps.                                                         *)
(***************************************************************************)
EXTENDS AssistedService

CONSTANTS
    NodesCount,     \* nodes.nodes_count, the hosts the waits ask for
    Retries,        \* DEFAULT_INSTALLATION_RETRIES_ON_FALLBACK
    FallOnPending,  \* fall_on_pending_status, TRUE in test_e2e_install.py
    TestTeardown,   \* TEST_TEARDOWN
    Existing,       \* whether CLUSTER_ID names a cluster that exists already
    CanTimeOut,     \* whether a wait may last longer than its timeout
    MaxFaults       \* bound on the requests that fail

ASSUME InstallAssumption ==
    /\ NodesCount \in Nat
    /\ Retries \in Nat
    /\ FallOnPending \in BOOLEAN /\ TestTeardown \in BOOLEAN
    /\ Existing \in BOOLEAN /\ CanTimeOut \in BOOLEAN
    /\ MaxFaults \in Nat

VARIABLES
    pc,             \* the next thing the test does
    retries,        \* the argument of start_install
    calls,          \* how often install_cluster was called
    is_installed,   \* _is_installed
    handle,         \* _infra_env: never set, set, or set back to None
    result,         \* how the body of the test ended
    faults,         \* the requests that failed so far
    refused         \* the service refused cancel_install

drvVars == <<pc, retries, calls, is_installed, handle, result, faults, refused>>
vars == <<svcVars, drvVars>>

Waits ==
    { "discover", "ready", "still_ready", "started", "hosts", "builtin", "olm", "installed" }

PC ==
    { "create", "fixture", "body", "manifests", "image", "boot", "roles", "late_manifests",
      "install", "fallback", "operators", "kubeconfig", "details", "passed",
      "logs", "is_installing", "is_finalizing", "cancel", "deregister", "redo_deregister",
      "delete", "over" } \cup Waits

InstallTypeOK ==
    /\ ServiceTypeOK
    /\ pc \in PC
    /\ retries \in 0 .. Retries
    /\ calls \in 0 .. Retries + 1
    /\ is_installed \in BOOLEAN
    /\ handle \in {"never", "set", "None"}
    /\ result \in {"running", "passed", "failed", "returned-to-ready"}
    /\ faults \in 0 .. MaxFaults
    /\ refused \in BOOLEAN

\* The status of the hosts of a cluster that was there before the test.
HostsOf(s) ==
    CASE s = "ready" -> "known"
      [] s = "installing" -> "installing"
      [] s = "installed" -> "installed"
      [] OTHER -> "insufficient"

Init ==
    /\ IF Existing
       THEN /\ infraEnv \in BOOLEAN
            /\ status \in IF infraEnv THEN {"insufficient", "ready", "installing", "installed"}
                           ELSE {"insufficient"}
            /\ host = [h \in Hosts |-> IF infraEnv THEN HostsOf(status) ELSE "absent"]
            /\ operator = [o \in Operators |->
                              IF status = "installed" THEN "available" ELSE "progressing"]
       ELSE /\ status = "absent"
            /\ infraEnv = FALSE
            /\ host = [h \in Hosts |-> "absent"]
            /\ operator = [o \in Operators |-> "progressing"]
    /\ booted = infraEnv
    /\ fallbacks = 0
    /\ pc = "create"
    /\ retries = Retries
    /\ calls = 0
    /\ is_installed = FALSE
    /\ handle = "never"
    /\ result = "running"
    /\ faults = 0
    /\ refused = FALSE
-----------------------------------------------------------------------------
(***************************************************************************)
(* Helpers                                                                 *)
(***************************************************************************)
Step(from, to) == pc = from /\ pc' = to

\* A request fails: ApiException, or the reader of its answer raises.
Fault ==
    /\ faults < MaxFaults
    /\ faults' = faults + 1

\* An exception ends the body of the test; the fixture is finalized.
Raise == pc' = "logs" /\ result' = "failed"

\* A step of the body that only sends requests with no effect on this state:
\* it succeeds or raises.
Request(from, to) ==
    /\ \/ Step(from, to) /\ UNCHANGED <<result, faults>>
       \/ pc = from /\ Fault /\ Raise
    /\ UNCHANGED <<svcVars, retries, calls, is_installed, handle, refused>>

\* waiting.wait: the poll that finds the condition true.
PollTrue(from, to) ==
    /\ Step(from, to)
    /\ UNCHANGED <<svcVars, retries, calls, is_installed, handle, result, faults, refused>>

\* A poll that raises ends the wait.
PollRaises(from) ==
    /\ pc = from
    /\ Raise
    /\ UNCHANGED <<svcVars, retries, calls, is_installed, handle, faults, refused>>

\* Mutant: the wait for the installation to start has no timeout.
timeoutExpired_NotStarted ==
    /\ CanTimeOut
    /\ pc \in Waits \ {"started"}
    /\ PollRaises(pc)

\* waiting.TimeoutExpired
timeoutExpired ==
    /\ CanTimeOut
    /\ pc \in Waits
    /\ PollRaises(pc)

\* A wait that lists hosts or operators does not catch the exception of its
\* request; is_cluster_in_status does, and counts as not in the status.
pollFails ==
    /\ pc \in {"discover", "hosts", "builtin", "olm"}
    /\ Fault
    /\ Raise
    /\ UNCHANGED <<svcVars, retries, calls, is_installed, handle, refused>>
-----------------------------------------------------------------------------
(***************************************************************************)
(* The set-up of the fixture: an exception before the yield leaves what    *)
(* was created, and the teardown below the yield does not run.             *)
(***************************************************************************)
\* Entity.__init__ without an id.  The answer of a failed request may be lost.
create ==
    /\ pc = "create" /\ ~Existing
    /\ \/ /\ status' = "insufficient"
          /\ pc' = "fixture"
          /\ UNCHANGED <<result, faults>>
       \/ /\ Fault
          /\ status' \in {"absent", "insufficient"}
          /\ pc' = "over" /\ result' = "failed"
    /\ UNCHANGED <<host, operator, infraEnv, booted, fallbacks, retries, calls, is_installed,
                   handle, refused>>

\* Entity.__init__ with an id: the first infra-env of the cluster is adopted.
update_existing ==
    /\ pc = "create" /\ Existing
    /\ \/ /\ pc' = "fixture"
          /\ IF infraEnv
             THEN handle' = "set" /\ is_installed' = TRUE
             ELSE UNCHANGED <<handle, is_installed>>
          /\ UNCHANGED <<result, faults>>
       \/ /\ Fault
          /\ pc' = "over" /\ result' = "failed"
          /\ UNCHANGED <<handle, is_installed>>
    /\ UNCHANGED <<svcVars, retries, calls, refused>>

\* The rest of the set-up: supported platforms, proxy and iPXE servers.
setUpFixture ==
    /\ \/ Step("fixture", "body") /\ UNCHANGED <<result, faults>>
       \/ /\ Step("fixture", "over") /\ Fault /\ result' = "failed"
    /\ UNCHANGED <<svcVars, retries, calls, is_installed, handle, refused>>

\* A test prepares and installs; the day-2 fixture does so if the day-1
\* cluster is not installed yet.
beginBody ==
    \/ PollTrue("body", "manifests")
    \/ is_installed /\ PollTrue("body", "passed")
-----------------------------------------------------------------------------
(***************************************************************************)
(* prepare_for_installation                                                *)
(***************************************************************************)
create_custom_manifests ==
    \/ Request("manifests", "image")
    \/ Request("late_manifests", "install")

\* download_image: without an infra-env one is created first.
download_image ==
    /\ pc = "image"
    /\ \/ /\ infraEnv' = TRUE
          /\ handle' = "set"
          /\ pc' = "boot"
          /\ UNCHANGED <<result, faults>>
       \/ /\ Fault /\ Raise
          /\ \/ handle # "set" /\ infraEnv' \in {infraEnv, TRUE} /\ UNCHANGED handle
             \/ infraEnv' = TRUE /\ handle' = "set"
    /\ UNCHANGED <<status, host, operator, booted, fallbacks, retries, calls, is_installed,
                   refused>>

\* nodes.prepare_nodes, notify_iso_ready and start_all.
start_all ==
    /\ \/ Step("boot", "discover") /\ booted' = TRUE /\ UNCHANGED <<result, faults>>
       \/ pc = "boot" /\ Fault /\ Raise /\ booted' \in {booted, TRUE}
    /\ UNCHANGED <<status, host, operator, infraEnv, fallbacks, retries, calls, is_installed,
                   handle, refused>>

\* Mutant: an error of a host does not end the wait.
AreHostsInStatus_Patient(from, to, statuses, fall_on_pending_status) ==
    /\ Cardinality(HostsIn(statuses)) >= NodesCount
    /\ PollTrue(from, to)

\* _are_hosts_in_status: enough hosts in the statuses, else an error raises,
\* else, if asked for, a host that waits for the user does.
AreHostsInStatus(from, to, statuses, fall_on_pending_status) ==
    \/ /\ Cardinality(HostsIn(statuses)) >= NodesCount
       /\ PollTrue(from, to)
    \/ /\ Cardinality(HostsIn(statuses)) < NodesCount
       /\ \/ HostsIn({"error"}) # {}
          \/ fall_on_pending_status /\ HostsIn({"installing-pending-user-action"}) # {}
       /\ PollRaises(from)

wait_until_hosts_are_discovered ==
    AreHostsInStatus("discover", "roles", {"insufficient", "known"}, FALSE)

\* set_hostnames_and_roles, set_host_roles, set_installer_args and the
\* requests of prepare_networking.
set_hostnames_and_roles == Request("roles", "ready")

\* wait_till_cluster_is_in_status
WaitTillClusterIsInStatus(from, to, statuses) ==
    /\ status \in statuses
    /\ PollTrue(from, to)

wait_for_ready_to_install ==
    \/ WaitTillClusterIsInStatus("ready", "still_ready", {"ready"})
    \/ WaitTillClusterIsInStatus("still_ready", "late_manifests", {"ready"})
-----------------------------------------------------------------------------
(***************************************************************************)
(* start_install                                                           *)
(***************************************************************************)
\* install_cluster.  The service takes the request if the cluster is ready;
\* otherwise, or when the request or its answer is lost, it raises.
install_cluster ==
    /\ pc = "install"
    /\ calls' = calls + 1
    /\ \/ /\ status = "ready"
          /\ status' = "preparing-for-installation"
          /\ pc' = "started"
          /\ UNCHANGED <<result, faults>>
       \/ /\ status # "ready" /\ Raise
          /\ UNCHANGED <<status, faults>>
       \/ /\ Fault /\ Raise
          /\ status' \in {status} \cup
                (IF status = "ready" THEN {"preparing-for-installation"} ELSE {})
    /\ UNCHANGED <<host, operator, infraEnv, booted, fallbacks, retries, is_installed, handle,
                   refused>>

waitTillStarted == WaitTillClusterIsInStatus("started", "fallback", {"installing", "ready"})

\* Mutants: a retry does not use one up; a status that could not be read counts
\* as ready.
retryAfterFallback_Uncounted ==
    /\ pc = "fallback"
    /\ \/ status = "ready" /\ retries > 0 /\ pc' = "install"
       \/ status # "ready" /\ pc' = "hosts"
    /\ UNCHANGED <<svcVars, retries, calls, is_installed, handle, refused, result, faults>>

retryAfterFallback_Unread ==
    /\ pc = "fallback"
    /\ \/ /\ (status = "ready" /\ UNCHANGED faults) \/ Fault
          /\ retries > 0
          /\ retries' = retries - 1 /\ pc' = "install"
       \/ /\ status # "ready"
          /\ pc' = "hosts"
          /\ UNCHANGED <<retries, faults>>
    /\ UNCHANGED <<svcVars, calls, is_installed, handle, refused, result>>

\* The second read.  Unless it finds the cluster ready, start_install returns:
\* also when the read failed.
retryAfterFallback ==
    /\ pc = "fallback"
    /\ \/ /\ status = "ready" /\ retries > 0
          /\ retries' = retries - 1 /\ pc' = "install"
          /\ UNCHANGED <<result, faults>>
       \/ /\ status = "ready" /\ retries = 0
          /\ pc' = "logs" /\ result' = "returned-to-ready"
          /\ UNCHANGED <<retries, faults>>
       \/ /\ status # "ready"
          /\ pc' = "hosts"
          /\ UNCHANGED <<retries, result, faults>>
       \/ /\ Fault
          /\ pc' = "hosts"
          /\ UNCHANGED <<retries, result>>
    /\ UNCHANGED <<svcVars, calls, is_installed, handle, refused>>
-----------------------------------------------------------------------------
(***************************************************************************)
(* The waits of start_install_and_wait_for_installed                       *)
(***************************************************************************)
wait_for_hosts_to_install ==
    AreHostsInStatus("hosts", "operators", {"installed"}, FallOnPending)

get_operators == Request("operators", "builtin")

\* _are_operators_in_status
AreOperatorsInStatus(from, to, ops, statuses, fall_on_error_status) ==
    LET failed == {o \in ops : operator[o] = "failed"} IN
    \/ /\ fall_on_error_status /\ failed # {}
       /\ PollRaises(from)
    \/ /\ ~(fall_on_error_status /\ failed # {})
       /\ \A o \in ops : operator[o] \in statuses
       /\ PollTrue(from, to)

\* Mutant: fall_on_error_status is not passed on.
wait_for_operators_to_finish_Lenient ==
    \/ AreOperatorsInStatus("builtin", "olm", Builtin, {"available"}, FALSE)
    \/ AreOperatorsInStatus("olm", "installed", Olm, {"available", "failed"}, FALSE)

wait_for_operators_to_finish ==
    \/ AreOperatorsInStatus("builtin", "olm", Builtin, {"available"}, FALSE)
    \/ AreOperatorsInStatus("olm", "installed", Olm, {"available", "failed"}, TRUE)

\* Mutant: finalizing is good enough.
wait_for_install_Early ==
    WaitTillClusterIsInStatus("installed", "kubeconfig", {"finalizing", "installed"})

wait_for_install == WaitTillClusterIsInStatus("installed", "kubeconfig", {"installed"})

download_kubeconfig == Request("kubeconfig", "details")

\* The details are logged, which is one more request, and the flag is set.
setInstalled ==
    /\ pc = "details"
    /\ \/ pc' = "passed" /\ is_installed' = TRUE /\ UNCHANGED <<result, faults>>
       \/ Fault /\ Raise /\ UNCHANGED is_installed
    /\ UNCHANGED <<svcVars, retries, calls, handle, refused>>
-----------------------------------------------------------------------------
(***************************************************************************)
(* The teardown of the fixture                                             *)
(***************************************************************************)
AfterLogs == IF TestTeardown THEN "deregister" ELSE "over"

\* The test passed: neither logs nor a cancellation.
endBody ==
    /\ Step("passed", AfterLogs)
    /\ result' = "passed"
    /\ UNCHANGED <<svcVars, retries, calls, is_installed, handle, faults, refused>>

\* collect_test_logs suppresses ApiException; any other exception ends the
\* teardown.
collect_test_logs ==
    /\ pc = "logs"
    /\ \/ pc' = (IF TestTeardown THEN "is_installing" ELSE "over") /\ UNCHANGED faults
       \/ Fault /\ pc' = "over"
    /\ UNCHANGED <<svcVars, retries, calls, is_installed, handle, result, refused>>

\* Two reads of the status; a read that fails counts as no.
is_installing ==
    /\ pc = "is_installing"
    /\ \/ pc' = (IF status = "installing" THEN "cancel" ELSE "is_finalizing") /\ UNCHANGED faults
       \/ Fault /\ pc' = "is_finalizing"
    /\ UNCHANGED <<svcVars, retries, calls, is_installed, handle, result, refused>>

is_finalizing ==
    /\ pc = "is_finalizing"
    /\ \/ pc' = (IF status = "finalizing" THEN "cancel" ELSE "deregister") /\ UNCHANGED faults
       \/ Fault /\ pc' = "deregister"
    /\ UNCHANGED <<svcVars, retries, calls, is_installed, handle, result, refused>>

\* Nothing catches the exception of cancel_install: it ends the teardown.
cancel_install ==
    LET cancellable ==
            status \in { "preparing-for-installation", "installing",
                         "installing-pending-user-action", "finalizing", "error" }
    IN
    /\ pc = "cancel"
    /\ \/ /\ cancellable
          /\ status' = "cancelled" /\ pc' = "deregister"
          /\ UNCHANGED <<faults, refused>>
       \/ /\ ~cancellable
          /\ refused' = TRUE /\ pc' = "over"
          /\ UNCHANGED <<status, faults>>
       \/ /\ Fault
          /\ status' \in {status} \cup (IF cancellable THEN {"cancelled"} ELSE {})
          /\ pc' = "over"
          /\ UNCHANGED refused
    /\ UNCHANGED <<host, operator, infraEnv, booted, fallbacks, retries, calls, is_installed,
                   handle, result>>

\* BaseCluster.deregister_infraenv: the hosts first, one request each, then the
\* infra-env, and the handle is forgotten.  A request that fails leaves the
\* handle; one for an infra-env that is gone already fails.
DeregisterInfraenv(ok, raised) ==
    /\ \/ /\ handle # "set"
          /\ pc' = ok
          /\ UNCHANGED <<infraEnv, host, handle, faults>>
       \/ /\ handle = "set" /\ infraEnv
          /\ infraEnv' = FALSE
          /\ host' = [h \in Hosts |-> "absent"]
          /\ handle' = "None"
          /\ pc' = ok
          /\ UNCHANGED faults
       \/ /\ handle = "set" /\ infraEnv /\ Fault
          /\ \/ /\ \E gone \in SUBSET Hosts :
                      host' = [h \in Hosts |-> IF h \in gone THEN "absent" ELSE host[h]]
                /\ UNCHANGED infraEnv
             \/ infraEnv' = FALSE /\ host' = [h \in Hosts |-> "absent"]
          /\ pc' = raised
          /\ UNCHANGED handle
       \/ /\ handle = "set" /\ ~infraEnv
          /\ pc' = raised
          /\ UNCHANGED <<infraEnv, host, handle, faults>>
    /\ UNCHANGED <<status, operator, booted, fallbacks, retries, calls, is_installed, result,
                   refused>>

\* with SuppressAndLog(ApiException): a request that is refused is logged, one
\* that fails in another way ends the teardown.
deregister_infraenv ==
    /\ pc = "deregister"
    /\ \/ DeregisterInfraenv("redo_deregister", "redo_deregister")
       \/ handle = "set" /\ infraEnv /\ DeregisterInfraenv("redo_deregister", "over")

\* Mutant: the cluster is deleted whatever became of the infra-env.
delete_Anyway ==
    pc = "redo_deregister" /\ DeregisterInfraenv("delete", "delete")

\* BaseCluster.delete deregisters again: an exception here skips the deletion.
delete == pc = "redo_deregister" /\ DeregisterInfraenv("delete", "over")

\* Mutant: the cluster is kept.
delete_cluster_Kept ==
    /\ Step("delete", "over")
    /\ UNCHANGED <<svcVars, retries, calls, is_installed, handle, result, faults, refused>>

delete_cluster ==
    /\ Step("delete", "over")
    /\ \/ status' = "absent" /\ UNCHANGED faults
       \/ Fault /\ status' \in {status, "absent"}
    /\ UNCHANGED <<host, operator, infraEnv, booted, fallbacks, retries, calls, is_installed,
                   handle, result, refused>>
-----------------------------------------------------------------------------
SetUp == create \/ update_existing \/ setUpFixture \/ beginBody

Prepare ==
    \/ create_custom_manifests \/ download_image \/ start_all \/ wait_until_hosts_are_discovered
    \/ set_hostnames_and_roles \/ wait_for_ready_to_install

Install ==
    \/ install_cluster \/ waitTillStarted \/ retryAfterFallback \/ wait_for_hosts_to_install
    \/ get_operators \/ wait_for_operators_to_finish \/ wait_for_install
    \/ download_kubeconfig \/ setInstalled

Teardown ==
    \/ endBody \/ collect_test_logs \/ is_installing \/ is_finalizing \/ cancel_install
    \/ deregister_infraenv \/ delete \/ delete_cluster

Driver == SetUp \/ Prepare \/ Install \/ timeoutExpired \/ pollFails \/ Teardown

Service == ServiceNext /\ UNCHANGED drvVars

Next == Driver \/ Service

Spec == Init /\ [][Next]_vars

(***************************************************************************)
(* The test keeps running: its waits poll, and time passes in them.        *)
(* Nothing is assumed of the service.                                      *)
(***************************************************************************)
LiveSpec == Spec /\ WF_vars(Driver)
-----------------------------------------------------------------------------
(***************************************************************************)
(* "Returns true when this cluster is installed" (cluster.py): as long as  *)
(* the cluster exists, the flag says what the service says.                *)
(***************************************************************************)
IsInstalledIsTrue == is_installed => status \in {"installed", "absent"}

(***************************************************************************)
(* A test passes only if the installation did: every host the test asked   *)
(* for is installed and every operator is available, although hosts and    *)
(* operators were looked at in different polls, and OLM operators that     *)
(* fail end their wait as well.                                            *)
(***************************************************************************)
PassedIsComplete ==
    pc = "passed" /\ ~Existing =>
        /\ status = "installed"
        /\ Cardinality(HostsIn({"installed"})) >= NodesCount
        /\ \A o \in Operators : operator[o] = "available"

(***************************************************************************)
(* An installation is requested again only after the previous one fell     *)
(* back to ready: never because a status was read at a bad moment or could *)
(* not be read.                                                            *)
(***************************************************************************)
RetryNeedsFallback == calls <= fallbacks + 1

(***************************************************************************)
(* ReturnedToReadyAfterInstallationStartsError means that every retry was  *)
(* used and that the service fell back each time.                          *)
(***************************************************************************)
ReadyErrorAfterRetries == result = "returned-to-ready" => fallbacks > Retries

\* Both: start_install retries when it must, and only then.
RetriesAreDue == RetryNeedsFallback /\ ReadyErrorAfterRetries

(***************************************************************************)
(* delete takes the infra-env with it: a cluster the test deleted leaves   *)
(* no infra-env the test knew of, whichever requests of the teardown fail. *)
(***************************************************************************)
NoOrphanInfraEnv == status = "absent" /\ handle # "never" => ~infraEnv

(***************************************************************************)
(* With TEST_TEARDOWN, and if no request failed, nothing of the test is    *)
(* left in the service, whichever way its body ended and whatever the      *)
(* cluster was doing; unless the cancellation came too late.               *)
(***************************************************************************)
NothingLeft ==
    pc = "over" /\ TestTeardown /\ faults = 0 /\ ~refused => status = "absent" /\ ~infraEnv

(***************************************************************************)
(* The test ends: its waits and its retries are bounded, whatever the      *)
(* service does and whichever requests fail.                               *)
(***************************************************************************)
TestEnds == <>(pc = "over")

(***************************************************************************)
(* Once the installation is known to have started, its end is noticed by   *)
(* the polls, without help of a timeout: whatever wait the test is in when *)
(* the cluster gets installed, none of its conditions stays false forever. *)
(***************************************************************************)
InstalledIsNoticed ==
    pc \in {"hosts", "operators", "builtin", "olm", "installed"} /\ status = "installed"
        ~> pc \in {"passed", "logs"}
-----------------------------------------------------------------------------
(***************************************************************************)
(* The inductive invariant.  What a wait saw stays true while the test     *)
(* goes on, for only the teardown takes hosts and the cluster away; and    *)
(* start_install calls install_cluster at most once per fallback because   *)
(* the status it looks at left ready with its own call.                    *)
(***************************************************************************)
BeforeCall ==
    { "create", "fixture", "body", "manifests", "image", "boot", "discover", "roles", "ready",
      "still_ready", "late_manifests", "install" }

CallsCounted ==
    /\ pc \in BeforeCall => calls = Retries - retries
    /\ pc \in {"started", "fallback"} => calls = Retries - retries + 1
    /\ calls <= Retries - retries + 1

CallsFollowFallbacks ==
    /\ pc \in BeforeCall => calls <= fallbacks
    /\ pc \in {"started", "fallback"} /\ status \in BeforeInstall => calls <= fallbacks
    /\ RetryNeedsFallback

AfterCluster == {"kubeconfig", "details", "passed"}
AfterOlm == {"installed"} \cup AfterCluster
AfterBuiltin == {"olm"} \cup AfterOlm
AfterHosts == {"operators", "builtin"} \cup AfterBuiltin

SeenStaysTrue ==
    /\ pc \in AfterHosts => Cardinality(HostsIn({"installed"})) >= NodesCount
    /\ pc \in AfterBuiltin => \A o \in Builtin : operator[o] = "available"
    /\ pc \in AfterOlm => \A o \in Olm : operator[o] = "available"
    /\ pc \in AfterCluster => status = "installed"

FlagAfterPassing ==
    is_installed => /\ pc \in {"passed", "deregister", "redo_deregister", "delete", "over"}
                    /\ status \in {"installed", "absent"}

HandleFollowsInfraEnv ==
    /\ pc = "create" => handle = "never" /\ (Existing => status # "absent")
    /\ handle = "None" => ~infraEnv /\ pc \in {"redo_deregister", "delete", "over"}
    /\ pc = "delete" => handle # "set"
    /\ status = "absent" => pc \in {"create", "over"} /\ handle # "set"

\* As long as no request failed the test knows the infra-env that exists.
CleanWithoutFaults ==
    faults = 0 => /\ handle = "set" => infraEnv
                  /\ infraEnv => handle = "set" \/ (pc = "create" /\ Existing)
                  /\ pc = "over" /\ TestTeardown /\ ~refused => status = "absent"

InstallIInv ==
    /\ InstallTypeOK
    /\ CallsCounted
    /\ CallsFollowFallbacks
    /\ ReadyErrorAfterRetries
    /\ HandleFollowsInfraEnv
    /\ CleanWithoutFaults
    /\ ~Existing => SeenStaysTrue /\ FlagAfterPassing
=============================================================================
