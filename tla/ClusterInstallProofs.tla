------------------------ MODULE ClusterInstallProofs -------------------------
(***************************************************************************)
(* What ClusterInstall promises for any number of hosts, operators,        *)
(* retries, fallbacks and failing requests.                                *)
(***************************************************************************)
EXTENDS ClusterInstall, FiniteSetTheorems, TLAPS

LEMMA Numbers ==
    NodesCount \in Nat /\ Retries \in Nat /\ MaxFaults \in Nat /\ MaxFallbacks \in Nat
  BY InstallAssumption, ServiceAssumption

LEMMA BoundGrows ==
    ASSUME NEW a \in Nat, NEW b \in Nat, NEW c \in Nat, a <= b + 1, b <= c
    PROVE  a <= c + 1
  OBVIOUS

\* The counters, without the Boolean state.
LEMMA Counters ==
    InstallTypeOK => /\ calls \in Nat /\ fallbacks \in Nat
                     /\ retries \in Nat /\ retries <= Retries /\ faults \in Nat
  BY Numbers DEF InstallTypeOK, ServiceTypeOK

(***************************************************************************)
(* What a step of the service may do to what the test relies on: what is   *)
(* installed or available stays so, the status is before an installation   *)
(* again only by a counted fallback, and only requests create or delete.   *)
(***************************************************************************)
ServiceKeeps ==
    /\ ServiceTypeOK'
    /\ fallbacks <= fallbacks'
    /\ infraEnv' = infraEnv
    /\ status' \in BeforeInstall => status \in BeforeInstall \/ fallbacks' = fallbacks + 1
    /\ status = "installed" => status' = "installed"
    /\ status' = "absent" <=> status = "absent"
    /\ \A h \in Hosts : host[h] = "installed" => host'[h] = "installed"
    /\ \A o \in Operators : operator[o] = "available" => operator'[o] = "available"

LEMMA ServiceStep == ServiceTypeOK /\ ServiceNext => ServiceKeeps
<1> SUFFICES ASSUME ServiceTypeOK, ServiceNext
             PROVE  ServiceKeeps
  OBVIOUS
<1> USE ServiceAssumption
<1> USE DEF ServiceTypeOK, ServiceKeeps, ClusterStatus, NodesStatus, OperatorStatus,
            BeforeInstall, HostsIn
<1>1. ASSUME NEW h \in Hosts, hostRegisters(h) \/ hostValidated(h) PROVE ServiceKeeps
  BY <1>1 DEF hostRegisters, hostValidated
<1>2. ASSUME NEW h \in Hosts, hostInstalls(h) PROVE ServiceKeeps
  BY <1>2 DEF hostInstalls
<1>3. ASSUME NEW o \in Operators, operatorReports(o) PROVE ServiceKeeps
  BY <1>3 DEF operatorReports
<1>4. CASE clusterValidated
  BY <1>4 DEF clusterValidated
<1>5. CASE prepared
  BY <1>5 DEF prepared
<1>6. CASE clusterProgresses
  BY <1>6 DEF clusterProgresses
<1> QED
  BY <1>1, <1>2, <1>3, <1>4, <1>5, <1>6 DEF ServiceNext

LEMMA InitInv == Init => InstallIInv
<1> SUFFICES ASSUME Init PROVE InstallIInv
  OBVIOUS
<1> USE ServiceAssumption, InstallAssumption DEF Init
<1>1. InstallTypeOK
  <2>1. status \in ClusterStatus /\ infraEnv \in BOOLEAN
    BY DEF ClusterStatus
  <2>2. host \in [Hosts -> NodesStatus]
    BY DEF NodesStatus, HostsOf
  <2>3. operator \in [Operators -> OperatorStatus]
    BY DEF OperatorStatus
  <2>4. ServiceTypeOK
    BY <2>1, <2>2, <2>3 DEF ServiceTypeOK
  <2>5. pc \in PC
    BY DEF PC
  <2>6. retries \in 0 .. Retries /\ calls \in 0 .. Retries + 1 /\ faults \in 0 .. MaxFaults
    OBVIOUS
  <2> QED
    BY <2>4, <2>5, <2>6 DEF InstallTypeOK
<1>2. CallsCounted /\ CallsFollowFallbacks /\ ReadyErrorAfterRetries
  BY DEF CallsCounted, CallsFollowFallbacks, ReadyErrorAfterRetries, RetryNeedsFallback, BeforeCall,
         BeforeInstall
<1>3. HandleFollowsInfraEnv /\ CleanWithoutFaults
  BY DEF HandleFollowsInfraEnv, CleanWithoutFaults
<1>4. SeenStaysTrue /\ FlagAfterPassing
  BY DEF SeenStaysTrue, FlagAfterPassing, AfterHosts, AfterBuiltin, AfterOlm, AfterCluster
<1> QED
  BY <1>1, <1>2, <1>3, <1>4 DEF InstallIInv

\* The hosts that are installed are no fewer after a step that keeps them.
LEMMA InstalledHostsGrow ==
    ASSUME \A h \in Hosts : host[h] = "installed" => host'[h] = "installed",
           NodesCount \in Nat,
           Cardinality(HostsIn({"installed"})) >= NodesCount
    PROVE  Cardinality(HostsIn({"installed"}))' >= NodesCount
<1> DEFINE Now == HostsIn({"installed"})
           Then == HostsIn({"installed"})'
<1>1. Now \in SUBSET Then /\ Then \in SUBSET Hosts
  BY DEF HostsIn
<1>2. IsFiniteSet(Then)
  BY <1>1, FS_Subset, ServiceAssumption
<1>3. IsFiniteSet(Now) /\ Cardinality(Now) <= Cardinality(Then)
  BY <1>1, <1>2, FS_Subset
<1>4. Cardinality(Now) \in Nat /\ Cardinality(Then) \in Nat
  BY <1>2, <1>3, FS_CardinalityType
<1> HIDE DEF Now, Then
<1>5. Cardinality(Now) >= NodesCount
  BY DEF Now
<1>6. Cardinality(Then) >= NodesCount
  BY <1>3, <1>4, <1>5
<1> QED
  BY <1>6 DEF Then

LEMMA ServiceInv == InstallIInv /\ Service => InstallIInv'
<1> SUFFICES ASSUME InstallIInv, Service PROVE InstallIInv'
  OBVIOUS
<1>1. ServiceKeeps /\ UNCHANGED drvVars
  BY ServiceStep DEF Service, InstallIInv, InstallTypeOK
<1>2. InstallTypeOK'
  BY <1>1 DEF InstallIInv, InstallTypeOK, ServiceKeeps, drvVars
<1>3. /\ calls' = calls /\ retries' = retries /\ pc' = pc /\ result' = result
      /\ fallbacks <= fallbacks'
      /\ status' \in BeforeInstall => status \in BeforeInstall \/ fallbacks' = fallbacks + 1
  BY <1>1 DEF ServiceKeeps, drvVars
<1>8. calls \in Nat /\ retries \in Nat /\ fallbacks \in Nat /\ fallbacks' \in Nat
  BY <1>2, Numbers DEF InstallIInv, InstallTypeOK, ServiceTypeOK
<1>4. CallsCounted' /\ ReadyErrorAfterRetries'
  BY <1>3, <1>8, Numbers DEF InstallIInv, CallsCounted, ReadyErrorAfterRetries
<1>5. CallsFollowFallbacks'
  <2> USE DEF InstallIInv, CallsFollowFallbacks, RetryNeedsFallback
  <2>1. pc' \in BeforeCall => calls' <= fallbacks'
    BY <1>3, <1>8 DEF BeforeCall
  <2>2. pc' \in {"started", "fallback"} /\ status' \in BeforeInstall => calls' <= fallbacks'
    <3>1. CASE status \in BeforeInstall
      BY <1>3, <1>8, <3>1
    <3>2. CASE fallbacks' = fallbacks + 1
      BY <1>3, <1>8, <3>2
    <3> QED
      BY <1>3, <3>1, <3>2
  <2>3. calls' <= fallbacks' + 1
    <3>1. calls <= fallbacks + 1 /\ calls' = calls /\ fallbacks <= fallbacks'
      BY <1>3
    <3> QED
      BY <1>8, <3>1, BoundGrows
  <2> QED
    BY <2>1, <2>2, <2>3 DEF BeforeCall, BeforeInstall
<1>6. HandleFollowsInfraEnv' /\ CleanWithoutFaults'
  BY <1>1 DEF InstallIInv, ServiceKeeps, drvVars, HandleFollowsInfraEnv, CleanWithoutFaults
<1>7. ASSUME ~Existing PROVE SeenStaysTrue' /\ FlagAfterPassing'
  <2>1. pc' \in AfterHosts => Cardinality(HostsIn({"installed"}))' >= NodesCount
    <3> SUFFICES ASSUME pc' \in AfterHosts
                 PROVE  Cardinality(HostsIn({"installed"}))' >= NodesCount
      OBVIOUS
    <3>1. pc' = pc
      BY <1>1 DEF drvVars
    <3>2. pc \in AfterHosts
      BY <3>1 DEF AfterHosts, AfterBuiltin, AfterOlm, AfterCluster
    <3>3. Cardinality(HostsIn({"installed"})) >= NodesCount
      BY <1>7, <3>2 DEF InstallIInv, SeenStaysTrue
    <3> QED
      BY <1>1, <3>3, InstalledHostsGrow, Numbers DEF ServiceKeeps
  <2>2. SeenStaysTrue'
    BY <1>1, <1>7, <2>1 DEF InstallIInv, ServiceKeeps, SeenStaysTrue, drvVars, Operators
  <2>3. FlagAfterPassing'
    BY <1>1, <1>7 DEF InstallIInv, ServiceKeeps, FlagAfterPassing, drvVars
  <2> QED
    BY <2>2, <2>3
<1> QED
  BY <1>2, <1>4, <1>5, <1>6, <1>7 DEF InstallIInv
(***************************************************************************)
(* The steps of the test, one conjunct of the invariant at a time.         *)
(***************************************************************************)
LEMMA DriverType == InstallTypeOK /\ CallsCounted /\ Driver => InstallTypeOK'
<1> SUFFICES ASSUME InstallTypeOK /\ CallsCounted, Driver PROVE InstallTypeOK'
  OBVIOUS
<1> USE Numbers
<1> USE DEF Step, Fault, Raise, svcVars, InstallTypeOK, ServiceTypeOK, ClusterStatus, NodesStatus, PC, Waits,
            CallsCounted, BeforeCall
<1>1. CASE create
  BY <1>1 DEF create
<1>2. CASE update_existing
  <2> USE DEF update_existing
  <2>1. status' \in ClusterStatus /\ fallbacks' \in 0 .. MaxFallbacks
    BY <1>2
  <2>2. host' \in [Hosts -> NodesStatus] /\ operator' \in [Operators -> OperatorStatus]
    BY <1>2
  <2>3. infraEnv' \in BOOLEAN /\ booted' \in BOOLEAN
    BY <1>2
  <2>4. is_installed' \in BOOLEAN /\ refused' \in BOOLEAN
    BY <1>2
  <2>5. pc' \in PC /\ handle' \in {"never", "set", "None"}
    BY <1>2
  <2>6. result' \in {"running", "passed", "failed", "returned-to-ready"}
    BY <1>2
  <2>7. retries' \in 0 .. Retries /\ calls' \in 0 .. Retries + 1
    BY <1>2
  <2>8. faults' \in 0 .. MaxFaults
    <3>1. faults' = faults \/ Fault
      BY <1>2
    <3> QED
      BY <3>1
  <2> QED
    BY <2>1, <2>2, <2>3, <2>4, <2>5, <2>6, <2>7, <2>8
<1>3. CASE setUpFixture
  BY <1>3 DEF setUpFixture
<1>4. CASE beginBody
  BY <1>4 DEF beginBody, PollTrue
<1>5. CASE create_custom_manifests
  BY <1>5 DEF create_custom_manifests, Request
<1>6. CASE download_image
  <2> USE DEF download_image
  <2>1. status' \in ClusterStatus /\ fallbacks' \in 0 .. MaxFallbacks
    BY <1>6
  <2>2. host' \in [Hosts -> NodesStatus] /\ operator' \in [Operators -> OperatorStatus]
    BY <1>6
  <2>3. infraEnv' \in BOOLEAN /\ booted' \in BOOLEAN
    BY <1>6
  <2>4. is_installed' \in BOOLEAN /\ refused' \in BOOLEAN
    BY <1>6
  <2>5. pc' \in PC /\ handle' \in {"never", "set", "None"}
    BY <1>6
  <2>6. result' \in {"running", "passed", "failed", "returned-to-ready"}
    BY <1>6
  <2>7. retries' \in 0 .. Retries /\ calls' \in 0 .. Retries + 1
    BY <1>6
  <2>8. faults' \in 0 .. MaxFaults
    <3>1. faults' = faults \/ Fault
      BY <1>6
    <3> QED
      BY <3>1
  <2> QED
    BY <2>1, <2>2, <2>3, <2>4, <2>5, <2>6, <2>7, <2>8
<1>7. CASE start_all
  <2> USE DEF start_all
  <2>1. status' \in ClusterStatus /\ fallbacks' \in 0 .. MaxFallbacks
    BY <1>7
  <2>2. host' \in [Hosts -> NodesStatus] /\ operator' \in [Operators -> OperatorStatus]
    BY <1>7
  <2>3. infraEnv' \in BOOLEAN /\ booted' \in BOOLEAN
    BY <1>7
  <2>4. is_installed' \in BOOLEAN /\ refused' \in BOOLEAN
    BY <1>7
  <2>5. pc' \in PC /\ handle' \in {"never", "set", "None"}
    BY <1>7
  <2>6. result' \in {"running", "passed", "failed", "returned-to-ready"}
    BY <1>7
  <2>7. retries' \in 0 .. Retries /\ calls' \in 0 .. Retries + 1
    BY <1>7
  <2>8. faults' \in 0 .. MaxFaults
    <3>1. faults' = faults \/ Fault
      BY <1>7
    <3> QED
      BY <3>1
  <2> QED
    BY <2>1, <2>2, <2>3, <2>4, <2>5, <2>6, <2>7, <2>8
<1>8. CASE wait_until_hosts_are_discovered
  BY <1>8 DEF wait_until_hosts_are_discovered, AreHostsInStatus, PollTrue, PollRaises
<1>9. CASE set_hostnames_and_roles
  BY <1>9 DEF set_hostnames_and_roles, Request
<1>10. CASE wait_for_ready_to_install
  BY <1>10 DEF wait_for_ready_to_install, WaitTillClusterIsInStatus, PollTrue
<1>11. CASE install_cluster
  BY <1>11 DEF install_cluster
<1>12. CASE waitTillStarted
  BY <1>12 DEF waitTillStarted, WaitTillClusterIsInStatus, PollTrue
<1>13. CASE retryAfterFallback
  BY <1>13 DEF retryAfterFallback
<1>14. CASE wait_for_hosts_to_install
  BY <1>14 DEF wait_for_hosts_to_install, AreHostsInStatus, PollTrue, PollRaises
<1>15. CASE get_operators
  BY <1>15 DEF get_operators, Request
<1>16. CASE wait_for_operators_to_finish
  BY <1>16 DEF wait_for_operators_to_finish, AreOperatorsInStatus, PollTrue, PollRaises
<1>17. CASE wait_for_install
  BY <1>17 DEF wait_for_install, WaitTillClusterIsInStatus, PollTrue
<1>18. CASE download_kubeconfig
  BY <1>18 DEF download_kubeconfig, Request
<1>19. CASE setInstalled
  <2> USE DEF setInstalled
  <2>1. status' \in ClusterStatus /\ fallbacks' \in 0 .. MaxFallbacks
    BY <1>19
  <2>2. host' \in [Hosts -> NodesStatus] /\ operator' \in [Operators -> OperatorStatus]
    BY <1>19
  <2>3. infraEnv' \in BOOLEAN /\ booted' \in BOOLEAN
    BY <1>19
  <2>4. is_installed' \in BOOLEAN /\ refused' \in BOOLEAN
    BY <1>19
  <2>5. pc' \in PC /\ handle' \in {"never", "set", "None"}
    BY <1>19
  <2>6. result' \in {"running", "passed", "failed", "returned-to-ready"}
    BY <1>19
  <2>7. retries' \in 0 .. Retries /\ calls' \in 0 .. Retries + 1
    BY <1>19
  <2>8. faults' \in 0 .. MaxFaults
    <3>1. faults' = faults \/ Fault
      BY <1>19
    <3> QED
      BY <3>1
  <2> QED
    BY <2>1, <2>2, <2>3, <2>4, <2>5, <2>6, <2>7, <2>8
<1>20. CASE endBody
  BY <1>20 DEF endBody, AfterLogs
<1>21. CASE collect_test_logs
  BY <1>21 DEF collect_test_logs
<1>22. CASE is_installing
  BY <1>22 DEF is_installing
<1>23. CASE is_finalizing
  BY <1>23 DEF is_finalizing
<1>24. CASE cancel_install
  <2> USE DEF cancel_install
  <2>1. status' \in ClusterStatus /\ fallbacks' \in 0 .. MaxFallbacks
    BY <1>24
  <2>2. host' \in [Hosts -> NodesStatus] /\ operator' \in [Operators -> OperatorStatus]
    BY <1>24
  <2>3. infraEnv' \in BOOLEAN /\ booted' \in BOOLEAN
    BY <1>24
  <2>4. is_installed' \in BOOLEAN /\ refused' \in BOOLEAN
    BY <1>24
  <2>5. pc' \in PC /\ handle' \in {"never", "set", "None"}
    BY <1>24
  <2>6. result' \in {"running", "passed", "failed", "returned-to-ready"}
    BY <1>24
  <2>7. retries' \in 0 .. Retries /\ calls' \in 0 .. Retries + 1
    BY <1>24
  <2>8. faults' \in 0 .. MaxFaults
    <3>1. faults' = faults \/ Fault
      BY <1>24
    <3> QED
      BY <3>1
  <2> QED
    BY <2>1, <2>2, <2>3, <2>4, <2>5, <2>6, <2>7, <2>8
<1>25. CASE deregister_infraenv
  <2> USE DEF deregister_infraenv, DeregisterInfraenv
  <2>1. status' \in ClusterStatus /\ fallbacks' \in 0 .. MaxFallbacks
    BY <1>25
  <2>2. host' \in [Hosts -> NodesStatus] /\ operator' \in [Operators -> OperatorStatus]
    BY <1>25
  <2>3. infraEnv' \in BOOLEAN /\ booted' \in BOOLEAN
    BY <1>25
  <2>4. is_installed' \in BOOLEAN /\ refused' \in BOOLEAN
    BY <1>25
  <2>5. pc' \in PC /\ handle' \in {"never", "set", "None"}
    BY <1>25
  <2>6. result' \in {"running", "passed", "failed", "returned-to-ready"}
    BY <1>25
  <2>7. retries' \in 0 .. Retries /\ calls' \in 0 .. Retries + 1
    BY <1>25
  <2>8. faults' \in 0 .. MaxFaults
    <3>1. faults' = faults \/ Fault
      BY <1>25
    <3> QED
      BY <3>1
  <2> QED
    BY <2>1, <2>2, <2>3, <2>4, <2>5, <2>6, <2>7, <2>8
<1>26. CASE delete
  <2> USE DEF delete, DeregisterInfraenv
  <2>1. status' \in ClusterStatus /\ fallbacks' \in 0 .. MaxFallbacks
    BY <1>26
  <2>2. host' \in [Hosts -> NodesStatus] /\ operator' \in [Operators -> OperatorStatus]
    BY <1>26
  <2>3. infraEnv' \in BOOLEAN /\ booted' \in BOOLEAN
    BY <1>26
  <2>4. is_installed' \in BOOLEAN /\ refused' \in BOOLEAN
    BY <1>26
  <2>5. pc' \in PC /\ handle' \in {"never", "set", "None"}
    BY <1>26
  <2>6. result' \in {"running", "passed", "failed", "returned-to-ready"}
    BY <1>26
  <2>7. retries' \in 0 .. Retries /\ calls' \in 0 .. Retries + 1
    BY <1>26
  <2>8. faults' \in 0 .. MaxFaults
    <3>1. faults' = faults \/ Fault
      BY <1>26
    <3> QED
      BY <3>1
  <2> QED
    BY <2>1, <2>2, <2>3, <2>4, <2>5, <2>6, <2>7, <2>8
<1>27. CASE delete_cluster
  BY <1>27 DEF delete_cluster
<1>28. CASE timeoutExpired
  BY <1>28 DEF timeoutExpired, PollRaises, Waits
<1>29. CASE pollFails
  BY <1>29 DEF pollFails
<1> QED
  BY <1>1, <1>2, <1>3, <1>4, <1>5, <1>6, <1>7, <1>8, <1>9, <1>10, <1>11, <1>12, <1>13,
     <1>14, <1>15, <1>16, <1>17, <1>18, <1>19, <1>20, <1>21, <1>22, <1>23, <1>24, <1>25,
     <1>26, <1>27, <1>28, <1>29
     DEF Driver, SetUp, Prepare, Install, Teardown

LEMMA DriverCalls == InstallTypeOK /\ CallsCounted /\ Driver => CallsCounted'
<1> SUFFICES ASSUME InstallTypeOK /\ CallsCounted, Driver PROVE CallsCounted'
  OBVIOUS
<1> USE Numbers, Counters
<1> USE DEF Step, Fault, Raise, svcVars, CallsCounted, BeforeCall, Waits
<1>1. CASE create
  BY <1>1 DEF create
<1>2. CASE update_existing
  BY <1>2 DEF update_existing
<1>3. CASE setUpFixture
  BY <1>3 DEF setUpFixture
<1>4. CASE beginBody
  BY <1>4 DEF beginBody, PollTrue
<1>5. CASE create_custom_manifests
  BY <1>5 DEF create_custom_manifests, Request
<1>6. CASE download_image
  BY <1>6 DEF download_image
<1>7. CASE start_all
  BY <1>7 DEF start_all
<1>8. CASE wait_until_hosts_are_discovered
  BY <1>8 DEF wait_until_hosts_are_discovered, AreHostsInStatus, PollTrue, PollRaises
<1>9. CASE set_hostnames_and_roles
  BY <1>9 DEF set_hostnames_and_roles, Request
<1>10. CASE wait_for_ready_to_install
  BY <1>10 DEF wait_for_ready_to_install, WaitTillClusterIsInStatus, PollTrue
<1>11. CASE install_cluster
  BY <1>11 DEF install_cluster
<1>12. CASE waitTillStarted
  BY <1>12 DEF waitTillStarted, WaitTillClusterIsInStatus, PollTrue
<1>13. CASE retryAfterFallback
  BY <1>13 DEF retryAfterFallback
<1>14. CASE wait_for_hosts_to_install
  BY <1>14 DEF wait_for_hosts_to_install, AreHostsInStatus, PollTrue, PollRaises
<1>15. CASE get_operators
  BY <1>15 DEF get_operators, Request
<1>16. CASE wait_for_operators_to_finish
  BY <1>16 DEF wait_for_operators_to_finish, AreOperatorsInStatus, PollTrue, PollRaises
<1>17. CASE wait_for_install
  BY <1>17 DEF wait_for_install, WaitTillClusterIsInStatus, PollTrue
<1>18. CASE download_kubeconfig
  BY <1>18 DEF download_kubeconfig, Request
<1>19. CASE setInstalled
  BY <1>19 DEF setInstalled
<1>20. CASE endBody
  BY <1>20 DEF endBody, AfterLogs
<1>21. CASE collect_test_logs
  BY <1>21 DEF collect_test_logs
<1>22. CASE is_installing
  BY <1>22 DEF is_installing
<1>23. CASE is_finalizing
  BY <1>23 DEF is_finalizing
<1>24. CASE cancel_install
  BY <1>24 DEF cancel_install
<1>25. CASE deregister_infraenv
  BY <1>25 DEF deregister_infraenv, DeregisterInfraenv
<1>26. CASE delete
  BY <1>26 DEF delete, DeregisterInfraenv
<1>27. CASE delete_cluster
  BY <1>27 DEF delete_cluster
<1>28. CASE timeoutExpired
  BY <1>28 DEF timeoutExpired, PollRaises, Waits
<1>29. CASE pollFails
  BY <1>29 DEF pollFails
<1> QED
  BY <1>1, <1>2, <1>3, <1>4, <1>5, <1>6, <1>7, <1>8, <1>9, <1>10, <1>11, <1>12, <1>13,
     <1>14, <1>15, <1>16, <1>17, <1>18, <1>19, <1>20, <1>21, <1>22, <1>23, <1>24, <1>25,
     <1>26, <1>27, <1>28, <1>29
     DEF Driver, SetUp, Prepare, Install, Teardown

LEMMA DriverFallbacks == InstallTypeOK /\ CallsCounted /\ CallsFollowFallbacks /\ ReadyErrorAfterRetries /\ Driver => CallsFollowFallbacks' /\ ReadyErrorAfterRetries'
<1> SUFFICES ASSUME InstallTypeOK /\ CallsCounted /\ CallsFollowFallbacks /\ ReadyErrorAfterRetries, Driver PROVE CallsFollowFallbacks' /\ ReadyErrorAfterRetries'
  OBVIOUS
<1> USE Numbers, Counters
<1> USE DEF Step, Fault, Raise, svcVars, CallsCounted, CallsFollowFallbacks, RetryNeedsFallback, ReadyErrorAfterRetries,
            BeforeCall, BeforeInstall, Waits
<1>1. CASE create
  BY <1>1 DEF create
<1>2. CASE update_existing
  BY <1>2 DEF update_existing
<1>3. CASE setUpFixture
  BY <1>3 DEF setUpFixture
<1>4. CASE beginBody
  BY <1>4 DEF beginBody, PollTrue
<1>5. CASE create_custom_manifests
  BY <1>5 DEF create_custom_manifests, Request
<1>6. CASE download_image
  BY <1>6 DEF download_image
<1>7. CASE start_all
  BY <1>7 DEF start_all
<1>8. CASE wait_until_hosts_are_discovered
  BY <1>8 DEF wait_until_hosts_are_discovered, AreHostsInStatus, PollTrue, PollRaises
<1>9. CASE set_hostnames_and_roles
  BY <1>9 DEF set_hostnames_and_roles, Request
<1>10. CASE wait_for_ready_to_install
  BY <1>10 DEF wait_for_ready_to_install, WaitTillClusterIsInStatus, PollTrue
<1>11. CASE install_cluster
  BY <1>11 DEF install_cluster
<1>12. CASE waitTillStarted
  BY <1>12 DEF waitTillStarted, WaitTillClusterIsInStatus, PollTrue
<1>13. CASE retryAfterFallback
  BY <1>13 DEF retryAfterFallback
<1>14. CASE wait_for_hosts_to_install
  BY <1>14 DEF wait_for_hosts_to_install, AreHostsInStatus, PollTrue, PollRaises
<1>15. CASE get_operators
  BY <1>15 DEF get_operators, Request
<1>16. CASE wait_for_operators_to_finish
  BY <1>16 DEF wait_for_operators_to_finish, AreOperatorsInStatus, PollTrue, PollRaises
<1>17. CASE wait_for_install
  BY <1>17 DEF wait_for_install, WaitTillClusterIsInStatus, PollTrue
<1>18. CASE download_kubeconfig
  BY <1>18 DEF download_kubeconfig, Request
<1>19. CASE setInstalled
  BY <1>19 DEF setInstalled
<1>20. CASE endBody
  BY <1>20 DEF endBody, AfterLogs
<1>21. CASE collect_test_logs
  BY <1>21 DEF collect_test_logs
<1>22. CASE is_installing
  BY <1>22 DEF is_installing
<1>23. CASE is_finalizing
  BY <1>23 DEF is_finalizing
<1>24. CASE cancel_install
  BY <1>24 DEF cancel_install
<1>25. CASE deregister_infraenv
  BY <1>25 DEF deregister_infraenv, DeregisterInfraenv
<1>26. CASE delete
  BY <1>26 DEF delete, DeregisterInfraenv
<1>27. CASE delete_cluster
  BY <1>27 DEF delete_cluster
<1>28. CASE timeoutExpired
  BY <1>28 DEF timeoutExpired, PollRaises, Waits
<1>29. CASE pollFails
  BY <1>29 DEF pollFails
<1> QED
  BY <1>1, <1>2, <1>3, <1>4, <1>5, <1>6, <1>7, <1>8, <1>9, <1>10, <1>11, <1>12, <1>13,
     <1>14, <1>15, <1>16, <1>17, <1>18, <1>19, <1>20, <1>21, <1>22, <1>23, <1>24, <1>25,
     <1>26, <1>27, <1>28, <1>29
     DEF Driver, SetUp, Prepare, Install, Teardown

LEMMA DriverHandle == InstallTypeOK /\ HandleFollowsInfraEnv /\ Driver => HandleFollowsInfraEnv'
<1> SUFFICES ASSUME InstallTypeOK /\ HandleFollowsInfraEnv, Driver PROVE HandleFollowsInfraEnv'
  OBVIOUS
<1> USE Numbers
<1> USE DEF Step, Fault, Raise, svcVars, HandleFollowsInfraEnv, Waits, InstallTypeOK, ServiceTypeOK
<1>1. CASE create
  BY <1>1 DEF create
<1>2. CASE update_existing
  BY <1>2 DEF update_existing
<1>3. CASE setUpFixture
  BY <1>3 DEF setUpFixture
<1>4. CASE beginBody
  BY <1>4 DEF beginBody, PollTrue
<1>5. CASE create_custom_manifests
  BY <1>5 DEF create_custom_manifests, Request
<1>6. CASE download_image
  BY <1>6 DEF download_image
<1>7. CASE start_all
  BY <1>7 DEF start_all
<1>8. CASE wait_until_hosts_are_discovered
  BY <1>8 DEF wait_until_hosts_are_discovered, AreHostsInStatus, PollTrue, PollRaises
<1>9. CASE set_hostnames_and_roles
  BY <1>9 DEF set_hostnames_and_roles, Request
<1>10. CASE wait_for_ready_to_install
  BY <1>10 DEF wait_for_ready_to_install, WaitTillClusterIsInStatus, PollTrue
<1>11. CASE install_cluster
  BY <1>11 DEF install_cluster
<1>12. CASE waitTillStarted
  BY <1>12 DEF waitTillStarted, WaitTillClusterIsInStatus, PollTrue
<1>13. CASE retryAfterFallback
  BY <1>13 DEF retryAfterFallback
<1>14. CASE wait_for_hosts_to_install
  BY <1>14 DEF wait_for_hosts_to_install, AreHostsInStatus, PollTrue, PollRaises
<1>15. CASE get_operators
  BY <1>15 DEF get_operators, Request
<1>16. CASE wait_for_operators_to_finish
  BY <1>16 DEF wait_for_operators_to_finish, AreOperatorsInStatus, PollTrue, PollRaises
<1>17. CASE wait_for_install
  BY <1>17 DEF wait_for_install, WaitTillClusterIsInStatus, PollTrue
<1>18. CASE download_kubeconfig
  BY <1>18 DEF download_kubeconfig, Request
<1>19. CASE setInstalled
  BY <1>19 DEF setInstalled
<1>20. CASE endBody
  BY <1>20 DEF endBody, AfterLogs
<1>21. CASE collect_test_logs
  BY <1>21 DEF collect_test_logs
<1>22. CASE is_installing
  BY <1>22 DEF is_installing
<1>23. CASE is_finalizing
  BY <1>23 DEF is_finalizing
<1>24. CASE cancel_install
  BY <1>24 DEF cancel_install
<1>25. CASE deregister_infraenv
  BY <1>25 DEF deregister_infraenv, DeregisterInfraenv
<1>26. CASE delete
  BY <1>26 DEF delete, DeregisterInfraenv
<1>27. CASE delete_cluster
  BY <1>27 DEF delete_cluster
<1>28. CASE timeoutExpired
  BY <1>28 DEF timeoutExpired, PollRaises, Waits
<1>29. CASE pollFails
  BY <1>29 DEF pollFails
<1> QED
  BY <1>1, <1>2, <1>3, <1>4, <1>5, <1>6, <1>7, <1>8, <1>9, <1>10, <1>11, <1>12, <1>13,
     <1>14, <1>15, <1>16, <1>17, <1>18, <1>19, <1>20, <1>21, <1>22, <1>23, <1>24, <1>25,
     <1>26, <1>27, <1>28, <1>29
     DEF Driver, SetUp, Prepare, Install, Teardown

\* A request that failed is not forgotten.
LEMMA FaultCounts == InstallTypeOK /\ Fault => faults' # 0
  BY Numbers DEF InstallTypeOK, Fault

\* A teardown in which nothing fails goes through to the deletion: the infra-env
\* it asks for is there, so that neither deregistration raises.
LEMMA DriverClean ==
    InstallTypeOK /\ HandleFollowsInfraEnv /\ CleanWithoutFaults /\ Driver => CleanWithoutFaults'
<1> SUFFICES ASSUME InstallTypeOK /\ HandleFollowsInfraEnv /\ CleanWithoutFaults, Driver
             PROVE  CleanWithoutFaults'
  OBVIOUS
<1> USE Numbers
<1> USE DEF Step, Fault, Raise, svcVars, HandleFollowsInfraEnv, CleanWithoutFaults, Waits,
            InstallTypeOK, ServiceTypeOK
<1>1. CASE create
  BY <1>1 DEF create
<1>2. CASE update_existing
  BY <1>2 DEF update_existing
<1>3. CASE setUpFixture
  BY <1>3 DEF setUpFixture
<1>4. CASE beginBody
  BY <1>4 DEF beginBody, PollTrue
<1>5. CASE create_custom_manifests
  BY <1>5 DEF create_custom_manifests, Request
<1>6. CASE download_image
  <2>1. CASE Fault
    BY <2>1, FaultCounts
  <2>2. CASE infraEnv' = TRUE /\ handle' = "set" /\ pc' = "boot"
    BY <2>2
  <2> QED
    BY <1>6, <2>1, <2>2 DEF download_image
<1>7. CASE start_all
  <2>1. CASE Fault
    BY <2>1, FaultCounts
  <2>2. CASE pc = "boot" /\ pc' = "discover" /\ UNCHANGED <<infraEnv, handle, faults>>
    BY <2>2
  <2> QED
    BY <1>7, <2>1, <2>2 DEF start_all
<1>8. CASE wait_until_hosts_are_discovered
  BY <1>8 DEF wait_until_hosts_are_discovered, AreHostsInStatus, PollTrue, PollRaises
<1>9. CASE set_hostnames_and_roles
  BY <1>9 DEF set_hostnames_and_roles, Request
<1>10. CASE wait_for_ready_to_install
  BY <1>10 DEF wait_for_ready_to_install, WaitTillClusterIsInStatus, PollTrue
<1>11. CASE install_cluster
  BY <1>11 DEF install_cluster
<1>12. CASE waitTillStarted
  BY <1>12 DEF waitTillStarted, WaitTillClusterIsInStatus, PollTrue
<1>13. CASE retryAfterFallback
  BY <1>13 DEF retryAfterFallback
<1>14. CASE wait_for_hosts_to_install
  BY <1>14 DEF wait_for_hosts_to_install, AreHostsInStatus, PollTrue, PollRaises
<1>15. CASE get_operators
  BY <1>15 DEF get_operators, Request
<1>16. CASE wait_for_operators_to_finish
  BY <1>16 DEF wait_for_operators_to_finish, AreOperatorsInStatus, PollTrue, PollRaises
<1>17. CASE wait_for_install
  BY <1>17 DEF wait_for_install, WaitTillClusterIsInStatus, PollTrue
<1>18. CASE download_kubeconfig
  BY <1>18 DEF download_kubeconfig, Request
<1>19. CASE setInstalled
  BY <1>19 DEF setInstalled
<1>20. CASE endBody
  BY <1>20 DEF endBody, AfterLogs
<1>21. CASE collect_test_logs
  BY <1>21 DEF collect_test_logs
<1>22. CASE is_installing
  BY <1>22 DEF is_installing
<1>23. CASE is_finalizing
  BY <1>23 DEF is_finalizing
<1>24. CASE cancel_install
  BY <1>24 DEF cancel_install
<1>25. CASE deregister_infraenv
  BY <1>25 DEF deregister_infraenv, DeregisterInfraenv
<1>26. CASE delete
  BY <1>26 DEF delete, DeregisterInfraenv
<1>27. CASE delete_cluster
  BY <1>27 DEF delete_cluster
<1>28. CASE timeoutExpired
  BY <1>28 DEF timeoutExpired, PollRaises, Waits
<1>29. CASE pollFails
  BY <1>29 DEF pollFails
<1> QED
  BY <1>1, <1>2, <1>3, <1>4, <1>5, <1>6, <1>7, <1>8, <1>9, <1>10, <1>11, <1>12, <1>13,
     <1>14, <1>15, <1>16, <1>17, <1>18, <1>19, <1>20, <1>21, <1>22, <1>23, <1>24, <1>25,
     <1>26, <1>27, <1>28, <1>29
     DEF Driver, SetUp, Prepare, Install, Teardown

\* What the test needs to remember about the waits that are over.
Remembered == InstallTypeOK /\ SeenStaysTrue /\ FlagAfterPassing /\ ~Existing

\* After the wait for the hosts, no step of the test before the teardown
\* changes a host.
HostsRemembered ==
    pc' \in AfterHosts => host' = host /\ Cardinality(HostsIn({"installed"})) >= NodesCount

LEMMA DriverHosts == Remembered /\ Driver => HostsRemembered
<1> SUFFICES ASSUME Remembered, Driver PROVE HostsRemembered
  OBVIOUS
<1> USE Numbers
<1> USE DEF Step, Fault, Raise, svcVars, Remembered, HostsRemembered, SeenStaysTrue, FlagAfterPassing, Waits,
            AfterHosts, AfterBuiltin, AfterOlm, AfterCluster
<1>1. CASE create
  BY <1>1 DEF create
<1>2. CASE update_existing
  BY <1>2 DEF update_existing
<1>3. CASE setUpFixture
  BY <1>3 DEF setUpFixture
<1>4. CASE beginBody
  BY <1>4 DEF beginBody, PollTrue
<1>5. CASE create_custom_manifests
  BY <1>5 DEF create_custom_manifests, Request
<1>6. CASE download_image
  BY <1>6 DEF download_image
<1>7. CASE start_all
  BY <1>7 DEF start_all
<1>8. CASE wait_until_hosts_are_discovered
  BY <1>8 DEF wait_until_hosts_are_discovered, AreHostsInStatus, PollTrue, PollRaises
<1>9. CASE set_hostnames_and_roles
  BY <1>9 DEF set_hostnames_and_roles, Request
<1>10. CASE wait_for_ready_to_install
  BY <1>10 DEF wait_for_ready_to_install, WaitTillClusterIsInStatus, PollTrue
<1>11. CASE install_cluster
  BY <1>11 DEF install_cluster
<1>12. CASE waitTillStarted
  BY <1>12 DEF waitTillStarted, WaitTillClusterIsInStatus, PollTrue
<1>13. CASE retryAfterFallback
  BY <1>13 DEF retryAfterFallback
<1>14. CASE wait_for_hosts_to_install
  BY <1>14 DEF wait_for_hosts_to_install, AreHostsInStatus, PollTrue, PollRaises
<1>15. CASE get_operators
  BY <1>15 DEF get_operators, Request
<1>16. CASE wait_for_operators_to_finish
  BY <1>16 DEF wait_for_operators_to_finish, AreOperatorsInStatus, PollTrue, PollRaises
<1>17. CASE wait_for_install
  BY <1>17 DEF wait_for_install, WaitTillClusterIsInStatus, PollTrue
<1>18. CASE download_kubeconfig
  BY <1>18 DEF download_kubeconfig, Request
<1>19. CASE setInstalled
  BY <1>19 DEF setInstalled
<1>20. CASE endBody
  BY <1>20 DEF endBody, AfterLogs
<1>21. CASE collect_test_logs
  BY <1>21 DEF collect_test_logs
<1>22. CASE is_installing
  BY <1>22 DEF is_installing
<1>23. CASE is_finalizing
  BY <1>23 DEF is_finalizing
<1>24. CASE cancel_install
  BY <1>24 DEF cancel_install
<1>25. CASE deregister_infraenv
  BY <1>25 DEF deregister_infraenv, DeregisterInfraenv
<1>26. CASE delete
  BY <1>26 DEF delete, DeregisterInfraenv
<1>27. CASE delete_cluster
  BY <1>27 DEF delete_cluster
<1>28. CASE timeoutExpired
  BY <1>28 DEF timeoutExpired, PollRaises, Waits
<1>29. CASE pollFails
  BY <1>29 DEF pollFails
<1> QED
  BY <1>1, <1>2, <1>3, <1>4, <1>5, <1>6, <1>7, <1>8, <1>9, <1>10, <1>11, <1>12, <1>13,
     <1>14, <1>15, <1>16, <1>17, <1>18, <1>19, <1>20, <1>21, <1>22, <1>23, <1>24, <1>25,
     <1>26, <1>27, <1>28, <1>29
     DEF Driver, SetUp, Prepare, Install, Teardown

OperatorsRemembered ==
    /\ pc' \in AfterBuiltin => \A o \in Builtin : operator'[o] = "available"
    /\ pc' \in AfterOlm => \A o \in Olm : operator'[o] = "available"
    /\ pc' \in AfterCluster => status' = "installed"

LEMMA DriverOperators == Remembered /\ Driver => OperatorsRemembered
<1> SUFFICES ASSUME Remembered, Driver PROVE OperatorsRemembered
  OBVIOUS
<1> USE Numbers
<1> USE DEF Step, Fault, Raise, svcVars, Remembered, OperatorsRemembered, SeenStaysTrue, FlagAfterPassing, Waits,
            AfterHosts, AfterBuiltin, AfterOlm, AfterCluster
<1>1. CASE create
  BY <1>1 DEF create
<1>2. CASE update_existing
  BY <1>2 DEF update_existing
<1>3. CASE setUpFixture
  BY <1>3 DEF setUpFixture
<1>4. CASE beginBody
  BY <1>4 DEF beginBody, PollTrue
<1>5. CASE create_custom_manifests
  BY <1>5 DEF create_custom_manifests, Request
<1>6. CASE download_image
  BY <1>6 DEF download_image
<1>7. CASE start_all
  BY <1>7 DEF start_all
<1>8. CASE wait_until_hosts_are_discovered
  BY <1>8 DEF wait_until_hosts_are_discovered, AreHostsInStatus, PollTrue, PollRaises
<1>9. CASE set_hostnames_and_roles
  BY <1>9 DEF set_hostnames_and_roles, Request
<1>10. CASE wait_for_ready_to_install
  BY <1>10 DEF wait_for_ready_to_install, WaitTillClusterIsInStatus, PollTrue
<1>11. CASE install_cluster
  BY <1>11 DEF install_cluster
<1>12. CASE waitTillStarted
  BY <1>12 DEF waitTillStarted, WaitTillClusterIsInStatus, PollTrue
<1>13. CASE retryAfterFallback
  BY <1>13 DEF retryAfterFallback
<1>14. CASE wait_for_hosts_to_install
  BY <1>14 DEF wait_for_hosts_to_install, AreHostsInStatus, PollTrue, PollRaises
<1>15. CASE get_operators
  BY <1>15 DEF get_operators, Request
<1>16. CASE wait_for_operators_to_finish
  BY <1>16 DEF wait_for_operators_to_finish, AreOperatorsInStatus, PollTrue, PollRaises
<1>17. CASE wait_for_install
  BY <1>17 DEF wait_for_install, WaitTillClusterIsInStatus, PollTrue
<1>18. CASE download_kubeconfig
  BY <1>18 DEF download_kubeconfig, Request
<1>19. CASE setInstalled
  BY <1>19 DEF setInstalled
<1>20. CASE endBody
  BY <1>20 DEF endBody, AfterLogs
<1>21. CASE collect_test_logs
  BY <1>21 DEF collect_test_logs
<1>22. CASE is_installing
  BY <1>22 DEF is_installing
<1>23. CASE is_finalizing
  BY <1>23 DEF is_finalizing
<1>24. CASE cancel_install
  BY <1>24 DEF cancel_install
<1>25. CASE deregister_infraenv
  BY <1>25 DEF deregister_infraenv, DeregisterInfraenv
<1>26. CASE delete
  BY <1>26 DEF delete, DeregisterInfraenv
<1>27. CASE delete_cluster
  BY <1>27 DEF delete_cluster
<1>28. CASE timeoutExpired
  BY <1>28 DEF timeoutExpired, PollRaises, Waits
<1>29. CASE pollFails
  BY <1>29 DEF pollFails
<1> QED
  BY <1>1, <1>2, <1>3, <1>4, <1>5, <1>6, <1>7, <1>8, <1>9, <1>10, <1>11, <1>12, <1>13,
     <1>14, <1>15, <1>16, <1>17, <1>18, <1>19, <1>20, <1>21, <1>22, <1>23, <1>24, <1>25,
     <1>26, <1>27, <1>28, <1>29
     DEF Driver, SetUp, Prepare, Install, Teardown

LEMMA DriverFlag == Remembered /\ Driver => FlagAfterPassing'
<1> SUFFICES ASSUME Remembered, Driver PROVE FlagAfterPassing'
  OBVIOUS
<1> USE Numbers
<1> USE DEF Step, Fault, Raise, svcVars, Remembered, SeenStaysTrue, FlagAfterPassing, Waits, AfterHosts, AfterBuiltin, AfterOlm, AfterCluster
<1>1. CASE create
  BY <1>1 DEF create
<1>2. CASE update_existing
  BY <1>2 DEF update_existing
<1>3. CASE setUpFixture
  BY <1>3 DEF setUpFixture
<1>4. CASE beginBody
  BY <1>4 DEF beginBody, PollTrue
<1>5. CASE create_custom_manifests
  BY <1>5 DEF create_custom_manifests, Request
<1>6. CASE download_image
  BY <1>6 DEF download_image
<1>7. CASE start_all
  BY <1>7 DEF start_all
<1>8. CASE wait_until_hosts_are_discovered
  BY <1>8 DEF wait_until_hosts_are_discovered, AreHostsInStatus, PollTrue, PollRaises
<1>9. CASE set_hostnames_and_roles
  BY <1>9 DEF set_hostnames_and_roles, Request
<1>10. CASE wait_for_ready_to_install
  BY <1>10 DEF wait_for_ready_to_install, WaitTillClusterIsInStatus, PollTrue
<1>11. CASE install_cluster
  BY <1>11 DEF install_cluster
<1>12. CASE waitTillStarted
  BY <1>12 DEF waitTillStarted, WaitTillClusterIsInStatus, PollTrue
<1>13. CASE retryAfterFallback
  BY <1>13 DEF retryAfterFallback
<1>14. CASE wait_for_hosts_to_install
  BY <1>14 DEF wait_for_hosts_to_install, AreHostsInStatus, PollTrue, PollRaises
<1>15. CASE get_operators
  BY <1>15 DEF get_operators, Request
<1>16. CASE wait_for_operators_to_finish
  BY <1>16 DEF wait_for_operators_to_finish, AreOperatorsInStatus, PollTrue, PollRaises
<1>17. CASE wait_for_install
  BY <1>17 DEF wait_for_install, WaitTillClusterIsInStatus, PollTrue
<1>18. CASE download_kubeconfig
  BY <1>18 DEF download_kubeconfig, Request
<1>19. CASE setInstalled
  BY <1>19 DEF setInstalled
<1>20. CASE endBody
  BY <1>20 DEF endBody, AfterLogs
<1>21. CASE collect_test_logs
  BY <1>21 DEF collect_test_logs
<1>22. CASE is_installing
  BY <1>22 DEF is_installing
<1>23. CASE is_finalizing
  BY <1>23 DEF is_finalizing
<1>24. CASE cancel_install
  BY <1>24 DEF cancel_install
<1>25. CASE deregister_infraenv
  BY <1>25 DEF deregister_infraenv, DeregisterInfraenv
<1>26. CASE delete
  BY <1>26 DEF delete, DeregisterInfraenv
<1>27. CASE delete_cluster
  BY <1>27 DEF delete_cluster
<1>28. CASE timeoutExpired
  BY <1>28 DEF timeoutExpired, PollRaises, Waits
<1>29. CASE pollFails
  BY <1>29 DEF pollFails
<1> QED
  BY <1>1, <1>2, <1>3, <1>4, <1>5, <1>6, <1>7, <1>8, <1>9, <1>10, <1>11, <1>12, <1>13,
     <1>14, <1>15, <1>16, <1>17, <1>18, <1>19, <1>20, <1>21, <1>22, <1>23, <1>24, <1>25,
     <1>26, <1>27, <1>28, <1>29
     DEF Driver, SetUp, Prepare, Install, Teardown

LEMMA DriverSeen == Remembered /\ Driver => SeenStaysTrue'
<1> SUFFICES ASSUME Remembered, Driver PROVE SeenStaysTrue'
  OBVIOUS
<1>1. HostsRemembered
  BY DriverHosts
<1>2. pc' \in AfterHosts => Cardinality(HostsIn({"installed"}))' >= NodesCount
  BY <1>1, Numbers, InstalledHostsGrow DEF HostsRemembered
<1>3. OperatorsRemembered
  BY DriverOperators
<1> QED
  BY <1>2, <1>3 DEF OperatorsRemembered, SeenStaysTrue, AfterHosts, AfterBuiltin, AfterOlm, AfterCluster

LEMMA DriverInv == InstallIInv /\ Driver => InstallIInv'
<1> SUFFICES ASSUME InstallIInv, Driver PROVE InstallIInv'
  OBVIOUS
<1>1. InstallTypeOK' /\ CallsCounted'
  BY DriverType, DriverCalls DEF InstallIInv
<1>2. CallsFollowFallbacks' /\ ReadyErrorAfterRetries'
  BY DriverFallbacks DEF InstallIInv
<1>3. HandleFollowsInfraEnv'
  BY DriverHandle DEF InstallIInv
<1>4. CleanWithoutFaults'
  BY DriverClean DEF InstallIInv
<1>5. ~Existing => SeenStaysTrue' /\ FlagAfterPassing'
  BY DriverSeen, DriverFlag DEF InstallIInv, Remembered
<1> QED
  BY <1>1, <1>2, <1>3, <1>4, <1>5 DEF InstallIInv

LEMMA StutterInv == InstallIInv /\ UNCHANGED vars => InstallIInv'
<1> SUFFICES ASSUME InstallIInv, UNCHANGED vars PROVE InstallIInv'
  OBVIOUS
<1> USE DEF InstallIInv, vars, svcVars, drvVars
<1>1. InstallTypeOK'
  BY DEF InstallTypeOK, ServiceTypeOK
<1>2. CallsCounted' /\ CallsFollowFallbacks' /\ ReadyErrorAfterRetries'
  BY DEF CallsCounted, CallsFollowFallbacks, ReadyErrorAfterRetries, RetryNeedsFallback, BeforeCall,
         BeforeInstall
<1>3. HandleFollowsInfraEnv' /\ CleanWithoutFaults' /\ (~Existing => FlagAfterPassing')
  BY DEF HandleFollowsInfraEnv, CleanWithoutFaults, FlagAfterPassing
<1>4. ~Existing => SeenStaysTrue'
  BY DEF SeenStaysTrue, HostsIn, AfterHosts, AfterBuiltin, AfterOlm, AfterCluster
<1> QED
  BY <1>1, <1>2, <1>3, <1>4

LEMMA InstallInvariance == Spec => []InstallIInv
<1>1. InstallIInv /\ [Next]_vars => InstallIInv'
  BY ServiceInv, DriverInv, StutterInv DEF Next
<1> QED
  BY InitInv, <1>1, PTL DEF Spec

-----------------------------------------------------------------------------
(***************************************************************************)
(* The state of service and test is well typed; in particular start_instal *)
(* l calls install_cluster at most Retries + 1 times.                      *)
(***************************************************************************)
THEOREM InstallTypeCorrect == Spec => []InstallTypeOK
<1>1. InstallIInv => InstallTypeOK
  BY DEF InstallIInv
<1> QED
  BY <1>1, InstallInvariance, PTL

(***************************************************************************)
(* start_install repeats install_cluster only after a fallback to ready,   *)
(* and raises its error about the fallback only when the retries are used. *)
(***************************************************************************)
THEOREM RetriesFollowFallbacks == Spec => []RetriesAreDue
<1>1. InstallIInv => RetriesAreDue
  BY DEF InstallIInv, CallsFollowFallbacks, RetriesAreDue
<1> QED
  BY <1>1, InstallInvariance, PTL

(***************************************************************************)
(* A test that created its cluster passes only with a complete             *)
(* installation.                                                           *)
(***************************************************************************)
THEOREM PassedTestsAreComplete == Spec => []PassedIsComplete
<1>1. InstallIInv => PassedIsComplete
  BY DEF InstallIInv, PassedIsComplete, SeenStaysTrue, Operators, AfterHosts, AfterBuiltin, AfterOlm,
         AfterCluster
<1> QED
  BY <1>1, InstallInvariance, PTL

(***************************************************************************)
(* The docstring of is_installed holds for a cluster the test created.     *)
(***************************************************************************)
THEOREM InstalledFlagIsTrue == ASSUME ~Existing PROVE Spec => []IsInstalledIsTrue
<1>1. InstallIInv => IsInstalledIsTrue
  BY DEF InstallIInv, IsInstalledIsTrue, FlagAfterPassing
<1> QED
  BY <1>1, InstallInvariance, PTL

(***************************************************************************)
(* The teardown deletes no cluster before the infra-env the test had.      *)
(***************************************************************************)
THEOREM InfraEnvsAreNotOrphaned == Spec => []NoOrphanInfraEnv
<1>1. InstallIInv => NoOrphanInfraEnv
  BY DEF InstallIInv, NoOrphanInfraEnv, HandleFollowsInfraEnv, InstallTypeOK
<1> QED
  BY <1>1, InstallInvariance, PTL

(***************************************************************************)
(* With TEST_TEARDOWN a test in which no request fails, and whose          *)
(* cancellation is not refused, leaves neither its cluster nor the         *)
(* infra-env behind, for a cluster it created and for one it adopted.      *)
(***************************************************************************)
THEOREM TeardownLeavesNothing == Spec => []NothingLeft
<1>1. InstallIInv => NothingLeft
  BY DEF InstallIInv, NothingLeft, CleanWithoutFaults, HandleFollowsInfraEnv, InstallTypeOK,
         ServiceTypeOK
<1> QED
  BY <1>1, InstallInvariance, PTL
=============================================================================
