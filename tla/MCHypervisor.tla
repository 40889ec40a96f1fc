---------------------------- MODULE MCHypervisor -----------------------------
(***************************************************************************)
(* For TLC: what the sessions of a hypervisor share (the lock, iptables,   *)
(* /etc/hosts, containers, iSCSI targets), the devices of a libvirt node,  *)
(* and the controllers of nodes on other platforms.  They share no state,  *)
(* so one run takes them in turn: focus names the one a behaviour is       *)
(* about, and the others stay in one of their initial states.              *)
(***************************************************************************)
EXTENDS FileLock, HostNat, HostNames, HostServers, IscsiTarget,
        NodeDevices, OciNodes, RedfishNodes, KvmS390xNodes, TfNodes, TLC

VARIABLE focus

CONSTANTS m1, m2, w1, x1, s1, s2

MCMachines == <<m1, m2>>
MCGuests == <<m1, m2, w1>>
MCOthers == <<x1>>
MCNatIndex == s1 :> 0 @@ s2 :> 1

\* Two day-1 sessions and a day-2 cluster; the name of the last one occurs in
\* a name that somebody else wrote, and an old line has a name of the first.
MCNamesOf == "p1" :> <<"api.a", "apps.a">> @@ "p2" :> <<"api.b", "apps.b">> @@ "d2" :> <<"api.c">>
MCOccurs == {<<"api.c", "xapi.c">>}
MCOldLines == << <<"h", "localhost">>, <<"h", "xapi.c">>, <<"old", "api.a">> >>

hostVars == <<lockVars, natVars, hostsVars, srvVars, tgtVars>>
nodeVars == <<devVars, ociVars, rfVars, kvmVars, tfVars>>

HypervisorInit ==
    /\ focus \in {"lock", "nat", "names", "servers", "iscsi", "devices", "oci", "redfish", "kvm", "tf"}
    /\ LockInit /\ NatInit /\ HostNamesInit /\ ServersInit /\ IscsiInit
    /\ DevicesInit /\ OciInit /\ RedfishInit /\ KvmInit /\ TfInit
    /\ focus # "nat" => natRoutes = NatOutputs
    /\ focus # "iscsi" => tgtDisk = CHOOSE d \in TargetDisks : TRUE
    /\ focus # "oci" => ociCur = CHOOSE c \in OciClusters : TRUE
    /\ focus # "redfish" => rfMedia = [m \in Machine |-> "none"]
    /\ focus # "tf" => tfProvider = "nutanix"

HostNext ==
    \/ focus = "lock" /\ LockNext /\ UNCHANGED <<natVars, hostsVars, srvVars, tgtVars>>
    \/ focus = "nat" /\ NatNext /\ UNCHANGED <<lockVars, hostsVars, srvVars, tgtVars>>
    \/ focus = "names" /\ HostNamesNext /\ UNCHANGED <<lockVars, natVars, srvVars, tgtVars>>
    \/ focus = "servers" /\ ServersNext /\ UNCHANGED <<lockVars, natVars, hostsVars, tgtVars>>
    \/ focus = "iscsi" /\ IscsiNext /\ UNCHANGED <<lockVars, natVars, hostsVars, srvVars>>

NodeNext ==
    \/ focus = "devices" /\ DevicesNext /\ UNCHANGED <<ociVars, rfVars, kvmVars, tfVars>>
    \/ focus = "oci" /\ OciNext /\ UNCHANGED <<devVars, rfVars, kvmVars, tfVars>>
    \/ focus = "redfish" /\ RedfishNext /\ UNCHANGED <<devVars, ociVars, kvmVars, tfVars>>
    \/ focus = "kvm" /\ KvmNext /\ UNCHANGED <<devVars, ociVars, rfVars, tfVars>>
    \/ focus = "tf" /\ TfNext /\ UNCHANGED <<devVars, ociVars, rfVars, kvmVars>>

HypervisorNext ==
    /\ UNCHANGED focus
    /\ \/ HostNext /\ UNCHANGED nodeVars
       \/ NodeNext /\ UNCHANGED hostVars

\* The fairness of the lock is that of FileLock.  It asks for nothing when the
\* focus is elsewhere: nobody is waiting for the lock then.  The others are
\* checked for safety only.
HypervisorSpec ==
    /\ HypervisorInit /\ [][HypervisorNext]_<<hostVars, nodeVars, focus>>
    /\ LockFairness
-----------------------------------------------------------------------------
\* Every variable of these parts holds a value of its type.
HypervisorTypeOK ==
    /\ LockTypeOK /\ NatTypeOK /\ HostNamesTypeOK /\ ServersTypeOK /\ IscsiTypeOK
    /\ DevicesTypeOK /\ OciTypeOK /\ RedfishTypeOK /\ KvmTypeOK /\ TfTypeOK

(***************************************************************************)
(* A session keeps its share of the hypervisor whatever the others do: the *)
(* lock that it holds, its iptables rules and the port of its server.      *)
(***************************************************************************)
SessionsKeepTheirShare == ExclusiveUntilUnlink /\ NatUpIsComplete /\ ServerHasPort

(***************************************************************************)
(* What a teardown leaves behind is explained by an error or by a session  *)
(* that was killed: iptables rules, containers and their files, iSCSI      *)
(* targets and their disks, the resources of a cluster in the Oracle       *)
(* cloud.                                                                  *)
(***************************************************************************)
TeardownIsExplained ==
    NatLeftIsExplained /\ ServerLeftIsExplained /\ IscsiLeftIsExplained /\ OciLeftIsExplained

(***************************************************************************)
(* The devices of a running node exist; definitions that cannot be started *)
(* any more, leftover files and stale addresses of a node have no causes   *)
(* but the ones named in NodeDevices.                                      *)
(***************************************************************************)
DevicesAreExplained ==
    RunningHasItsDevices /\ MissingIsExplained /\ LeftFilesAreExplained /\ StaleIpsAreExplained

(***************************************************************************)
(* A controller that returns from preparing, starting or restarting nodes  *)
(* without a reported or a counted error has done so for all of them.      *)
(***************************************************************************)
NodesAreReady == RedfishBootsNewIso /\ KvmWaitIsComplete /\ TfOperationTookEffect
-----------------------------------------------------------------------------
\* The inductive invariant: that of each part.
HypervisorIInv ==
    /\ LockIInv /\ NatIInv /\ HostNamesIInv /\ ServersIInv /\ IscsiIInv
    /\ DevicesIInv /\ OciIInv /\ RedfishIInv /\ KvmIInv /\ TfIInv
=============================================================================
