-------------------------- MODULE ClusterPreparation --------------------------
(***************************************************************************)
(* The preparation of a cluster for its installation once its hosts are    *)
(* discovered (cluster.py, prepare_nodes and prepare_networking): names    *)
(* and roles of the hosts, the networks of the cluster, the load balancer  *)
(* (load_balancer_controller.py) and the DNS record.  A host is its role   *)
(* and a number, an address is a network and an offset or a host.          *)
(***************************************************************************)
EXTENDS Addressing

CONSTANT PrepConfigs    \* platform, lb, dhcp, words and what Addressing has of a layout

VARIABLES
    prep,       \* the configuration of the cluster
    ppc,        \* the step of the preparation
    role,       \* the role of each host at the service
    networked,  \* the hosts have addresses
    request,    \* the networks the cluster was updated with
    vips,       \* the virtual addresses of the cluster at the service
    balancer,   \* the load balancer of the terraform folder
    record      \* the DNS record of the cluster

prepVars == <<prep, ppc, role, networked, request, vips, balancer, record>>

PrepHosts(c) == UNION {{<<r, i>> : i \in 1 .. c[r]} : r \in Roles}
Sno(c) == c.master = 1                                  \* control_plane_count is ONE
Dual(c) == c.v4 /\ c.v6
Unmanaged(c) == c.platform \in {"none", "external"}     \* their tf_platform is none
UserBalanced(c) == c.lb = "user" /\ c.platform = "baremetal"

\* A load balancer of the user is for several masters, on the platforms that
\* set_network_params supports; a single node is alone.
ASSUME PrepAssumption ==
    \A c \in PrepConfigs :
      /\ c.platform \in {"baremetal", "none", "external", "vsphere"} /\ c.lb \in {"cluster", "user"}
      /\ c.dhcp \in BOOLEAN /\ c.v4 \in BOOLEAN /\ c.v6 \in BOOLEAN /\ (c.v4 \/ c.v6)
      /\ c.primary \in {"ipv4", "ipv6"}
      /\ c.master \in Nat \ {0} /\ c.worker \in Nat /\ c.arbiter \in Nat /\ c.words \subseteq Roles
      /\ c.lb = "user" => ~Sno(c) /\ ~c.dhcp /\ ~Unmanaged(c)

NoRequest == [cluster |-> <<>>, machine |-> <<>>, vips |-> <<>>]
NoBalancer == [ip |-> <<>>, api |-> {}, route |-> {}]

PrepInit ==
    /\ prep \in PrepConfigs
    /\ ppc = "discovered"
    /\ role = [h \in PrepHosts(prep) |-> "auto-assign"]
    /\ networked \in BOOLEAN        \* wait_for_networking gives up silently
    /\ request = NoRequest /\ vips = <<>> /\ balancer = NoBalancer /\ record = <<>>

-----------------------------------------------------------------------------
\* The name of the node a host is matched with holds the name of its cluster.
set_hostnames_and_roles ==
    /\ ppc = "discovered" /\ ppc' = IF Sno(prep) THEN "nodes" ELSE "named"
    /\ role' = [h \in PrepHosts(prep) |-> h[1]]
    /\ UNCHANGED <<prep, networked, request, vips, balancer, record>>

\* _get_matching_hosts: the first count hosts whose name contains the role.
Orders(S) == {s \in [1 .. Cardinality(S) -> S] : \A i, j \in DOMAIN s : s[i] = s[j] => i = j}
Matching(listed, r) ==
    LET named == {k \in DOMAIN listed : r \in {listed[k][1]} \cup prep.words}
    IN  {listed[k] : k \in {i \in named : Cardinality({j \in named : j < i}) < prep[r]}}

\* Masters, workers and arbiters are assigned in this order: the last one wins.
Assigned(listed) ==
    [h \in DOMAIN role |-> IF h \in Matching(listed, "arbiter") THEN "arbiter"
                           ELSE IF h \in Matching(listed, "worker") THEN "worker"
                           ELSE IF h \in Matching(listed, "master") THEN "master" ELSE role[h]]

set_host_roles ==
    /\ ppc = "named" /\ ppc' = "nodes"
    /\ \E listed \in Orders(PrepHosts(prep)) : role' = Assigned(listed)
    /\ UNCHANGED <<prep, networked, request, vips, balancer, record>>

-----------------------------------------------------------------------------
\* _configure_networking_for_primary_stack: the cluster and service networks.
PrimaryStackNetworks(c) ==
    CASE Dual(c) /\ c.primary = "ipv6" -> <<"ipv6", "ipv4">>
      [] Dual(c) /\ c.primary = "ipv4" -> <<"ipv4", "ipv6">>
      [] OTHER -> <<IF c.v4 THEN "ipv4" ELSE "ipv6">>

\* The networks of the controller or, on vSphere, those of the hosts.
get_machine_networks(c) ==
    <<get_primary_machine_cidr(c)>> \o Optional(c.platform # "vsphere", get_provisioning_cidr(c))
LoadBalancerIp(c) == <<IF c.lb = "user" THEN "lb" ELSE get_primary_machine_cidr(c), 1>>

\* The virtual addresses of the controller: on vSphere those of the user.
ControllerVips(c) == get_ingress_and_api_vips(c).api

RequestedNetworks(c) ==
    IF Dual(c) THEN get_all_machine_addresses(c)
    ELSE IF Unmanaged(c) THEN <<>>
    ELSE IF c.dhcp \/ Sno(c) THEN <<get_machine_networks(c)[1]>>
    ELSE IF c.lb = "user" THEN get_machine_networks(c) \o Optional(c.platform = "baremetal", "lb")
    ELSE <<>>
RequestedVips(c) ==
    IF Unmanaged(c) \/ c.dhcp \/ Sno(c) THEN <<>>
    ELSE IF UserBalanced(c) THEN <<LoadBalancerIp(c)>>
    ELSE ControllerVips(c)

\* set_network_params raises on vSphere for hosts without addresses, where it
\* needs their networks, and with two stacks.
NetworksAreKnown(c) ==
    c.platform = "vsphere" => ~Dual(c) /\ (networked \/ RequestedNetworks(c) = <<>>)

RequestOf(c) == [cluster |-> PrimaryStackNetworks(c), machine |-> RequestedNetworks(c), vips |-> RequestedVips(c)]

set_network_params ==
    /\ ppc = "nodes"
    /\ IF NetworksAreKnown(prep)
       THEN ppc' = "networks" /\ request' = RequestOf(prep)
       ELSE ppc' = "failed" /\ UNCHANGED request
    /\ UNCHANGED <<prep, role, networked, vips, balancer, record>>

\* get_inventory_host_nics_data: one address of an interface, IPv4 first unless
\* the caller says otherwise.
V6Of == [machine |-> "machine6", provisioning |-> "provisioning6"]
NicNetwork(c, nic, v4first) == IF c.v4 /\ (v4first \/ ~c.v6) THEN nic ELSE V6Of[nic]

\* get_ips_for_role takes IPv4 first, whatever the primary stack.
get_ips_for_role(r) ==
    {<<NicNetwork(prep, nic, TRUE), h>> : nic \in {"machine", "provisioning"},
                                          h \in {x \in PrepHosts(prep) : role[x] = r}}
IpsIn(r, cidr) == {a \in get_ips_for_role(r) : a[1] = cidr}
IpsOf(r) == IpsIn(r, get_primary_machine_cidr(prep)) \cup IpsIn(r, get_provisioning_cidr(prep))

\* set_load_balancing_config: the API goes to the masters, routes go to the
\* workers, or to the masters if there are none.
set_load_balancing_config(ip, masters, workers) ==
    [ip |-> ip, api |-> masters, route |-> IF workers # {} THEN workers ELSE masters]

\* An interface without an address raises.
configure_load_balancer ==
    /\ ppc = "networks" /\ (Unmanaged(prep) \/ UserBalanced(prep))
    /\ IF networked
       THEN /\ balancer' = set_load_balancing_config(LoadBalancerIp(prep), IpsOf("master"), IpsOf("worker"))
            /\ record' = <<get_primary_machine_cidr(prep), 1>>  \* set_dns_for_user_managed_network
            /\ ppc' = "waiting"
       ELSE ppc' = "failed" /\ UNCHANGED <<balancer, record>>
    /\ UNCHANGED <<prep, role, networked, request, vips>>

\* get_ip_for_single_node: an address of the host in the primary network.
set_single_node_dns ==
    /\ ppc = "networks" /\ Sno(prep) /\ ~Unmanaged(prep) /\ ~UserBalanced(prep)
    /\ IF networked /\ NicNetwork(prep, "machine", prep.primary # "ipv6") = get_primary_machine_cidr(prep)
       THEN /\ record' = <<get_primary_machine_cidr(prep), <<"master", 1>>>>
            /\ ppc' = "waiting"
       ELSE ppc' = "failed" /\ UNCHANGED record
    /\ UNCHANGED <<prep, role, networked, request, vips, balancer>>

set_no_dns_yet ==
    /\ ppc = "networks" /\ ~Sno(prep) /\ ~Unmanaged(prep) /\ ~UserBalanced(prep)
    /\ ppc' = "waiting"
    /\ UNCHANGED <<prep, role, networked, request, vips, balancer, record>>

\* External: a ready cluster has the requested virtual addresses, or leases of
\* its first machine network.
cluster_gets_ready ==
    /\ ppc = "waiting" /\ networked /\ ppc' = "ready"
    /\ vips' = IF prep.dhcp /\ ~Unmanaged(prep) /\ ~Sno(prep) THEN <<<<request.machine[1], 200>>>> ELSE request.vips
    /\ UNCHANGED <<prep, role, networked, request, balancer, record>>

\* The end of prepare_networking: _ha_not_none_not_external.
set_dns_of_vips ==
    /\ ppc = "ready" /\ ppc' = "prepared"
    /\ record' = IF Sno(prep) \/ Unmanaged(prep) THEN record ELSE vips[1]
    /\ UNCHANGED <<prep, role, networked, request, vips, balancer>>

\* A request that fails or the timeout of a wait ends the preparation.
preparation_raises ==
    /\ ppc \notin {"failed", "prepared"} /\ ppc' = "failed"
    /\ UNCHANGED <<prep, role, networked, request, vips, balancer, record>>

PrepNext ==
    \/ set_hostnames_and_roles \/ set_host_roles \/ set_network_params
    \/ configure_load_balancer \/ set_single_node_dns \/ set_no_dns_yet
    \/ cluster_gets_ready \/ set_dns_of_vips \/ preparation_raises

-----------------------------------------------------------------------------
\* Every variable holds a value of its type.
PrepTypeOK ==
    /\ prep \in PrepConfigs /\ networked \in BOOLEAN
    /\ ppc \in {"discovered", "named", "nodes", "networks", "waiting", "ready", "prepared", "failed"}
    /\ role \in [PrepHosts(prep) -> Roles \cup {"auto-assign"}]
    /\ Len(request.cluster) <= 2 /\ Len(request.vips) <= 2 /\ Len(vips) <= 2

\* The roles, set by the matched node and again by the names the service lists,
\* are those of the nodes, unless the name of the cluster contains worker or
\* arbiter (one that contains master does no harm: masters are set first).
RolesAreNodes ==
    ppc \notin {"discovered", "failed"} /\ prep.words \cap {"worker", "arbiter"} = {} =>
      \A h \in PrepHosts(prep) : role[h] = h[1]

\* With two stacks the functions that order networks agree: cluster and service
\* networks, machine networks, virtual addresses and the DNS record begin with
\* the primary stack.  The fixed load balancer is IPv4 only.
PrimaryStackLeads ==
    LET lead(net) == IF IsV6(net) THEN "ipv6" ELSE "ipv4" IN
    Dual(prep) /\ request # NoRequest =>
      /\ request.cluster[1] = prep.primary /\ lead(request.machine[1]) = prep.primary
      /\ ~UserBalanced(prep) =>
           /\ \A i \in DOMAIN request.vips : i = 1 => lead(request.vips[i][1]) = prep.primary
           /\ record # <<>> => lead(record[1]) = prep.primary

\* The virtual addresses lie in the machine networks of the same update, except
\* that of the fixed load balancer with two stacks, which replace its network.
VipsInMachineNetworks ==
    request.machine # <<>> /\ ~(Dual(prep) /\ UserBalanced(prep)) =>
      \A i \in DOMAIN request.vips : \E j \in DOMAIN request.machine : request.machine[j] = request.vips[i][1]

\* The load balancer is set up after the roles and hands the API to every
\* master, unless IPv6 is the first of two stacks: get_ips_for_role then finds
\* no address in the primary network.
BalancerHasMasters ==
    balancer # NoBalancer /\ ~(Dual(prep) /\ V6First(prep)) /\ prep.words \cap {"worker", "arbiter"} = {} =>
      /\ \A h \in PrepHosts(prep) : h[1] = "master" => \E a \in balancer.api : a[2] = h
      /\ \A a \in balancer.api : a[2][1] = "master"
      /\ balancer.route # {}

\* The DNS record of a prepared cluster names what answers there: the load
\* balancer, a virtual address of the cluster, or the single node.
RecordIsServed ==
    ppc = "prepared" =>
      CASE balancer # NoBalancer -> record = balancer.ip
        [] balancer = NoBalancer /\ Sno(prep) -> record[2] = <<"master", 1>>
        [] OTHER -> \E i \in DOMAIN vips : record = vips[i]

\* The request is made before anything is set up.
RequestIsMade ==
    /\ request \in {NoRequest, RequestOf(prep)}
    /\ ppc \in {"networks", "waiting", "ready", "prepared"} => request = RequestOf(prep)

\* Which clusters have a load balancer.
BalancerIsSet ==
    /\ balancer # NoBalancer => balancer.ip = LoadBalancerIp(prep) /\ (Unmanaged(prep) \/ UserBalanced(prep))
    /\ ppc \in {"waiting", "ready", "prepared"} /\ balancer = NoBalancer => ~Unmanaged(prep) /\ ~UserBalanced(prep)

\* The virtual addresses of a ready cluster, and its record before and after.
ReadyVips(c) ==
    IF c.dhcp /\ ~Unmanaged(c) /\ ~Sno(c) THEN <<<<RequestedNetworks(c)[1], 200>>>> ELSE RequestedVips(c)
OwnRecord(c) ==
    IF Unmanaged(c) \/ UserBalanced(c) THEN <<get_primary_machine_cidr(c), 1>>
    ELSE IF Sno(c) THEN <<get_primary_machine_cidr(c), <<"master", 1>>>>
    ELSE <<>>
RecordSoFar ==
    /\ vips \in {<<>>, ReadyVips(prep)}
    /\ ppc \in {"ready", "prepared"} => vips = ReadyVips(prep)
    /\ ppc \in {"waiting", "ready"} => record = OwnRecord(prep)
    /\ ppc = "prepared" => record = IF Sno(prep) \/ Unmanaged(prep) THEN OwnRecord(prep) ELSE vips[1]
    /\ ppc \notin {"prepared", "failed"} => record \in {<<>>, OwnRecord(prep)}
    /\ record \in {<<>>, OwnRecord(prep)} \/ (record = ReadyVips(prep)[1] /\ ~Sno(prep) /\ ~Unmanaged(prep))

PrepIInv ==
    /\ PrepTypeOK /\ RolesAreNodes /\ BalancerHasMasters
    /\ RequestIsMade /\ BalancerIsSet /\ RecordSoFar
=============================================================================
