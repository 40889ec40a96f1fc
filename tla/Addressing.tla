------------------------------ MODULE Addressing ------------------------------
(***************************************************************************)
(* The addresses of the nodes of a terraform session: the variables of     *)
(* terraform (terraform_controller.py), the static network data of the     *)
(* discovery image (static_network.py), the order in which an entity       *)
(* prepares nodes and image (entity.py, infra_env.py), and the VLAN of the *)
(* host bridge.  An address is a network and an offset in it, a hardware   *)
(* address is a run of generate_macs with a position in it.                *)
(***************************************************************************)
EXTENDS Naturals, Sequences, FiniteSets

CONSTANTS
    Layouts,        \* the configurations: masters, workers, arbiters, v4, v6, primary, static, slaves, vlan
    MaxPrepares     \* bound: times the nodes are created

VARIABLES
    layout,     \* the configuration
    apc,        \* the step of the entity
    tfvars,     \* terraform.tfvars.json
    prepared,   \* Nodes.is_prepared
    run,        \* runs of generate_macs so far
    staticCfg,  \* static_network_config of the infra-env, <<>> for None
    image,      \* the static data in the image of the nodes
    bridge,     \* addresses of the host on the bridge
    vlan,       \* addresses of the host on the VLAN interface
    moving,     \* addresses still to move
    came,       \* the addresses each host came up with: the "right" ones, "wrong" ones or "none"
    recreated   \* the nodes were destroyed after the static data was made

addrVars == <<layout, apc, tfvars, prepared, run, staticCfg, image, bridge, vlan, moving, came, recreated>>

Roles == {"master", "worker", "arbiter"}

\* The leases of the nodes lie between offsets 10 and 29: with more nodes they
\* would meet the static addresses, which begin at 30.
MostNodes == 20

ASSUME AddrAssumption ==
    /\ MaxPrepares \in Nat
    /\ \A c \in Layouts :
         /\ c.master \in Nat \ {0} /\ c.worker \in Nat /\ c.arbiter \in Nat
         /\ c.master + c.worker + c.arbiter <= MostNodes
         /\ c.slaves \in Nat \ {0}
         /\ c.v4 \in BOOLEAN /\ c.v6 \in BOOLEAN /\ (c.v4 \/ c.v6) /\ c.primary \in {"ipv4", "ipv6"}
         /\ c.static \in BOOLEAN /\ c.vlan \in BOOLEAN
Count(c, role) == c[role]

-----------------------------------------------------------------------------
(***************************************************************************)
(* The algorithms.                                                         *)
(***************************************************************************)
\* get_primary_machine_cidr, get_provisioning_cidr: IPv6 when it is the only
\* stack or the primary one.
V6First(c) == c.v6 /\ (~c.v4 \/ c.primary = "ipv6")
get_primary_machine_cidr(c) == IF V6First(c) THEN "machine6" ELSE "machine"
get_provisioning_cidr(c) == IF V6First(c) THEN "provisioning6" ELSE "provisioning"

\* The order of the subnets of the first interface follows the primary stack,
\* the order of the second does not.
Optional(cond, x) == IF cond THEN <<x>> ELSE <<>>
get_all_machine_addresses(c) ==
    IF V6First(c) THEN Optional(c.v6, "machine6") \o Optional(c.v4, "machine")
                  ELSE Optional(c.v4, "machine") \o Optional(c.v6, "machine6")
get_all_provisioning_addresses(c) == Optional(c.v4, "provisioning") \o Optional(c.v6, "provisioning6")

\* _create_address_list: no fixed leases when IPv6 is in use.
create_address_list(c, cidr, first, n) ==
    [i \in 1 .. n |-> IF c.v6 THEN {} ELSE {<<cidr, first + i - 1>>}]

\* Mutant: arbiters begin where the workers do not end.
Starting_Apart(c, role) ==
    CASE role = "master" -> 10
      [] role = "worker" -> 10 + c.master
      [] role = "arbiter" -> 10 + c.worker

\* Masters, workers and arbiters follow each other from offset 10.
Starting(c, role) ==
    CASE role = "master" -> 10
      [] role = "worker" -> 10 + c.master
      [] role = "arbiter" -> 10 + c.master + c.worker

\* get_ingress_and_api_vips: offset 100 for the API, 101 for the ingress.
get_ingress_and_api_vips(c) ==
    LET cidrs == IF c.v4 /\ c.v6 THEN get_all_machine_addresses(c) ELSE <<get_primary_machine_cidr(c)>>
    IN [api |-> [i \in 1 .. Len(cidrs) |-> <<cidrs[i], 100>>],
        ingress |-> [i \in 1 .. Len(cidrs) |-> <<cidrs[i], 101>>]]

\* generate_macs: one per node, or one per slave of the bond of a node.
generate_macs(c, r, role, nic) == [i \in 1 .. Count(c, role) * c.slaves |-> <<r, role, nic, i>>]

FilledTfvars(c, r) ==
    [run |-> r,
     ips |-> [role \in Roles |->
                create_address_list(c, get_primary_machine_cidr(c), Starting(c, role), Count(c, role))],
     secondary |-> [role \in Roles |->
                create_address_list(c, get_provisioning_cidr(c), Starting(c, role), Count(c, role))],
     macs |-> [role \in Roles |-> generate_macs(c, r, role, 1)],
     secondary_macs |-> [role \in Roles |-> generate_macs(c, r, role, 2)],
     machine |-> get_all_machine_addresses(c),
     provisioning |-> get_all_provisioning_addresses(c),
     vips |-> get_ingress_and_api_vips(c)]

\* _prepare_interface, _prepare_bonded_interface, _prepare_vlan_interface: the
\* first subnet, and the second one when the first is IPv4.
IsV6(cidr) == cidr \in {"machine6", "provisioning6"}
InterfaceAddresses(cidrs, n) ==
    {<<cidrs[1], 30 + n>>} \cup (IF ~IsV6(cidrs[1]) /\ Len(cidrs) > 1 THEN {<<cidrs[2], 30 + n>>} ELSE {})

\* The hardware addresses of the n-th node of a role: a slice of slaves.
Slice(macs, slaves, n) == {macs[i] : i \in slaves * n + 1 .. slaves * (n + 1)}

\* The addresses sit on the VLAN interface when there is one, and the default
\* route leaves through the interface that has them.
prepare_host_static_network_data(t, c, role, n, index) ==
    [macs |-> Slice(t.macs[role], c.slaves, n) \cup Slice(t.secondary_macs[role], c.slaves, n),
     machine |-> InterfaceAddresses(t.machine, index),
     provisioning |-> InterfaceAddresses(t.provisioning, index),
     gateway |-> <<t.machine[1], 1>>,
     nexthop |-> IF c.vlan THEN "vlan" ELSE "base"]

\* Masters, then workers; the arbiters get no static data.
generate_static_network_data_from_tf(t, c) ==
    [i \in 1 .. c.master |-> prepare_host_static_network_data(t, c, "master", i - 1, i - 1)]
    \o [i \in 1 .. c.worker |-> prepare_host_static_network_data(t, c, "worker", i - 1, c.master + i - 1)]

-----------------------------------------------------------------------------
(***************************************************************************)
(* The steps of an entity.                                                 *)
(***************************************************************************)
NoTfvars == [run |-> 0]
HostAddresses(c) == {<<get_all_machine_addresses(c)[i], 1>> : i \in 1 .. Len(get_all_machine_addresses(c))}

AddrInit ==
    /\ layout \in Layouts
    /\ apc = "idle" /\ tfvars = NoTfvars /\ prepared = FALSE /\ run = 0
    /\ staticCfg = <<>> /\ image = <<>>
    /\ bridge = {} /\ vlan = {} /\ moving = {} /\ came = <<>> /\ recreated = FALSE

\* Entity.prepare_nodes: the image first, unless it holds static data.
addr_prepare_nodes ==
    /\ apc = "idle"
    /\ apc' = IF layout.static THEN "create" ELSE "image"
    /\ UNCHANGED <<layout, tfvars, prepared, run, staticCfg, image, bridge, vlan, moving, came, recreated>>

\* _create_nodes through Nodes.prepare_nodes, which does it once.
fill_tfvars ==
    /\ apc = "create"
    /\ \/ /\ prepared /\ apc' = IF layout.static THEN "image" ELSE "started"
          /\ UNCHANGED <<tfvars, prepared, run, bridge, moving>>
       \/ /\ ~prepared /\ run < MaxPrepares
          /\ run' = run + 1
          /\ tfvars' = FilledTfvars(layout, run + 1)
          /\ bridge' = HostAddresses(layout)          \* the network comes up
          /\ IF layout.vlan
             THEN apc' = "vlan" /\ moving' = bridge' /\ UNCHANGED prepared
             ELSE apc' = (IF layout.static THEN "image" ELSE "started") /\ prepared' = TRUE /\ UNCHANGED moving
    /\ UNCHANGED <<layout, staticCfg, image, vlan, came, recreated>>

\* _move_bridge_addresses_to_vlan, one address: added to the VLAN interface,
\* then removed from the bridge; a command that fails ends this address.
move_address ==
    /\ apc = "vlan"
    /\ \/ \E a \in moving :
            /\ moving' = moving \ {a}
            /\ \/ UNCHANGED <<bridge, vlan>>
               \/ vlan' = vlan \cup {a} /\ UNCHANGED bridge
               \/ vlan' = vlan \cup {a} /\ bridge' = bridge \ {a}
            /\ UNCHANGED <<apc, prepared>>
       \/ /\ moving = {} /\ prepared' = TRUE
          /\ apc' = IF layout.static THEN "image" ELSE "started"
          /\ UNCHANGED <<bridge, vlan, moving>>
    /\ UNCHANGED <<layout, tfvars, run, staticCfg, image, came, recreated>>

\* download_image and _update_static_network: the data is made from the
\* terraform variables unless the infra-env has some already.
Generate(c) == c.static /\ staticCfg = <<>>

download_image ==
    /\ apc = "image"
    /\ staticCfg' = IF Generate(layout) THEN generate_static_network_data_from_tf(tfvars, layout) ELSE staticCfg
    /\ image' = IF layout.static THEN staticCfg' ELSE <<>>
    /\ recreated' = IF Generate(layout) THEN FALSE ELSE recreated
    /\ apc' = IF layout.static THEN "started" ELSE "create"
    /\ UNCHANGED <<layout, tfvars, prepared, run, bridge, vlan, moving, came>>

\* External: the hosts register with the addresses they came up with.  Without
\* their hardware addresses in the image they have none of its addresses.
hosts_register ==
    /\ apc = "started" /\ apc' = "registered"
    /\ came' \in [1 .. Len(image) -> IF recreated THEN {"wrong", "none"} ELSE {"right", "wrong", "none"}]
    /\ UNCHANGED <<layout, tfvars, prepared, run, staticCfg, image, bridge, vlan, moving, recreated>>

\* validate_static_ip: skipped without static data.  Some interface must have
\* an address, and the hardware addresses of the static data must be those of
\* interfaces that have one, unless the interfaces are bonded.  The addresses
\* are looked up under the name of the IP version in a table of hardware
\* addresses, which is never there, and are not compared.
Present(macs) ==
    \E h \in 1 .. Len(staticCfg) :
      came[h] # "none" /\ staticCfg[h].macs = macs /\ \A m \in macs : m[1] = tfvars.run

validate_static_ip ==
    /\ apc = "registered"
    /\ apc' = IF \/ staticCfg = <<>>
                 \/ /\ \E h \in DOMAIN came : came[h] # "none"
                    /\ layout.slaves > 1 \/ \A h \in 1 .. Len(staticCfg) : Present(staticCfg[h].macs)
              THEN "validated" ELSE "failed"
    /\ UNCHANGED <<layout, tfvars, prepared, run, staticCfg, image, bridge, vlan, moving, came, recreated>>

\* destroy_all_nodes: the VLAN interface is deleted, or goes with the bridge of
\* the network; the entity goes on with its data.
addr_destroy_all_nodes ==
    /\ apc \in {"started", "validated", "failed"} /\ apc' = "idle"
    /\ prepared' = FALSE /\ bridge' = {} /\ vlan' = {} /\ moving' = {}
    /\ recreated' = (staticCfg # <<>>)
    /\ UNCHANGED <<layout, tfvars, run, staticCfg, image, came>>

\* The same entity prepares its nodes again.
addr_again ==
    /\ apc \in {"started", "validated"} /\ apc' = "idle"
    /\ UNCHANGED <<layout, tfvars, prepared, run, staticCfg, image, bridge, vlan, moving, came, recreated>>

AddrNext ==
    \/ addr_prepare_nodes \/ fill_tfvars \/ move_address \/ download_image
    \/ hosts_register \/ validate_static_ip
    \/ addr_destroy_all_nodes \/ addr_again

AddrSpec == AddrInit /\ [][AddrNext]_addrVars

-----------------------------------------------------------------------------
\* Every variable holds a value of its type.
AddrTypeOK ==
    /\ layout \in Layouts
    /\ apc \in {"idle", "create", "vlan", "image", "started", "registered", "validated", "failed"}
    /\ prepared \in BOOLEAN /\ recreated \in BOOLEAN
    /\ run \in 0 .. MaxPrepares
    /\ Len(staticCfg) \in {0, layout.master + layout.worker}
    /\ bridge \subseteq HostAddresses(layout) /\ vlan \subseteq HostAddresses(layout)
    /\ moving \subseteq HostAddresses(layout)
    /\ came \in Seq({"right", "wrong", "none"})

\* What is handed out in the networks of the session, as <<owner, address>>:
\* the host's own addresses, virtual addresses, leases and static addresses.
Handed(t, cfg) ==
    {<<<<"host", 0>>, <<t.machine[i], 1>>>> : i \in 1 .. Len(t.machine)}
    \cup {<<<<who, 0>>, t.vips[who][i]>> : who \in {"api", "ingress"}, i \in 1 .. Len(t.vips.api)}
    \cup (UNION {UNION {{<<<<role, i>>, a>> : a \in t.ips[role][i] \cup t.secondary[role][i]} :
                          i \in 1 .. Len(t.ips[role])} : role \in Roles})
    \cup (UNION {{<<<<"static", i>>, a>> : a \in cfg[i].machine \cup cfg[i].provisioning} : i \in 1 .. Len(cfg)})

\* No address of the networks of a session is handed out twice: to two nodes,
\* by lease or by static data, to a node and a virtual address, or to a node
\* and the host (the offsets 1, 10, 30, 100 and 101 of four functions).
AddressesDistinct ==
    run > 0 => \A x, y \in Handed(tfvars, staticCfg) : x[2] = y[2] => x[1] = y[1]

\* Nodes that are started from an image with static data find their own
\* hardware addresses in it, each in the data of one host only, unless they
\* were destroyed and created again since the data was made: the macs are
\* drawn anew, the data of the infra-env is kept.
ImageMatchesMacs ==
    apc = "started" /\ layout.static /\ ~recreated =>
      /\ \A role \in {"master", "worker"} : \A i \in 1 .. Len(tfvars.macs[role]) :
           \E h \in 1 .. Len(image) : tfvars.macs[role][i] \in image[h].macs
      /\ \A h1, h2 \in 1 .. Len(image) : h1 # h2 => image[h1].macs \cap image[h2].macs = {}

\* Every host of the static data has an address in every subnet of its two
\* interfaces, unless the first subnet is IPv6.
SubnetsAreConfigured ==
    \A h \in 1 .. Len(staticCfg) :
      /\ ~V6First(layout) =>
           {a[1] : a \in staticCfg[h].machine} = {tfvars.machine[i] : i \in 1 .. Len(tfvars.machine)}
      /\ {a[1] : a \in staticCfg[h].provisioning} = {tfvars.provisioning[i] : i \in 1 .. Len(tfvars.provisioning)}

\* Hosts that passed the validation of their static addresses are the nodes the
\* data was made for, each with some address, unless the interfaces are bonded:
\* nodes created again are found out here, by their hardware addresses.
ValidatedNodesAreOurs ==
    apc = "validated" /\ layout.static /\ layout.slaves = 1 =>
      ~recreated /\ \A h \in 1 .. Len(staticCfg) : came[h] # "none"

\* validate_static_ip logs "Static IP validation passed" (cluster.py) when the
\* hosts have the addresses of the static data.
StaticIpValidated ==
    apc = "validated" /\ layout.static => \A h \in 1 .. Len(staticCfg) : came[h] = "right"

\* While the addresses of the host move from the bridge to the VLAN interface,
\* with any of the commands failing, the host keeps each of them.
HostKeepsAddresses == apc = "vlan" \/ prepared => bridge \cup vlan = HostAddresses(layout)

\* The variables of terraform are those of the last run.
TfvarsAreFilled == tfvars = IF run = 0 THEN NoTfvars ELSE FilledTfvars(layout, run)

\* The static data was made from the variables of one run: the last one, unless
\* the nodes were created again since.
StaticData(r) == generate_static_network_data_from_tf(FilledTfvars(layout, r), layout)
DataIsOfRun ==
    staticCfg # <<>> =>
      \E r \in 1 .. run :
        /\ staticCfg = StaticData(r)
        /\ ~recreated => r = run /\ prepared
        /\ recreated /\ (prepared \/ apc = "vlan") => r < run

\* The image of nodes that are started has the data; nodes are created before
\* an image with data is made.
ImageIsData ==
    /\ image \in {<<>>, staticCfg}
    /\ prepared \/ apc = "vlan" => run > 0
    /\ layout.static /\ apc = "image" => prepared
    /\ layout.static /\ apc \in {"started", "registered", "validated", "failed"} =>
         prepared /\ image = staticCfg /\ staticCfg # <<>>

AddrIInv ==
    /\ AddrTypeOK /\ TfvarsAreFilled /\ DataIsOfRun /\ ImageIsData
    /\ ValidatedNodesAreOurs /\ HostKeepsAddresses
=============================================================================
