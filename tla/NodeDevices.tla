----------------------------- MODULE NodeDevices -----------------------------
(***************************************************************************)
(* The devices and the addresses of one libvirt node: test disks and       *)
(* interfaces that a test attaches and a fixture takes away, and the       *)
(* addresses that Node and Nodes remember (libvirt_controller.py, node.py, *)
(* nodes.py, the fixtures attach_disk and attach_interface).               *)
(*                                                                         *)
(* A domain has a persistent definition and, while it runs, a live one:    *)
(* XMLDesc shows the live one, defineXML writes the persistent one, and    *)
(* detaching without flags changes the one XMLDesc shows.                  *)
(***************************************************************************)
EXTENDS Naturals

CONSTANTS
    Letters,       \* scsi identifiers: string.ascii_lowercase, as numbers
    TestNetworks,  \* networks a test may create
    MaxDisks,      \* bound: test disks that are created
    MaxStarts      \* bound: times the domain is created

ASSUME DevicesAssumption == Letters \subseteq Nat /\ MaxDisks \in Nat /\ MaxStarts \in Nat

VARIABLES
    on,         \* the domain is active
    liveDev,    \* the live definition: disks, as letter -> file, and networks of interfaces
    confDev,    \* the persistent definition
    files,      \* the files of test disks that exist
    created,    \* how many were created
    nets,       \* the networks of the test that exist
    added,      \* added_networks of the fixture
    address,    \* the address of the guest, 0 when it has none
    starts,     \* how often the domain was created
    cached,     \* Nodes._nodes, whether there is a list, and the _ips of its Node
    lostBy,     \* the operation that powered the node off first since its _ips were read
    because     \* how things came to be left behind: <<reason, thing>>

devVars == <<on, liveDev, confDev, files, created, nets, added, address, starts, cached, lostBy, because>>

NoDisk == 0
NoList == [list |-> FALSE, ips |-> 0]
NoOp == [name |-> "none", raised |-> FALSE]
NoDevices == [disks |-> [l \in Letters |-> NoDisk], nics |-> {}]

\* What list_disks and defineXML start from.
XMLDesc == IF on THEN liveDev ELSE confDev
Visible == {l \in Letters : XMLDesc.disks[l] # NoDisk}
InUse(def) == {def.disks[l] : l \in Letters} \ {NoDisk}

DevicesInit ==
    /\ on = FALSE /\ liveDev = NoDevices /\ confDev = NoDevices
    /\ files = {} /\ created = 0 /\ nets = {} /\ added = {}
    /\ address = 0 /\ starts = 0 /\ cached = NoList /\ lostBy = NoOp /\ because = {}

Note(reason, things) == because' = because \cup ({reason} \X things)

-----------------------------------------------------------------------------

\* attach_test_disk: a free letter of the visible definition, a file, and the
\* device, live and, if persistent, in the persistent definition as well.
\* libvirt refuses a domain that is off or a letter that is taken; the file stays.
AttachTo(persistent) == IF persistent THEN {"live", "config"} ELSE {"live"}

attach_test_disk(persistent) ==
    /\ created < MaxDisks
    /\ \E letter \in Letters \ Visible :
       LET file == created + 1
           to == AttachTo(persistent)
           accepted == on /\ ("config" \in to => confDev.disks[letter] = NoDisk)
       IN /\ \A l \in Letters \ Visible : letter <= l
          /\ created' = file /\ files' = files \cup {file}
          /\ IF accepted
             THEN /\ liveDev' = [liveDev EXCEPT !.disks[letter] = file]
                  /\ confDev' = IF "config" \in to THEN [confDev EXCEPT !.disks[letter] = file] ELSE confDev
                  /\ UNCHANGED because
             ELSE Note("refused", {file}) /\ UNCHANGED <<liveDev, confDev>>
    /\ UNCHANGED <<on, nets, added, address, starts, cached, lostBy>>

\* Mutant: detach from the running domain, whether it runs or not.
DetachFrom_Live == "live"

\* Without flags, libvirt detaches from the definition in force: of a running
\* domain the live one, and the persistent one keeps the device.
DetachFrom == IF on THEN "live" ELSE "config"

\* detach_all_test_disks, disk by disk: the device first, then the file; the
\* loop ends at a file that is not there.
Gone == {l \in Visible : XMLDesc.disks[l] \notin files}
Detached == {l \in Visible : \A g \in Gone : l <= g}
Removed == {XMLDesc.disks[l] : l \in Detached}

detach_all_test_disks ==
    /\ Visible # {}
    /\ LET left(def) == [def EXCEPT !.disks = [l \in Letters |-> IF l \in Detached THEN NoDisk ELSE @[l]]]
       IN IF DetachFrom = "live" THEN liveDev' = left(liveDev) /\ UNCHANGED confDev
                                 ELSE confDev' = left(confDev) /\ UNCHANGED liveDev
    /\ files' = files \ Removed
    /\ IF on THEN Note("detached live", Removed) ELSE UNCHANGED because
    /\ UNCHANGED <<on, created, nets, added, address, starts, cached, lostBy>>

\* set_boot_order and set_ram_kib define the domain from what XMLDesc shows;
\* set_per_device_boot_order, which goes on to restart it, is a power_op.
define_xml ==
    /\ confDev' = XMLDesc
    /\ UNCHANGED <<on, liveDev, files, created, nets, added, address, starts, cached, lostBy, because>>

-----------------------------------------------------------------------------
\* create_network: a network that does not come up is destroyed again.
create_network(n) ==
    /\ n \notin nets
    /\ \E up \in BOOLEAN : nets' = IF up THEN nets \cup {n} ELSE nets
    /\ UNCHANGED <<on, liveDev, confDev, files, created, added, address, starts, cached, lostBy, because>>

\* add_interface: virsh attaches it live and persistently; a lease is awaited
\* for 30 seconds, and the fixture learns of the network when it came.
add_interface(n) ==
    /\ n \in nets /\ n \notin confDev.nics
    /\ liveDev' = IF on THEN [liveDev EXCEPT !.nics = @ \cup {n}] ELSE liveDev
    /\ confDev' = [confDev EXCEPT !.nics = @ \cup {n}]
    /\ \/ on /\ added' = added \cup {n}
       \/ UNCHANGED added
    /\ UNCHANGED <<on, files, created, nets, address, starts, cached, lostBy, because>>

\* The teardown of the fixture attach_interface for one network: detach the
\* interface from the definition in force, destroy the network; an error of
\* the first suppresses the second.
undefine_interface(n) ==
    /\ n \in added /\ added' = added \ {n}
    /\ LET detached(def) == [def EXCEPT !.nics = @ \ {n}]
       IN \/ /\ n \in XMLDesc.nics
             /\ IF on THEN liveDev' = detached(liveDev) /\ UNCHANGED confDev /\ Note("detached live", {n})
                      ELSE confDev' = detached(confDev) /\ UNCHANGED <<liveDev, because>>
             /\ nets' = nets \ {n}
          \/ /\ n \notin XMLDesc.nics
             /\ UNCHANGED <<liveDev, confDev, nets, because>>
    /\ UNCHANGED <<on, files, created, address, starts, cached, lostBy>>

-----------------------------------------------------------------------------
\* Node.ips: asked for until there is an answer that is not empty, then kept
\* in the Node object, which Nodes keeps in its list.
Cache(ips) == [list |-> TRUE, ips |-> ips]
Remembers == cached.list /\ cached.ips # 0

read_ips ==
    /\ cached' = IF Remembers THEN cached ELSE Cache(address)
    /\ lostBy' = IF Remembers THEN lostBy ELSE NoOp
    /\ UNCHANGED <<on, liveDev, confDev, files, created, nets, added, address, starts, because>>

\* get_nodes(refresh=True), and start_given, shutdown_given or reboot_given of
\* other nodes.
drop_cache ==
    /\ cached' = NoList /\ lostBy' = NoOp
    /\ UNCHANGED <<on, liveDev, confDev, files, created, nets, added, address, starts, because>>

\* Mutant: only shutdown_all drops the list.
DropsCache_Shutdown(name) == name = "shutdown_all"

\* The operations that change the power of the node.  Those of Nodes run a job
\* per node; set_correct_boot_order leaves the nodes off, set_wrong_boot_order
\* starts them (their defaults), start_all also stands for a start of the Node.
\* node.restart, node.shutdown and set_per_device_boot_order are of the Node.
OfNodes == {"shutdown_all", "reboot_all", "start_all", "destroy_all",
            "set_correct_boot_order", "set_wrong_boot_order"}
PowerOps == OfNodes \cup {"node.restart", "node.shutdown", "set_per_device_boot_order"}
Off(name) == name # "start_all"
On(name) == name \notin {"shutdown_all", "destroy_all", "set_correct_boot_order", "node.shutdown"}
DropsCache(name) == name \in {"shutdown_all", "reboot_all"}

\* An operation of Nodes raises when the job of any node does, at the latest
\* when all the jobs are over (run_concurrently).
MayRaise(name) == IF name \in OfNodes THEN BOOLEAN ELSE {FALSE}

\* set_per_device_boot_order defines the domain before it restarts it.
Defined(name) == IF name = "set_per_device_boot_order" THEN XMLDesc ELSE confDev

\* The list is dropped by an operation that returns; one that raises keeps it.
AfterOp(name, raised) ==
    LET dropped == DropsCache(name) /\ ~raised
        lost == IF Off(name) /\ on THEN InUse(liveDev) \ InUse(Defined(name)) ELSE {}
    IN /\ cached' = IF dropped THEN NoList ELSE cached
       /\ lostBy' = IF dropped THEN NoOp
                    ELSE IF Off(name) /\ on /\ lostBy = NoOp THEN [name |-> name, raised |-> raised]
                    ELSE lostBy
       /\ Note("powered off", lost)

\* The domain cannot be created when a file or a network of its definition is
\* missing.
Startable(def) == InUse(def) \subseteq files /\ def.nics \subseteq nets

PoweredOff == on' = FALSE /\ liveDev' = NoDevices /\ address' = 0 /\ UNCHANGED starts

power_op(name) ==
    /\ confDev' = Defined(name) /\ UNCHANGED <<files, created, nets, added>>
    /\ \/ /\ ~On(name) /\ PoweredOff
          /\ \E raised \in MayRaise(name) : AfterOp(name, raised)
       \/ /\ ~Off(name) /\ on /\ UNCHANGED <<on, liveDev, address, starts>>
          /\ \E raised \in MayRaise(name) : AfterOp(name, raised)
       \/ /\ On(name) /\ (Off(name) \/ ~on) /\ Startable(Defined(name)) /\ starts < MaxStarts
          /\ on' = TRUE /\ liveDev' = Defined(name) /\ starts' = starts + 1 /\ address' = 0
          /\ \E raised \in BOOLEAN : AfterOp(name, raised)      \* no address in time
       \/ /\ On(name) /\ (Off(name) \/ ~on) /\ ~Startable(Defined(name)) /\ PoweredOff
          /\ AfterOp(name, TRUE)

\* External: the guest gets the address it had before, or another one.
guest_address ==
    /\ on /\ address = 0 /\ starts > 0
    /\ address' \in {1, starts}
    /\ UNCHANGED <<on, liveDev, confDev, files, created, nets, added, starts, cached, lostBy, because>>

DevicesNext ==
    \/ \E persistent \in BOOLEAN : attach_test_disk(persistent)
    \/ detach_all_test_disks \/ define_xml
    \/ \E n \in TestNetworks : create_network(n) \/ add_interface(n) \/ undefine_interface(n)
    \/ read_ips \/ drop_cache \/ guest_address
    \/ \E name \in PowerOps : power_op(name)
-----------------------------------------------------------------------------
Definitions == [disks : [Letters -> 0 .. MaxDisks], nics : SUBSET TestNetworks]

\* Every variable holds a value of its type.
DevicesTypeOK ==
    /\ on \in BOOLEAN
    /\ liveDev \in Definitions /\ confDev \in Definitions
    /\ files \subseteq 1 .. MaxDisks /\ created \in 0 .. MaxDisks
    /\ nets \subseteq TestNetworks /\ added \subseteq TestNetworks
    /\ address \in 0 .. MaxStarts /\ starts \in 0 .. MaxStarts
    /\ cached \in [list : BOOLEAN, ips : 0 .. MaxStarts]
    /\ lostBy \in {NoOp} \cup [name : PowerOps, raised : BOOLEAN]

\* What a running domain uses is never taken away under it: the files of its
\* disks and the networks of its interfaces exist, whichever definition a
\* detach, a boot order or a restart worked on before.
RunningHasItsDevices == InUse(liveDev) \subseteq files /\ liveDev.nics \subseteq nets

\* A domain whose persistent definition names a disk file or a network that is
\* gone cannot be started again.  It is left like that only by a teardown
\* (detach_all_test_disks, undefine_interface) that found the node running; one
\* that finds it off, a new boot order and a reused letter leave none.
MissingIsExplained ==
    /\ \A f \in InUse(confDev) \ files : <<"detached live", f>> \in because
    /\ \A n \in confDev.nics \ nets : <<"detached live", n>> \in because

\* The file of a test disk that no definition names any more is one libvirt
\* refused to attach, or one of a disk that was attached live only when the
\* node was powered off: attach_disk's teardown removes every other.
LeftFilesAreExplained ==
    \A f \in files \ (InUse(liveDev) \cup InUse(confDev)) :
      \E reason \in {"refused", "powered off"} : <<reason, f>> \in because

\* When the addresses that the listed Node remembers are not those the guest
\* has, then the operation that powered it off first, since they were read,
\* raised, or is one of those that keep the list of nodes: destroy_all and the
\* boot orders of Nodes, and what is called on the Node itself (nodes.py:109-156,
\* node.py:122-136).  shutdown_all and reboot_all never are the reason when they
\* return, nor is start_all, which keeps the list too.
KeepsList == {"destroy_all", "set_correct_boot_order", "set_wrong_boot_order",
              "node.restart", "node.shutdown", "set_per_device_boot_order"}
StaleIpsAreExplained ==
    on /\ address # 0 /\ Remembers /\ cached.ips # address =>
      lostBy # NoOp /\ (lostBy.raised \/ lostBy.name \in KeepsList)
-----------------------------------------------------------------------------
\* A new file has a new name, and one letter in a definition; while the domain
\* runs, the disks of its persistent definition whose file exists are in the
\* live one too; an address that is remembered is the guest's until an
\* operation powers the node off, and only one that raised or keeps the list is
\* remembered together with it.
OneLetter(def) == \A l, k \in Letters : def.disks[l] # NoDisk /\ def.disks[l] = def.disks[k] => l = k
NamesAreOld == OneLetter(liveDev) /\ OneLetter(confDev) /\ InUse(liveDev) \cup InUse(confDev) \subseteq 1 .. created
ConfIsLive == on => InUse(confDev) \cap files \subseteq InUse(liveDev)
OffIsEmpty == ~on => liveDev = NoDevices
AddressWhenOn == address # 0 => on
CacheIsFresh == cached.ips # 0 /\ lostBy = NoOp => on /\ address = cached.ips
LossIsExplained == lostBy # NoOp => lostBy.raised \/ lostBy.name \in KeepsList
DevicesIInv ==
    /\ DevicesTypeOK /\ NamesAreOld /\ ConfIsLive /\ OffIsEmpty /\ AddressWhenOn
    /\ RunningHasItsDevices /\ MissingIsExplained /\ LeftFilesAreExplained
    /\ CacheIsFresh /\ LossIsExplained
=============================================================================
