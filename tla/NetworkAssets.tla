--------------------------- MODULE NetworkAssets ---------------------------
(***************************************************************************)
(* tools/assets.py, LibvirtNetworkAssets, as the fixtures of base_test.py  *)
(* use it: every test session on a hypervisor takes network assets (four   *)
(* networks and two bridge names) before it creates its libvirt networks,  *)
(* and returns them after it has destroyed them.  The assets in use are    *)
(* kept in a JSON file that get and release_all rewrite under the lock of  *)
(* module FileLock.                                                        *)
(*                                                                         *)
(* A network or an address is a block of lo .. lo + size - 1 in the        *)
(* addresses of its family.                                                *)
(***************************************************************************)
EXTENDS FileLock

CONSTANTS
    BaseAsset,       \* [Procs -> Asset]: the asset a session would like to have
    UpFields,        \* the IPFields the libvirt networks are created with
    LocalUri,        \* the hypervisor is this host, whose interfaces are visible
    MaxIncrements,   \* how many times an address range can be moved up
    CanCrash,        \* whether a process may be killed
    MaxRounds        \* how many sessions a process runs one after the other

IPFields == 1 .. 4        \* machine, machine6, provisioning and provisioning6
BridgeFields == {"primary", "secondary"}

Block == [fam : {4, 6}, lo : Nat, size : Nat \ {0}]
Bridge == [prefix : {"tt", "stt"}, index : Nat]
Asset == [cidr : [IPFields -> Block], bridge : [BridgeFields -> Bridge]]

ASSUME AssetConstants ==
    /\ BaseAsset \in [Procs -> Asset]
    /\ UpFields \subseteq IPFields
    /\ LocalUri \in BOOLEAN
    /\ MaxIncrements \in Nat
    /\ CanCrash \in BOOLEAN
    /\ MaxRounds \in Nat

(***************************************************************************)
(* Blocks and the search for free ones.                                    *)
(***************************************************************************)
\* netaddr's "x in n" for a network n.
Contains(n, x) ==
    /\ n.fam = x.fam
    /\ n.lo <= x.lo
    /\ x.lo + x.size <= n.lo + n.size

Overlap(n, x) ==
    /\ n.fam = x.fam
    /\ n.lo < x.lo + x.size
    /\ x.lo < n.lo + n.size

\* What the host's interface has (the gateway) and what a DHCP lease gives.
Address(n, i) == [fam |-> n.fam, lo |-> n.lo + i, size |-> 1]

\* Mutant: networks are moved down.
Moved_Down(n, k) == [n EXCEPT !.lo = @ - k * n.size]

\* ip_network += 1, or += 2**72 for IPv6, k times: networks of the same size.
Moved(n, k) == [n EXCEPT !.lo = @ + k * n.size]

is_ip_network_allocated(n, allocated) == \E x \in allocated : Contains(n, x)

\* Mutant: a network that is taken is moved up once and not looked at again.
set_next_available_ip_network_Once(n, k, allocated) ==
    k = IF is_ip_network_allocated(n, allocated) THEN 1 ELSE 0

\* Moving n up k times is what set_next_available_ip_network does.
set_next_available_ip_network(n, k, allocated) ==
    /\ ~is_ip_network_allocated(Moved(n, k), allocated)
    /\ \A j \in 0 .. k - 1 : is_ip_network_allocated(Moved(n, j), allocated)

\* The four networks, each chosen after the ones before it were allocated.
override_ip_networks_values_if_not_free(base, allocated) ==
    { [f \in IPFields |-> Moved(base[f], k[f])] : k \in
        { k \in [IPFields -> 0 .. MaxIncrements] :
            \A f \in IPFields :
               set_next_available_ip_network(base[f], k[f],
                   allocated \cup { Moved(base[g], k[g]) : g \in 1 .. f - 1 }) } }

get_next_available_net_bridge(prefix, used) ==
    { [prefix |-> prefix, index |-> i] : i \in
        { i \in 0 .. MaxIncrements :
            /\ [prefix |-> prefix, index |-> i] \notin used
            /\ \A j \in 0 .. i - 1 : [prefix |-> prefix, index |-> j] \in used } }

\* A bridge name is replaced only when it is taken.
FreeBridges(name, prefix, used) ==
    IF name \in used THEN get_next_available_net_bridge(prefix, used) ELSE {name}

\* The secondary name is looked up after a replaced primary one was allocated.
override_network_bridges_values_if_not_free(base, used) ==
    UNION { { [primary |-> b, secondary |-> s] : s \in
                FreeBridges(base.secondary, "stt",
                    used \cup (IF base.primary \in used THEN {b} ELSE {})) }
            : b \in FreeBridges(base.primary, "tt", used) }

\* The asset get takes: one at most, none when an increment exceeds the
\* address boundary.
FreeAssets(base, allocated, used) ==
    { [cidr |-> c, bridge |-> b] :
        c \in override_ip_networks_values_if_not_free(base.cidr, allocated),
        b \in override_network_bridges_values_if_not_free(base.bridge, used) }

Conflict(a, b) ==
    \/ \E f, g \in IPFields : Overlap(a.cidr[f], b.cidr[g])
    \/ \E x, y \in BridgeFields : a.bridge[x] = b.bridge[y]
-----------------------------------------------------------------------------
VARIABLES
    file,      \* the assets in the assets file
    torn,      \* the file was opened for writing and not yet written: not JSON
    nets,      \* the assets whose libvirt networks exist on the hypervisor
    step,      \* where each session is
    asset,     \* _asset
    taken,     \* _taken_assets
    loaded,    \* assets_in_use, the list read from the file
    ips,       \* _allocated_ips_objects
    bridges,   \* _allocated_bridges
    listed,    \* the assets whose bridges netifaces.interfaces has listed
    rounds,    \* how many sessions each process has begun
    leaked,    \* history: assets whose session ended without returning them
    killedInDump   \* history: a process was killed while it rewrote the file

assetVars == <<file, torn, nets, step, asset, taken, loaded, ips, bridges, listed, rounds,
               leaked, killedInDump>>
vars == <<lockVars, assetVars>>

\* The test owns the asset from the moment it is in the file until it is out.
Holding == {"unlock", "have", "up", "down", "r_lock", "r_open", "r_write"}

Step == {"g_lock", "list", "addresses", "leases", "choose", "open", "write",
         "fail", "r_unlock", "done"} \cup Holding

Init ==
    /\ LockInit
    /\ file = {}
    /\ torn = FALSE
    /\ nets = {}
    /\ step = [p \in Procs |-> "done"]
    /\ asset = BaseAsset
    /\ taken = [p \in Procs |-> {}]
    /\ loaded = [p \in Procs |-> {}]
    /\ ips = [p \in Procs |-> {}]
    /\ bridges = [p \in Procs |-> {}]
    /\ listed = [p \in Procs |-> {}]
    /\ rounds = [p \in Procs |-> 0]
    /\ leaked = {}
    /\ killedInDump = FALSE

local == <<asset, taken, loaded, ips, bridges, listed>>

Goto(p, s) == step' = [step EXCEPT ![p] = s]
At(p, s) == step[p] = s /\ lpc[p] = "critical"
-----------------------------------------------------------------------------
(***************************************************************************)
(* get                                                                     *)
(***************************************************************************)
\* A test begins: a fixture makes a fresh LibvirtNetworkAssets and calls get.
get(p) ==
    /\ step[p] = "done"
    /\ rounds[p] < MaxRounds
    /\ rounds' = [rounds EXCEPT ![p] = @ + 1]
    /\ asset' = [asset EXCEPT ![p] = BaseAsset[p]]
    /\ taken' = [taken EXCEPT ![p] = {}]
    /\ ips' = [ips EXCEPT ![p] = {}]
    /\ bridges' = [bridges EXCEPT ![p] = {}]
    /\ Goto(p, "g_lock")
    /\ LockEnter(p)
    /\ UNCHANGED <<file, torn, nets, loaded, listed, leaked, killedInDump>>

\* _get_assets_in_use_from_assets_file: a torn file raises JSONDecodeError.
LoadFile(p, next) ==
    \/ /\ ~torn
       /\ loaded' = [loaded EXCEPT ![p] = file]
       /\ Goto(p, next)
    \/ /\ torn
       /\ Goto(p, "fail")
       /\ UNCHANGED loaded

\* Mutant: the bridges and networks of the assets file are not taken into account.
load_NotAllocated(p) ==
    /\ At(p, "g_lock")
    /\ LoadFile(p, IF LocalUri THEN "list" ELSE "leases")
    /\ UNCHANGED <<lockVars, file, torn, nets, asset, taken, ips, bridges, listed, rounds, leaked,
                   killedInDump>>

\* _fill_allocated_ips_and_bridges_from_assets_file
load(p) ==
    /\ At(p, "g_lock")
    /\ LoadFile(p, IF LocalUri THEN "list" ELSE "leases")
    /\ ips' = [ips EXCEPT ![p] = UNION { {a.cidr[f] : f \in IPFields} : a \in loaded'[p] }]
    /\ bridges' = [bridges EXCEPT ![p] =
                      UNION { {a.bridge[x] : x \in BridgeFields} : a \in loaded'[p] }]
    /\ UNCHANGED <<lockVars, file, torn, nets, asset, taken, listed, rounds, leaked, killedInDump>>

\* _fill_allocated_ips_and_bridges_by_interface: the names first ...
listInterfaces(p) ==
    /\ At(p, "list")
    /\ listed' = [listed EXCEPT ![p] = nets]
    /\ bridges' = [bridges EXCEPT ![p] = @ \cup
                      UNION { {a.bridge[x] : x \in BridgeFields} : a \in nets }]
    /\ Goto(p, "addresses")
    /\ UNCHANGED <<lockVars, file, torn, nets, asset, taken, loaded, ips, rounds, leaked, killedInDump>>

\* Mutant: the interfaces' addresses are skipped.
readAddresses_Skipped(p) ==
    /\ At(p, "addresses")
    /\ listed' = [listed EXCEPT ![p] = {}]
    /\ Goto(p, "leases")
    /\ UNCHANGED <<lockVars, file, torn, nets, asset, taken, loaded, ips, bridges, rounds, leaked,
                   killedInDump>>

\* ... then the addresses of those that still exist.
readAddresses(p) ==
    /\ At(p, "addresses")
    /\ ips' = [ips EXCEPT ![p] = @ \cup
                  UNION { {Address(a.cidr[f], 1) : f \in UpFields} : a \in listed[p] \cap nets }]
    /\ listed' = [listed EXCEPT ![p] = {}]
    /\ Goto(p, "leases")
    /\ UNCHANGED <<lockVars, file, torn, nets, asset, taken, loaded, bridges, rounds, leaked, killedInDump>>

\* _fill_virsh_allocated_ips_and_bridges: the networks that have leases, or
\* no connection to libvirt at all.
readLeases(p) ==
    /\ At(p, "leases")
    /\ \/ \E ns \in SUBSET nets :
             /\ bridges' = [bridges EXCEPT ![p] = @ \cup {a.bridge["primary"] : a \in ns}]
             /\ ips' = [ips EXCEPT ![p] = @ \cup
                           UNION { {Address(a.cidr[f], 2) : f \in UpFields \cap {1, 2}} : a \in ns }]
             /\ Goto(p, "choose")
       \/ /\ Goto(p, "fail")
          /\ UNCHANGED <<ips, bridges>>
    /\ UNCHANGED <<lockVars, file, torn, nets, asset, taken, loaded, listed, rounds, leaked, killedInDump>>

\* The two _override functions, and the asset joins the taken and the used ones.
choose(p) ==
    /\ At(p, "choose")
    /\ LET free == FreeAssets(asset[p], ips[p], bridges[p]) IN
       \/ \E a \in free :
             /\ asset' = [asset EXCEPT ![p] = a]
             /\ taken' = [taken EXCEPT ![p] = @ \cup {a}]
             /\ loaded' = [loaded EXCEPT ![p] = @ \cup {a}]
             /\ Goto(p, "open")
       \/ /\ free = {}
          /\ Goto(p, "fail")
          /\ UNCHANGED <<asset, taken, loaded>>
    /\ UNCHANGED <<lockVars, file, torn, nets, ips, bridges, listed, rounds, leaked, killedInDump>>

\* _dump_all_assets_in_use_to_assets_file: open(..., "w") empties the file ...
openForWrite(p, from, to) ==
    /\ At(p, from)
    /\ file' = {}
    /\ torn' = TRUE
    /\ Goto(p, to)
    /\ UNCHANGED <<lockVars, nets, local, rounds, leaked, killedInDump>>

\* ... and json.dump fills it.
dump(p, from, to) ==
    /\ At(p, from)
    /\ file' = loaded[p]
    /\ torn' = FALSE
    /\ Goto(p, to)
    /\ UNCHANGED <<lockVars, nets, local, rounds, leaked, killedInDump>>

\* get returns: the lock is released and the allocated lists are cleared.
returnAsset(p) ==
    /\ At(p, "unlock")
    /\ LockRelease(p)
    /\ ips' = [ips EXCEPT ![p] = {}]
    /\ bridges' = [bridges EXCEPT ![p] = {}]
    /\ loaded' = [loaded EXCEPT ![p] = {}]
    /\ Goto(p, "have")
    /\ UNCHANGED <<file, torn, nets, asset, taken, listed, rounds, leaked, killedInDump>>
-----------------------------------------------------------------------------
(***************************************************************************)
(* The test between get and release_all.                                   *)
(***************************************************************************)
\* Nodes are prepared: terraform apply creates the libvirt networks.
createNetworks(p) ==
    /\ step[p] = "have"
    /\ nets' = nets \cup {asset[p]}
    /\ Goto(p, "up")
    /\ UNCHANGED <<lockVars, file, torn, local, rounds, leaked, killedInDump>>

\* The teardown of prepare_nodes: destroy_all_nodes.
destroyNetworks(p) ==
    /\ step[p] = "up"
    /\ nets' = nets \ {asset[p]}
    /\ Goto(p, "down")
    /\ UNCHANGED <<lockVars, file, torn, local, rounds, leaked, killedInDump>>
-----------------------------------------------------------------------------
(***************************************************************************)
(* release_all                                                             *)
(***************************************************************************)
\* The teardown of prepared_controller_configuration runs whether or not the
\* networks were created, and whether or not they were destroyed: without
\* TEST_TEARDOWN, or when destroying fails, they stay.
release_all(p) ==
    /\ step[p] \in {"have", "up", "down"}
    /\ LockEnter(p)
    /\ Goto(p, "r_lock")
    /\ UNCHANGED <<file, torn, nets, local, rounds, leaked, killedInDump>>

\* Mutants: everything is removed; nothing is.
removeTaken_All(p) ==
    /\ At(p, "r_lock")
    /\ loaded' = [loaded EXCEPT ![p] = {}]
    /\ taken' = [taken EXCEPT ![p] = {}]
    /\ Goto(p, "r_open")
    /\ UNCHANGED <<lockVars, file, torn, nets, asset, ips, bridges, listed, rounds, leaked,
                   killedInDump>>

removeTaken_None(p) ==
    /\ At(p, "r_lock")
    /\ loaded' = [loaded EXCEPT ![p] = file]
    /\ taken' = [taken EXCEPT ![p] = {}]
    /\ Goto(p, "r_open")
    /\ UNCHANGED <<lockVars, file, torn, nets, asset, ips, bridges, listed, rounds, leaked,
                   killedInDump>>

\* The file is read and _remove_taken_assets_from_all_assets_in_use runs.
removeTaken(p) ==
    /\ At(p, "r_lock")
    /\ \/ /\ ~torn
          /\ loaded' = [loaded EXCEPT ![p] = file \ taken[p]]
          /\ taken' = [taken EXCEPT ![p] = {}]
          /\ Goto(p, "r_open")
          /\ UNCHANGED leaked
       \/ /\ torn
          /\ leaked' = leaked \cup taken[p]
          /\ Goto(p, "fail")
          /\ UNCHANGED <<loaded, taken>>
    /\ UNCHANGED <<lockVars, file, torn, nets, asset, ips, bridges, listed, rounds, killedInDump>>

\* release_all returns, or an exception leaves the body: the lock is released.
endSession(p) ==
    /\ At(p, "r_unlock") \/ At(p, "fail")
    /\ LockRelease(p)
    /\ loaded' = [loaded EXCEPT ![p] = {}]
    /\ Goto(p, "done")
    /\ UNCHANGED <<file, torn, nets, asset, taken, ips, bridges, listed, rounds, leaked, killedInDump>>
-----------------------------------------------------------------------------
(***************************************************************************)
(* The lock, failures, and the next session of a process.                  *)
(***************************************************************************)
waitForLock(p) == LockWait(p) /\ UNCHANGED assetVars

\* The lock itself raised: get fails the test, release_all leaks the assets.
lockRaised(p) ==
    /\ LockRaise(p)
    /\ leaked' = leaked \cup taken[p]
    /\ Goto(p, "done")
    /\ UNCHANGED <<file, torn, nets, local, rounds, killedInDump>>

\* The process is killed; file and networks stay as they are.
crash(p) ==
    /\ CanCrash
    /\ step[p] # "done"
    /\ IF lpc[p] = "idle" THEN UNCHANGED lockVars ELSE LockCrash(p)
    /\ leaked' = leaked \cup (IF step[p] \in Holding THEN {asset[p]} ELSE {})
    /\ loaded' = [loaded EXCEPT ![p] = {}]
    /\ listed' = [listed EXCEPT ![p] = {}]
    /\ Goto(p, "done")
    /\ killedInDump' = (killedInDump \/ step[p] \in {"write", "r_write"})
    /\ UNCHANGED <<file, torn, nets, asset, taken, ips, bridges, rounds>>

Next ==
    \E p \in Procs :
        \/ get(p) \/ load(p) \/ listInterfaces(p) \/ readAddresses(p) \/ readLeases(p)
        \/ choose(p) \/ openForWrite(p, "open", "write") \/ dump(p, "write", "unlock")
        \/ returnAsset(p) \/ createNetworks(p) \/ destroyNetworks(p) \/ release_all(p)
        \/ removeTaken(p) \/ openForWrite(p, "r_open", "r_write")
        \/ dump(p, "r_write", "r_unlock") \/ endSession(p)
        \/ waitForLock(p) \/ lockRaised(p) \/ crash(p)

Spec == Init /\ [][Next]_vars
-----------------------------------------------------------------------------
AssetTypeOK ==
    /\ LockTypeOK
    /\ file \in SUBSET Asset
    /\ torn \in BOOLEAN
    /\ nets \in SUBSET Asset
    /\ step \in [Procs -> Step]
    /\ asset \in [Procs -> Asset]
    /\ taken \in [Procs -> SUBSET Asset]
    /\ loaded \in [Procs -> SUBSET Asset]
    /\ ips \in [Procs -> SUBSET Block]
    /\ bridges \in [Procs -> SUBSET Bridge]
    /\ listed \in [Procs -> SUBSET Asset]
    /\ rounds \in [Procs -> 0 .. MaxRounds]
    /\ leaked \in SUBSET Asset
    /\ killedInDump \in BOOLEAN

Holders == {p \in Procs : step[p] \in Holding}

(***************************************************************************)
(* "Allow multiple installations while avoiding conflicts" (assets.py):    *)
(* two sessions that own assets at the same time share no address and no   *)
(* bridge name, however their calls of get and release_all interleave and  *)
(* wherever a process is killed.                                           *)
(***************************************************************************)
HeldAssetsDisjoint ==
    \A p, q \in Holders : p # q => ~Conflict(asset[p], asset[q])

(***************************************************************************)
(* No update of the assets file is lost: what a session owns is in the     *)
(* file whenever the file can be read, although every get and release_all  *)
(* rewrites the whole file from the copy it loaded.                        *)
(***************************************************************************)
HeldAssetsRecorded ==
    ~torn => \A p \in Holders : asset[p] \in file

(***************************************************************************)
(* Returning works: an entry of the file is owned by a live session, or    *)
(* its session was killed or failed to release it.                         *)
(***************************************************************************)
EntriesHaveOwner ==
    \A a \in file : a \in leaked \/ \E p \in Holders : asset[p] = a

\* Networks as the hypervisor sees them: the addresses they were created with.
NetConflict(a, b) ==
    \/ \E f, g \in UpFields : Overlap(a.cidr[f], b.cidr[g])
    \/ \E x, y \in BridgeFields : a.bridge[x] = b.bridge[y]

(***************************************************************************)
(* A session never meets a network that is already on the hypervisor: the  *)
(* assets it got conflict with no network that exists, be it of a live     *)
(* session, of a killed one, or one left behind by a session that returned *)
(* its assets without destroying its nodes.                                *)
(***************************************************************************)
FreshNetworksFree ==
    \A p \in Procs : step[p] = "have" => \A n \in nets : ~NetConflict(asset[p], n)

(***************************************************************************)
(* The assets file can be read whenever its lock is free, unless a process *)
(* was killed in the middle of json.dump: nobody else's failure leaves a   *)
(* file that fails every later get and release_all.                        *)
(***************************************************************************)
TornOnlyInDump ==
    torn /\ (\A p \in Procs : step[p] \notin {"write", "r_write"}) => killedInDump

\* Both: what is in the file whenever its lock is free.
AssetsFileIsSound == EntriesHaveOwner /\ TornOnlyInDump

(***************************************************************************)
(* A session gets through: with the lock's timeout running, a session that *)
(* begins gets its assets and gives them up, or fails; it does not hang in *)
(* the lock, whatever the others do.                                       *)
(***************************************************************************)
SessionEnds == \A p \in Procs : step[p] = "g_lock" ~> step[p] = "done"

AssetFairness ==
    \A p \in Procs : /\ WF_vars(waitForLock(p))
                     /\ SF_vars(LockTimeout(p) /\ UNCHANGED assetVars)
                     /\ WF_vars(lockRaised(p) \/ load(p) \/ listInterfaces(p) \/ readAddresses(p)
                               \/ readLeases(p) \/ choose(p) \/ returnAsset(p) \/ release_all(p)
                               \/ openForWrite(p, "open", "write") \/ dump(p, "write", "unlock")
                               \/ removeTaken(p) \/ openForWrite(p, "r_open", "r_write")
                               \/ dump(p, "r_write", "r_unlock") \/ endSession(p))

LiveSpec == Spec /\ AssetFairness

NoAsset == [cidr |-> << >>, bridge |-> << >>]

\* What is in the hands of each session, as the pool sees it.
Held == [p \in Procs |-> IF p \in Holders THEN asset[p] ELSE NoAsset]

Pool == INSTANCE AssetPool WITH Conflicting <- Conflict, held <- Held

\* get and release_all implement the pool of assets they are meant to be.
ImplementsPool == Pool!Spec
-----------------------------------------------------------------------------
(***************************************************************************)
(* The inductive invariant behind HeldAssetsDisjoint.  A process that has  *)
(* loaded the file and has not yet dumped its copy knows all the assets    *)
(* that are held, since nobody else can change the file in between.        *)
(***************************************************************************)
Searching == {"list", "addresses", "leases", "choose"}
InBody == Searching \cup {"open", "write", "unlock", "fail", "r_open", "r_write", "r_unlock"}
OutsideLock == {"have", "up", "down", "done"}

BodyInLock(p) ==
    /\ step[p] \in InBody => lpc[p] = "critical"
    /\ step[p] \in OutsideLock => lpc[p] = "idle"

\* An asset is the session's base asset, later with its networks moved up.
OnGrid(p) ==
    /\ step[p] \in Searching \cup {"g_lock"} => asset[p] = BaseAsset[p]
    /\ \A f \in IPFields : \E k \in 0 .. MaxIncrements :
          asset[p].cidr[f] = Moved(BaseAsset[p].cidr[f], k)

TakenIsOwn(p) ==
    /\ taken[p] \subseteq {asset[p]}
    /\ step[p] \in {"open", "write", "unlock", "have", "up", "down", "r_lock"} => taken[p] = {asset[p]}
    /\ step[p] \in Searching \cup {"g_lock"} => taken[p] = {}

OwnAssetInCopy(p) == step[p] \in {"open", "write"} => asset[p] \in loaded[p]

SearchSeesCopy(p) ==
    step[p] \in Searching =>
        \A a \in loaded[p] : /\ \A f \in IPFields : a.cidr[f] \in ips[p]
                             /\ \A x \in BridgeFields : a.bridge[x] \in bridges[p]

SessionInv(p) ==
    BodyInLock(p) /\ OnGrid(p) /\ TakenIsOwn(p) /\ OwnAssetInCopy(p) /\ SearchSeesCopy(p)

HasCopy(p, q) ==
    \/ step[p] \in Searching \cup {"open", "write"}
    \/ step[p] \in {"r_open", "r_write"} /\ q # p

CopyIsComplete ==
    \A p \in Procs : \A q \in Holders : HasCopy(p, q) => asset[q] \in loaded[p]

ChosenIsFree ==
    \A p \in Procs : step[p] \in {"open", "write"} =>
        \A q \in Holders : ~Conflict(asset[p], asset[q])

AssetIInv ==
    /\ AssetTypeOK
    /\ LockIInv
    /\ \A p \in Procs : SessionInv(p)
    /\ CopyIsComplete
    /\ ChosenIsFree
    /\ HeldAssetsRecorded
    /\ HeldAssetsDisjoint

\* The base networks of one family have the same size and the same alignment,
\* so that overlapping networks are equal.  The defaults are all of this kind.
UniformPrefixes ==
    \A p, q \in Procs : \A f, g \in IPFields : \A k, l \in 0 .. MaxIncrements :
        LET m == Moved(BaseAsset[p].cidr[f], k)
            n == Moved(BaseAsset[q].cidr[g], l)
        IN  Overlap(m, n) => Contains(m, n)
-----------------------------------------------------------------------------
(***************************************************************************)
(* The inductive invariant behind AssetsFileIsSound.  Every asset in a     *)
(* session's copy of the file has an owner, too; in the copy of release_   *)
(* all an owner that is not this session.                                  *)
(***************************************************************************)
CopyHasOwners ==
    \A p \in Procs : step[p] \in Searching \cup {"open", "write", "r_open", "r_write"} =>
        \A a \in loaded[p] :
            \/ a \in leaked
            \/ \E q \in Holders : asset[q] = a /\ (step[p] \in {"r_open", "r_write"} => q # p)
            \/ step[p] \in {"open", "write"} /\ a = asset[p]

FileIInv ==
    /\ AssetTypeOK
    /\ LockIInv
    /\ \A p \in Procs : SessionInv(p)
    /\ CopyHasOwners
    /\ EntriesHaveOwner
    /\ TornOnlyInDump

(***************************************************************************)
(* The inductive invariant behind FreshNetworksFree.  A network that comes *)
(* up while a session searches is one of its copy of the file; any other   *)
(* was listed, and its addresses are read unless it has gone meanwhile.    *)
(***************************************************************************)
NetsOnGrid ==
    \A n \in nets : \E q \in Procs : \A f \in IPFields : \E k \in 0 .. MaxIncrements :
        n.cidr[f] = Moved(BaseAsset[q].cidr[f], k)

Seen(p, n) ==
    /\ \A x \in BridgeFields : n.bridge[x] \in bridges[p]
    /\ step[p] = "addresses" => n \in listed[p]
    /\ step[p] # "addresses" => \A f \in UpFields : Address(n.cidr[f], 1) \in ips[p]

SearchSeesNets ==
    \A p \in Procs : step[p] \in {"addresses", "leases", "choose"} =>
        \A n \in nets : n \in loaded[p] \/ Seen(p, n)

ChosenMeetsNoNet ==
    \A p \in Procs : step[p] \in {"open", "write", "unlock", "have"} =>
        \A n \in nets : ~NetConflict(asset[p], n)

NetsIInv == AssetIInv /\ NetsOnGrid /\ SearchSeesNets /\ ChosenMeetsNoNet

\* A network has an address for the host besides its own.
NetworksHaveHosts == \A p \in Procs : \A f \in UpFields : BaseAsset[p].cidr[f].size >= 2
=============================================================================
