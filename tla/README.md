# assisted-test-infra: TLA+ specifications

TLA+ models of the parts of assisted-test-infra whose behaviour depends on
order: test sessions that share a hypervisor, a test that drives a service
which moves on by itself, threads that work on the nodes of a session. The
models are checked by TLC on small instances, and their main safety properties
are proved by TLAPS for every value of the constants. Paths are relative to the
repository root, which is `src/`; `PROJECT.json` maps every definition to the
lines it models.

* [1. The system](#1-the-system)
* [2. Modules and code](#2-modules-and-code)
* [3. Runs](#3-runs)
* [4. Proofs](#4-proofs)
* [5. Disagreements found](#5-disagreements-found)
* [6. What is not modelled](#6-what-is-not-modelled)
* [7. Plan](#7-plan)

## 1. The system

assisted-test-infra is a pytest project. A *session* is one pytest process. It
takes a network range from a pool shared with the other sessions on the
hypervisor, registers a cluster with the assisted-service, creates virtual
machines with terraform, boots them from the image the service made, tells the
service to install, waits, and takes everything down again. Several sessions
run on one hypervisor; the service belongs to nobody in this repository.

```
            base_test.py (fixtures: set-up, yield, teardown)
             |             |                  |
   LibvirtNetworkAssets  Cluster/InfraEnv    Nodes -- run_concurrently -- Node
             |             |   HTTP           |                            |
     file_lock_context   InventoryClient    TerraformController   LibvirtController
             |             |                  |      |                     |
      assets file     assisted-service     terraform  virsh_cleanup     libvirt
                       (external)                     (file_lock_context)
```

| Component | State it keeps | Operations | Hard about it | Correct if |
|---|---|---|---|---|
| file lock, `utils/utils.py` | a lock file; an inode and a name | `file_lock_context` | polling without a queue, timeout, `os.unlink` of a file another process has locked, killed holders | one process in the body; every wait ends |
| network assets, `tools/assets.py` | a JSON file of the assets in use | `get`, `release_all` | read-modify-write by many processes, file emptied before it is written, networks that outlive their entry | assets held at the same time do not conflict; no entry is lost or left without reason |
| cluster installation, `helper_classes/cluster.py`, `tests/base_test.py` | `_is_installed`, `_infra_env`, the argument `retries` | fixture set-up, `prepare_for_installation`, `start_install`, waits, teardown | the service moves between two requests, answers are lost, falls back to ready, waits see different moments | a passed test installed everything; retries are justified and bounded; nothing is left behind |
| assisted-service (external) | cluster, host, operator statuses | what the waits watch | it is free to do what it likes | environment |
| terraform nodes, `terraform_controller.py`, `terraform_utils.py`, `virsh_cleanup` | terraform state, resources on the hypervisor | `prepare_nodes`, `destroy_all_nodes` | half-done applies, ignored exit codes, cleanup by name while others work | nodes in use stay; a teardown leaves nothing |
| libvirt nodes, `nodes.py`, `node.py`, `libvirt_controller.py`, `concurrently.py` | domains: power, live and persistent definition, disk | start, shutdown, restart, reset, format, boot order, on many nodes at once | a thread pool, one job of several failing, two-stage wait for addresses | an operation that returned took effect everywhere and left no thread behind |
| devices of a node, `libvirt_controller.py`, `nodes.py`, `node.py` | disk files, live and persistent definition of a domain, cached nodes and addresses | attach, detach, `detach_all_test_disks`, fixtures | the two definitions of a domain diverge, caches outlive a lease | what a running node uses is there; a node starts again; no file is left; addresses are those of the guest |
| other platforms: Oracle cloud, Redfish, s390x, vSphere, Nutanix | machines of a provider, clean-up lists | prepare, power, destroy | sequences of provider calls of which one fails, lost exceptions, lists changed while iterated | nodes that are reported ready are; a teardown leaves nothing |
| NAT, `nat_controller.py` | iptables rules | `add_nat_rules`, `remove_nat_rules` | check, then insert; routes that change in between | rules of a session go with it, rules of others stay |
| host names, `utils.py`, `day2_cluster.py` | `/etc/hosts` | `update_etc_hosts`, `config_etc_hosts` | one writer takes the lock, the other does not | names of all sessions resolve |
| containerized servers, iSCSI targets | containers, ports, disks, targets | run, remove, `create_target`, `clean_target` | a port is probed and bound later; flag set before the start; a singleton that forgets | what was started is removed |
| configuration and triggers, `env_var.py`, `config/`, `triggers/` | values, defaults, who gave them | pool, configuration objects, `handle_trigger` | precedence of user, parameter, trigger; triggers applied twice | a trigger never overrides a user's value nor acts twice |
| addresses, `terraform_controller.py`, `static_network.py` | tfvars, static data of the image, VLAN of the bridge | `_fill_tfvars`, generation, validation | offsets chosen in four places, data kept when nodes are made again | no address twice; the image fits the nodes |
| preparation of a cluster, `cluster.py`, `load_balancer_controller.py` | roles, networks, VIPs, load balancer, DNS record | `prepare_nodes`, `prepare_networking` | decisions by platform, stack and number of masters in several places, roles by substring | roles are those of the nodes; the record names what answers |
| day-2 cluster, `day2_cluster.py` | hosts and counts of ready nodes | preparation, installation, approval | counts compared at two moments | the added hosts are nodes |
| kube API, hypershift | custom resources on the hub, agents | create, wait, bind, unbind, scale, delete | operator and test write the same objects, one delete of many fails | nothing is left; no update is taken back |
| configuration of the service, `update_assisted_service_cm.py`, infra controller | config map, pods | patch, restart, restore | pods keep the data they started with | a test leaves the service as it was |
| log collection, `download_logs/` | folders on the disk | the loop over clusters | suppressed errors, kills, a service that goes on collecting | a skipped folder is complete |

The remaining components (ssh, release images, the service client, the command
line, reports, deployment scripts) are listed in `PROJECT.json` with the reason
they are left out.

What is hard to test is listed under `hazards` in `PROJECT.json`, each with its
line and the properties that would show it going wrong.

## 2. Modules and code

A component has a module with its state and actions; an `MC...` module has the
instances TLC checks, and a `...Proofs` module the theorems. `MCHypervisor` and
`MCServices` check several components that share no state in one run: the
variable `focus` names the one a behaviour is about, the others stand still. Definitions
keep the names of the methods they model. An operator whose name ends in an
underscore and a word (`LockRelease_Unlinks`) is a deliberately wrong variant
of the definition that follows it; it is used by no specification. With the
definition replaced by it TLC reports a violation, which shows that the
property named in `PROJECT.json` can fail.

### FileLock, Mutex

`utils.file_lock_context`. `path` is the inode that has the lock file's name,
`fd` the inode each process opened, `lpc` where it is. `LockOpen`,
`LockObtain`, `LockBusy` and `LockPoll` are one round of the `filelock`
package, which opens or creates the file, tries a non-blocking flock on the
inode and closes it again. `LockTimeout` and `LockUnlink` are the `except
filelock.Timeout` branch: the first timeout unlinks the name and acquires
again, the second one is raised; so is the `FileNotFoundError` of an unlink that
comes second. `LockCrash` is a killed process, whose locks the kernel drops.
`Mutex` is the abstract lock; the mapping makes nobody protected once the file
was unlinked.

### NetworkAssets, AssetPool

`LibvirtNetworkAssets` as the fixtures use it, composed with `FileLock` (it
extends the module, and its actions conjoin the lock's). `get` is the steps
`load`, `listInterfaces`, `readAddresses`, `readLeases`, `choose`,
`openForWrite`, `dump`, `returnAsset`; `release_all` is `removeTaken`,
`openForWrite`, `dump`, `endSession`. A network is a block of addresses
`[fam, lo, size]`, so that "`x in network`" and overlapping are what they are
in netaddr. The search for a free network (`set_next_available_ip_network`)
is given by what it finds: the first of the networks moved up that contains no
allocated object. `openForWrite` and `dump` are two steps because `open(...,
"w")` empties the file. Networks on the hypervisor (`nets`) are created and
destroyed by the session, and stay when it is killed or released its assets
without destroying its nodes. `AssetPool` is the promise: a session takes an
asset that conflicts with none in other hands.

### ClusterInstall, AssistedService

`ClusterInstall` is one test: the `cluster` fixture of `base_test.py` (a new
cluster, or the adopted one of `CLUSTER_ID`), `prepare_for_installation`,
`start_install_and_wait_for_installed`, and the teardown. Every request is a
step of its own. A request can fail before its effect or after it (a lost
answer), at most `MaxFaults` times. A poll that finds nothing changes nothing
and is not a step. `_are_hosts_in_status`, `_are_operators_in_status` and
`is_cluster_in_status` are translated with what they raise and what they
swallow. `AssistedService` is the environment; its transitions are the ones the
code waits for, and it owes no progress.

### TerraformNodes

`prepare_nodes` and `destroy_all_nodes` of several sessions on one hypervisor.
A resource is `<<owner, kind>>` for pool, network and domain. A failed apply
may leave a resource the state does not know of. The exit code of `terraform
destroy` is dropped. `virsh_cleanup` lists domains, pools and networks in whose
names grep finds one of the session's (its own name or that of one of its two
networks; `Contains` is one relation for all three kinds) and deletes them one
by one under the lock; its virsh commands go to the local hypervisor whatever `libvirt_uri` is
(`Local`). The lock is taken as a mutual exclusion lock here: `FileLock` says
when it is one.

### LibvirtNodes

`Nodes.run_for_given_nodes` with `run_concurrently`: jobs queue for
`MaxWorkers` threads, an exception of one is raised while the others go on, and
the executor is left when all have ended. A job is a method of `Node`, a
sequence of controller steps (`First`, `After`). A domain has a persistent and
a live boot order, a disk, an address. `waitTimesOut` is the shut-down and
second create of `start_node`, and the second timeout that nothing catches.

### NodeDevices

One libvirt domain. `liveDev` and `confDev` are the two definitions: XMLDesc
shows the live one, `defineXML` writes the persistent one, a detach without
flags changes the one XMLDesc shows (`DetachFrom`). Test disks and interfaces
come and go through the fixtures. `PowerOps` has every operation of `Nodes` that
changes the power of a node (`shutdown_all`, `reboot_all`, `start_all`,
`destroy_all`, the two boot orders) and those of `Node`; each may raise because
of another node, and each has its own way with the list of nodes
(`DropsCache`). `cached` is that list and the addresses its `Node` remembers (a
`Node` object that a test keeps for itself is not in it), `lostBy` the operation
that made the addresses out of date. `because` notes two events, a detach from
a running domain and a power-off that took live-only disks along; the
properties relate them to the files and networks that are missing or left, and
are not noted where these arise. `destroy_all_nodes` of the libvirt controller
does to a node what `destroy_all` does.

### OciNodes, RedfishNodes, KvmS390xNodes, TfNodes

The controllers of other platforms, with the provider as environment. Oracle:
the resources of a cluster and the class-level list of clean-up calls, through
kills and processes that begin with an empty list. Redfish: a thread per
machine for the reset, exceptions lost in `join` or caught. s390x: guests that
stay off after their first reboot and the loop that shrinks the list it
iterates. `TfNodes`: vSphere tasks that fail silently, the second apply of
`notify_iso_ready`, and Nutanix.

### HostNat, HostNames, HostServers, IscsiTarget

What sessions share on the machine. A rule is checked and inserted in two steps
and the default interfaces are read again for the removal (`HostNat`). The two
writers of `/etc/hosts` read, truncate and write in steps (`HostNames`). A port
is scanned, then bound by the container (`HostServers`). The singleton of the
iSCSI targets forgets its list with every `__init__` (`IscsiTarget`), and its
teardown may fail as well. A check of a rule that fails, whatever its exit code,
says that the rule is absent.

### KubeApi, HostedAgents, ServiceConfig, Day2Cluster

`KubeApi` is one installation on a hub: constructed objects are noted whether
they are created or not, the operator makes agents and moves the conditions,
`__exit__` deletes, the namespace goes last. `HostedAgents` has the scaling of
a node pool, and `Agent.unbind` as a read and a later write with the
resourceVersion of the read. `ServiceConfig` has the environment that is merged
into the config map before the deployment, patches and restarts by tests, and
the restoration by the fixture; a pod has the data of the moment it started.
`Day2Cluster` adds hosts to an installed cluster.

### Configuration

The pool of `EnvVar`s, the configuration objects, the parameters of a test and
two rounds of triggers, for the variables triggers read or set. `EnvVarCopy`
keeps the old value when the new one is falsy, as the code does.

### Addressing, ClusterPreparation

`Addressing`: an address is a network and an offset, a hardware address a run
of `generate_macs` and a position. The tfvars, virtual addresses, static data
and the move of the host's addresses to the VLAN interface are translated as
operators and steps; nodes can be destroyed and made again under a kept
infra-env. `ClusterPreparation` extends it with what `prepare_nodes` and
`prepare_networking` do once the hosts are discovered: names and roles, the
networks and virtual addresses of the update, the load balancer, the DNS
record, for every platform, stack and topology. The service may list hosts in
any order and the hosts may have no addresses yet.

### LogCollection

The collector over one destination, again and again: skip or recreate a folder,
metadata, files, events, logs with retries, must-gather. `ApiException` and
ctrl-C are suppressed where the code suppresses them and lead to the next step;
any other exception (`Raise`: a file that cannot be parsed, an archive that
`verify_logs_uploaded` cannot open or refuses, a folder without metadata) ends
the loop over the clusters. Kills come anywhere, in the middle of the removal of
a folder too; the service goes on collecting. What is in the files is left out,
and with it their censoring.

## 3. Runs

Every run finishes within three minutes on two workers.

| Run | Module, cfg | Checks | Shows |
|---|---|---|---|
| `assets` | MCNetworkAssets, NetworkAssets | AssetTypeOK, HeldAssetsDisjoint, HeldAssetsRecorded, AssetsFileIsSound, FreshNetworksFree, ImplementsPool | three sessions never hold conflicting assets, no update of the file is lost, no entry is without reason, fresh networks meet none on the hypervisor, the file is unreadable only after a kill in the middle of `json.dump` |
| `assets_live` | MCNetworkAssets, NetworkAssetsLive | SessionEnds | a session that asks for assets ends, with lock timeouts |
| `assets_lock_timeout` | MCNetworkAssets, NetworkAssetsTimeout | HeldAssetsDisjoint (violated) | section 5 |
| `install` | MCClusterInstall, ClusterInstall | InstallTypeOK, IsInstalledIsTrue, PassedIsComplete, RetriesAreDue, NoOrphanInfraEnv, NothingLeft | a new cluster, three hosts of which two are awaited, two lost requests, two fallbacks, timeouts |
| `install_noticed` | MCClusterInstall, ClusterInstallNoticed | InstalledIsNoticed | with no timeout and no fault the polls alone notice the end of the installation |
| `install_existing` | MCClusterInstall, ClusterInstallExisting | TestEnds | an adopted cluster in any status; the test ends whatever the service does (that it leaves nothing is proved, for adopted clusters too) |
| `terraform` | MCTerraformNodes, TerraformNodes | TerraformTypeOK, ReadyNodesStay, DestroyedLeavesNothing, ApplyAndDestroyEnd | sessions whose names do not contain each other leave each other alone; a finished destroy left only what virsh failed on |
| `terraform_names` | MCTerraformNodes, TerraformNames | ReadyNodesStay (violated) | section 5 |
| `nodes` | MCLibvirtNodes, LibvirtNodes | NodesTypeOK, OperationTookEffect, ResetStartsBlank, QuietBetweenOperations, OperationEnds | every method on every subset of three nodes, two threads, twice in a row, with errors and nodes without addresses |
| `hypervisor` | MCHypervisor, Hypervisor | HypervisorTypeOK, ImplementsMutex, WaitEnds, SessionsKeepTheirShare, HostsUpdatesKept, HostsUpdatesSerial, TeardownIsExplained, DevicesAreExplained, NodesAreReady | below |
| `services` | MCServices, Services | ServicesTypeOK, GoesOnWithReason, KubeLeftIsExplained, TriggersAreIdempotent, AddressingIsSound, UnbindKeepsUpdates, SkippedIsComplete | below |
| `static_ip_validation` | MCAddressing, StaticIp | StaticIpValidated (violated) | section 5 |

The properties of the two group runs are conjunctions, each conjunct defined and
explained in the module of its component:

* **ImplementsMutex, WaitEnds**: until the first unlink the lock is a `Mutex`,
  races of open and flock and killed processes included; a wait ends even if the
  lock changes hands for ever.
* **SessionsKeepTheirShare**: until the first unlink a process in the body of the
  lock is alone there (`ExclusiveUntilUnlink`); a session that is up has all its iptables rules
  whatever another one removes (`NatUpIsComplete`); a server listens on the port
  it announces unless another scan came in between, or another server has the
  same fixed port (`ServerHasPort`).
* **HostsUpdatesKept**, **HostsUpdatesSerial**: names in `/etc/hosts` are kept,
  and every update is one edit of the lines that are there, unless one
  overlapped the unlocked writer or a writer was killed with the file empty.
* **TeardownIsExplained**: rules, containers and files, iSCSI disks and Oracle
  resources that stay after a teardown have one of the causes the modules name
  (a kill, a refused removal, a changed route, a check or a command that failed,
  a forgotten list): nothing else is left, in particular no nodes of a failed
  apply job. A cause that is named is a hazard of the code that the property
  bounds and does not exclude.
* **DevicesAreExplained**: what a running domain uses is there
  (`RunningHasItsDevices`); a persistent definition names a missing file or
  network only after a teardown that found the node running
  (`MissingIsExplained`); the only files without a definition are those libvirt
  refused and those of live-only disks of a node that was powered off
  (`LeftFilesAreExplained`); addresses that the listed node remembers are wrong
  only if the first operation that powered it off raised or keeps the list
  (`StaleIpsAreExplained`), never through `shutdown_all`, `reboot_all` or
  `start_all`.
* **NodesAreReady**: machines without a failed call run the new image
  (Redfish), every guest was started again (s390x), operations took effect when
  no task failed (vSphere, Nutanix).
* **GoesOnWithReason**: when a wait is over, every node was installed through the
  kube API, the service runs with its old configuration, day-2 hosts are nodes
  (unless a day-1 node changed between the counts), a prepared cluster has the
  roles of its nodes and a DNS record that something answers; after the triggers
  the values of the user are still there and a single node has no workers.
* **KubeLeftIsExplained**: an object that the exit of the context leaves on the
  hub had its delete fail, or comes after one whose delete failed.
* **TriggersAreIdempotent**: the second round of triggers has not added the
  resources of an operator again, and a third one would change nothing.
* **AddressingIsSound**: no address is handed out twice; image and nodes fit;
  nodes that were made again do not pass the validation; the host keeps its
  addresses; the networks of the cluster agree on the primary stack, contain
  the virtual addresses, and the load balancer has every master.
* **UnbindKeepsUpdates**, **SkippedIsComplete**: `unbind` takes no foreign
  update back; a folder that is skipped holds all the service will hand out,
  unless its last collection was interrupted before the archive was there, or it
  was listed without any logs.

### Bounds

* `Procs`, `Inodes`: three processes, so that a waiter can come between the one
  that unlinks and the one that holds. An inode number is used again when
  nobody has it open; one per process and one for the name suffice, so
  `LockOpen` is never blocked.
* `MaxIncrements = 4`: three sessions with two networks each per family fit
  with room to move past one another; a smaller bound in `assets_live` makes
  the search run out, which is the `address boundary` exception of the code.
* `MaxRounds = 1`: a session per process. Networks and entries that were left
  behind are met by the other processes.
* `Hosts`, `NodesCount`: three hosts and two awaited, so that a host more than
  the waits ask for exists; operators of both types.
* `Retries = 1`, `MaxFallbacks = 2`: one retry that works and one that runs out.
* `MaxFaults = 2`: two failed requests reach the paths where a clean-up fails
  twice; in `terraform`, both attempts of an apply, or one of them and destroy.
* `Attempts = 2`: a first attempt and a last one.
* `MaxWorkers = 2` for three nodes: a job has to queue. `MaxOps = 2`: an
  operation meets what another one left.

* `hypervisor`: two sessions, two default interfaces, two ports, two disks: the
  least with which one can disturb the other. One fault or two per part, so that
  a failed step and a failed clean-up meet. Three guests and a foreign one, so
  that the shrinking list skips one that matters.
* `services`: two nodes, agents and hosts each; replicas up, then down;
  one cluster with logs, failing anywhere, `LogRetries = 3` and two events, so that
  retries follow each other and a folder can be out of date (with two clusters
  and fewer retries and events the run passes too but takes longer; the theorem
  is about any number). Configurations and layouts are
  enumerated: one to five masters, workers, arbiters, both stacks and their
  order, bonds, VLAN, platforms, load balancers, names that contain a role.
  `MaxPrepares = 2`: nodes are made again once.

`CHECK_DEADLOCK FALSE` is set because sessions, tests and operations come to an
end. Symmetry is used in two large runs without liveness, for processes and
hosts that the module treats alike.

### Fairness

* `LockFairness`: a process that is not killed runs, and the body ends. Strong
  fairness of `LockTimeout` says that the clock runs: a process whose polls
  fail again and again sees one fail after its timeout. Nothing orders the
  waiters, and without the timeout a process may wait for ever. No process is
  obliged to enter.
* `AssetFairness`: the same, and a test that has its assets ends.
* `ClusterInstall`: weak fairness of the test's own steps, timeouts among them,
  since every wait has one. The service owes nothing; `InstalledIsNoticed`
  is therefore checked from the moment it says `installed`.
* `TerraformNodes`: terraform ends, and the steps of the cleanup are taken. Not
  when a session starts or ends.
* `LibvirtNodes`: threads run and waits time out. Guests need not get addresses.
* The other parts are checked for safety only; in `hypervisor` the fairness is
  that of the lock, which asks for nothing when nobody waits for it.

## 4. Proofs

For any number of processes, sessions, hosts, nodes, threads, retries and
faults:

| Theorem | States |
|---|---|
| FileLockProofs: LockTypeCorrect, LockExclusive, LockImplementsMutex | the lock is exclusive until the first unlink and implements `Mutex`, with timeouts and crashes |
| NetworkAssetsProofs: AssetTypeCorrect, HeldAssetsAreDisjoint, HeldAssetsAreRecorded | held assets never conflict and are in the file, if no wait times out and base networks are uniform |
| NetworkAssetsProofs: AssetsFileStaysSound | if no wait times out: entries have an owner or an explanation, and only a kill inside `json.dump` breaks the file |
| NetworkAssetsProofs: FreshNetworksAreFree | if moreover base networks are uniform, large enough for a host address, and the hypervisor is local: new networks meet none that exists |
| NetworkAssetsProofs: AssetsImplementPool | the refinement of `AssetPool`, under the assumptions of HeldAssetsAreDisjoint |
| ClusterInstallProofs: InstallTypeCorrect, RetriesFollowFallbacks, PassedTestsAreComplete, InstalledFlagIsTrue, InfraEnvsAreNotOrphaned, TeardownLeavesNothing | the safety properties of the installation |
| TerraformNodesProofs: TerraformTypeCorrect, ReadyNodesAreKept, DestroyIsComplete | nodes in use stay if no name contains another (`NamesDistinct`); a destroy is complete for sessions on the local hypervisor |
| LibvirtNodesProofs: NodesTypeCorrect, OperationsTakeEffect, ResetsStartBlank, OperationsAreQuiet | what an operation on nodes promises, and that no thread outlives it |
| HypervisorProofs: HypervisorTypeCorrect, SharesAreKept, TeardownsAreExplained, NodeDevicesAreExplained, ReturnedNodesAreReady, HostsUpdatesAreSerial | the safety properties of the run `hypervisor`, HostsUpdatesKept excepted; the lemmas about what sessions share on the host are in HostProofs |
| ServicesProofs: ServicesTypeCorrect, TestsGoOnWithReason, HubLeftoversAreExplained, AddressesAgree, UnbindTakesNothingBack, SkippedFoldersAreComplete | the safety properties of the run `services`, TriggersAreIdempotent excepted, for any configurations and for layouts of up to 20 nodes |

The arguments:

* **LockIInv.** Exclusion is not inductive: a process may hold an old inode.
  Before the first unlink every open file is the one the name refers to
  (`NameIsOpened`), and a locked inode has one holder (`OneHolderPerInode`), so
  two processes in the body have the same inode and are the same. An unlink
  needs a timeout (`UnlinkAfterTimeout`).
* **AssetIInv.** A process that loaded the file and has not dumped its copy
  knows every asset that is held (`CopyIsComplete`), because nobody else can be
  in the body. What it found free conflicts with none of them
  (`ChosenIsFree`): its search saw every network of its copy
  (`SearchSeesCopy`), and for uniform prefixes a network that contains no
  allocated one overlaps none. The assumptions are `~CanTimeOut` and
  `UniformPrefixes`; neither can be dropped (section 5).
* **InstallIInv.** What a wait saw stays true, since only the teardown takes
  hosts and cluster away (`SeenStaysTrue`). `install_cluster` was called once
  per retry used up and at most once more often than the service fell back,
  because its own call moved the cluster out of ready (`CallsCounted`,
  `CallsFollowFallbacks`). `HandleFollowsInfraEnv` ties `_infra_env` to the
  service, through lost answers. Without a failed request what exists is known
  to the test and asked to go away (`CleanWithoutFaults`).
* **FileIInv**, **NetsIInv.** For the file alone it is enough that an entry of a
  loaded copy has an owner or an explanation (`CopyHasOwners`). For the networks:
  all lie on the grid of the base network (`NetsOnGrid`), the search of a process
  has seen those that exist (`SearchSeesNets`), and what it chose meets none
  (`ChosenMeetsNoNet`). New networks can appear meanwhile only under the lock.
  The refinement maps what a session holds to `held` of `AssetPool`.
* **TerraformIInv.** virsh lists what the session owns, or the skip list
  (`ListsAreOwn`). While a cleanup runs, a resource of the session is still to
  be listed, in the list, or one virsh failed to delete (`CleanupComplete`).
* **HypervisorIInv** is the conjunction of one invariant per part; a step of
  the whole is a step of one part and a stutter of the others (`StepOfOnePart`).
  - `NatIInv`: the marks of two sessions differ, so nobody else touches the rules
    of a session; the answer of `--check` holds until it is acted on, hence no
    rule is there twice, but for one whose check failed, and one removal is enough.
  - `HostNamesIInv`: in a clean history one updater at most is busy (`OneBusy`),
    so what it edited is still the file when it truncates it (`EditIsFresh`).
  - `ServersIInv`: the port of a server that nobody raced with is free until it
    binds it (`PortIsReserved`).
  - `OciIInv`: the list has a stack before its nodes and a bucket before its
    objects (`ListInOrder`), so that calls from newest to oldest find what they
    need (`CleanedIsGone`); nodes have a stack to destroy them (`NodesHaveStack`).
  - `RedfishIInv`: after the join no reset is under way (`ResetsAreOver`), and
    each loop has done its work on the machines it passed
    (`LoopsDidTheirWork`).
  - `KvmIInv`: a guest that was skipped is still in the list
    (`ListHasTheRest`), so the wait cannot end before it.
  - `DevicesIInv`: a file has one letter in a definition and no two disks the same
    one (`NamesAreOld`); while the domain runs, the disks of its persistent
    definition that have a file are in the live one too (`ConfIsLive`), so a
    detach that finds it running is what leaves the persistent one behind, and a
    power-off what leaves a live-only file; remembered addresses are the guest's
    until an operation powers it off (`CacheIsFresh`), and one that returns and
    drops the list forgets them (`LossIsExplained`).
  - `IscsiIInv`, `TfIInv`: a disk without a target is noted; a loop at machine
    `i` has reached the ones before it.

  Assumptions on the constants are the named ones of each module: bounds are
  numbers; the indices of two sessions differ (`NatAssumption`: the index is the
  number in the name of the bridge, and bridge names of the asset pool differ
  by HeldAssetsAreDisjoint; a name that is not `tt<n>` would count as 0); a
  Redfish controller has at least one machine, and none twice; the foreign
  domains of an s390x host are not among its guests.
* **ServicesIInv** is again one invariant per part.
  - `HostedIInv`: a copy that `unbind` has read is older than the agent or equal
    to it (`CopiesAreOlder`), so a replace that the version check admits takes
    nothing back.
  - `CmIInv`: from the rollout on the config map has the saved values
    (`RestoredData`); there is one pod or none, and once the old one is gone a pod
    can only have started with them.
  - `Day2IInv`: a host is no node before it was installed, and hosts are installed
    after the count (`NodesWereInstalled`), so what was counted are day-1 nodes
    (`CountIsOfDay1`). Reaching the sum then takes every day-2 host, by the
    cardinality of disjoint sets.
  - `KubeIInv`: what is on the hub is registered with the context until its loop
    deletes it (`MadeIsRegistered`); the wait for agents ended with all of them
    (`ListedAreAll`).
  - `LogsIInv`: a final `logs_info` stays (`FinalStays`), so an archive taken
    after it was recorded is whole, unless the collection of that cluster was
    interrupted (`ArchiveIsWhole`); an interruption counts until the folder is made
    again.
  - `ConfigIInv`: no trigger sets a variable that a condition reads
    (`ConditionsStay`); the origin of a variable tells whose value it is
    (`OriginIsKnown`); the trigger of the single node is still to come, or there
    are no workers (`WorkersGo`).
  - `AddrIInv`: the static data is that of one run of `_fill_tfvars`, the last one
    unless nodes were made again (`DataIsOfRun`), and the image has it
    (`ImageIsData`). The rest are lemmas about the operators: with at most 20 nodes
    leases are at offsets 10 to 29, static addresses from 30 on, virtual addresses
    at 100 and 101, and slices of the hardware addresses of two hosts are apart.
  - `PrepIInv`: the hosts of a role that the name lists find are those of the
    role (lemmas `MatchingIsRole`, `EveryHostIsListed`), the request is the one
    computed from the configuration (`RequestIsMade`), which platforms have a load
    balancer (`BalancerIsSet`) and what the record is at each step (`RecordSoFar`).

  Assumptions on the constants: values of users and tests have the type of their
  variable (`ConfigAssumption`); a layout has a master, a stack, a slave of a bond
  and at most 20 nodes, the limit that the offsets of the code imply
  (`AddrAssumption`; beyond it addresses are handed out twice); a load balancer of
  the user is for several masters with static addresses on a managed platform
  (`PrepAssumption`, what `set_network_params` supports); the others say that
  bounds are numbers and that sets of nodes are finite.
* **NodesIInv.** What has been achieved on a node when its job is at a given
  step (`Progress`); jobs are joined whenever the caller is idle
  (`JobsJoined`).

Only model-checked: the liveness properties (WaitEnds, SessionEnds, TestEnds,
InstalledIsNoticed, ApplyAndDestroyEnd, OperationEnds), which the prover does
not reach; HostsUpdatesKept and TriggersAreIdempotent, which say what a fold over
the lines of a file or over the triggers computes and would need an induction
over them, out of the prover's reach. HostsUpdatesSerial, which treats an edit as
a whole, is proved. TriggersAreIdempotent moreover depends on the numbers: an
operator that needs as much as is there after its first addition (from a base of
0) would be added twice, so it is a fact about the defaults of the code.

## 5. Disagreements found

* **A waiter breaks the lock of a live holder** (`assets_lock_timeout`,
  `utils.py:306`). flock is released by the kernel when a process dies, so a
  wait that times out waits for a live holder. Its lock file is unlinked, the
  waiter locks a new file of the same name, and both sessions take the same
  asset, although assets.py:22-24 promises to avoid conflicts.
* **A teardown deletes by substring** (`terraform_names`,
  `virsh_cleanup.py:12`): the session `ci` deletes the domains of `ci-2`.
* **The validation of static addresses compares none** (`static_ip_validation`,
  `cluster.py:1510`). The version is looked up in a table whose keys are
  hardware addresses, so every comparison is skipped and "Static IP validation
  passed" is logged for hosts with other addresses. What the validation does
  find are missing hardware addresses (`ValidatedNodesAreOurs`).

Also met, without a run:

* Assets: a network inside a larger allocated one counts as free
  (`assets.py:148`), so sessions with different prefixes can overlap.
* Installation: an adopted cluster counts as installed as soon as it has an
  infra-env (`cluster.py:135`); an exception between the creation of the cluster
  and the fixture's `yield` leaves the cluster (`base_test.py:537`, in the model).
* Preparation: a cluster name that contains `worker` or `arbiter` gives hosts
  wrong roles (`cluster.py:332`); with IPv6 as the first of two stacks
  `get_ips_for_role` finds no master for the load balancer
  (`assisted_service_api.py:631`, IPv4 first); two stacks with a load balancer
  of the user lose its network (`cluster.py:482`);
  `get_cluster_matching_cidrs` adds every cidr, its `break` leaves the inner
  loop only (`cluster.py:1376`).
* Addresses: with IPv6 first a static interface gets no IPv4 address; arbiters
  get no static data; `generate_day2_static_network_data_from_tf` repeats one
  address and omits arguments (`static_network.py:23`).
* Nodes: the virsh cleanup of a session on a remote hypervisor looks at the
  local one (`virsh_cleanup.py:20`, an assumption of `DestroyIsComplete`);
  `detach_all_test_disks` on a running node leaves a persistent test disk in the
  persistent definition and removes its file (`libvirt_controller.py:365`), so that
  the node cannot be started once it is off, while the docstring of
  `attach_test_disk` (line 319) says that all test disks can later be detached
  (`MissingIsExplained` names this cause);
  `undefine_interface` detaches from a running node only and then destroys the
  network, which the persistent definition still names; `destroy_all` and the boot
  orders of `Nodes` power nodes off and keep the addresses read before
  (`nodes.py:130`); the Nutanix `shutdown_node` powers on
  (`nutanix_controller.py:46`).
* Hosted clusters: the scale-down lists agents in the namespace of the cluster
  deployment, where there are none, and so waits for nothing.
* Configuration: `EnvVar.copy` ignores falsy values (`env_var.py:57`).
* NAT: a failing `iptables --check` counts as an absent rule
  (`nat_controller.py:92`), which is then inserted twice or left.
* Logs: the pause after the last retry is compared with `MAX_RETRIES` rather
  than with the parameter; a folder without `metadata.json`, left by a kill
  between `download_logs.py:238` and 401, ends every later loop at that cluster
  (154); a `logs_info` of `""` counts as final. A file that cannot be opened or
  parsed is left uncensored with a warning (62-64), a `JSONDecodeError` of
  `install-config.yaml` (262) ends the loop with the pull secret in the file, and
  manifests (272) and kubeconfig (321) are not censored at all. No document of
  the repository promises more, so no property is stated about it.

## 6. What is not modelled

* Of the modelled components: the single setters of `Cluster`, validation
  helpers, host resets and reboots; vcpu and memory of nodes; the sequential
  loop that replaces the thread pool for Nutanix; BareMetalHosts; OLM bundles;
  the dnsmasq file behind a DNS record; Tang servers, which differ from iPXE
  servers in their image only.
* Within modelled components, in `ClusterInstall`: the iPXE branch of the fixture
  (`base_test.py:543`); the requests of `set_hostnames_and_roles`, the roles and
  the networking are one request there (`ClusterPreparation` has them apart).
* In `HostServers` a fixture has one server; `remove` that raises for one of
  several skips the others (`base_test.py:797`).
* In `ClusterPreparation` the platform of the cluster and `tf_platform` of the
  controller agree, none standing for external; tests that set them apart are not
  covered. The virtual addresses of a user's `api_vips` are left out.
* In `Addressing` the entity is a cluster, which passes `is_static_ip` of its
  infra-env on. `InfraEnv.prepare_for_installation` takes it as an argument that is
  false unless given (`entity.py:96`) and downloads the image first.
* Where a property excludes something, that hazard is bounded and not covered:
  the writer of `/etc/hosts` without the lock, an unlinked lock file in
  `ExclusiveUntilUnlink`, adopted clusters in `install` (they are in
  `install_existing`), day-1 nodes that change, names with `worker` or `arbiter`,
  more than 20 nodes, IPv6-first dual stacks behind a load balancer, sessions on a
  remote hypervisor; in `terraform` the timeout of the lock is left to `FileLock`.
* Data races inside one process do not occur in what is modelled: the jobs of
  the thread pool and the Redfish threads work on different machines.
* Text and I/O: rendered configuration files, nmstate documents, formats of
  logs, reports, the interactive prompt, ssh transport, `oc` output, deployment
  scripts. Their correctness is about strings, not about order.
* The service, terraform, libvirt, kubernetes, provider APIs and filelock are
  modelled from how this repository uses them.

## 7. Plan

Done, in this order: the lock, the assets on top of it, the installation with
its service, the terraform and the libvirt nodes, with their safety theorems;
then the devices of nodes, the other platforms, what sessions share on the
machine, the kube API, hosted agents, the configuration of the service and of
tests, day-2, logs, addresses and the preparation of a cluster; then the proofs
about the assets file, its networks and the pool, the teardown of a test, and
all parts of `hypervisor`; then those about all parts of `services`. Every safety
property of a passing run is a theorem now, but for the two that are about folds
(section 4).

Left: the parts listed in section 6, BareMetalHosts and the single setters of
`Cluster` first, since tests call them in sequences of their own; and, with a
prover that can do induction, the two folds.
