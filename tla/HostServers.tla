---------------------------- MODULE HostServers ----------------------------
(***************************************************************************)
(* ContainerizedController with the proxy and iPXE servers that fixtures   *)
(* start on the machine.  The port of a proxy is probed, released and      *)
(* bound later by the container; the others have fixed ports.  A           *)
(* server that starts is removed by the teardown of its fixture: a proxy   *)
(* is put on the list of the fixture after run, an iPXE (or Tang) server   *)
(* before it.                                                              *)
(***************************************************************************)
EXTENDS Integers

CONSTANTS
    Servers,         \* controller objects, one per fixture of a session
    ProxyServers,    \* those that are ProxyControllers
    FirstPort, Step, \* scan_for_free_port(starting_port, step)
    MaxServerFaults  \* bound on podman commands that fail

ASSUME ServersAssumption ==
    /\ ProxyServers \subseteq Servers /\ MaxServerFaults \in Nat
    /\ FirstPort \in Nat \ {0} /\ Step \in Nat

VARIABLES
    srvPc,           \* per server
    srvPort,         \* the port it was given, 0 before
    srvRunning,      \* _is_running
    srvBound,        \* the ports that containers listen on: <<server, port>>
    srvFiles,        \* servers with a configuration directory or script folder
    srvListed,       \* servers on the list of their fixture
    srvRaced,        \* history: servers that scanned while another was starting,
                     \* and servers with a fixed port that another one may have
    srvFaults

srvVars == <<srvPc, srvPort, srvRunning, srvBound, srvFiles, srvListed, srvRaced, srvFaults>>

Ports == FirstPort..FirstPort + Step - 1
FixedPort == FirstPort + Step          \* any port outside of the range

ServersTypeOK ==
    /\ srvPc \in [Servers -> {"idle", "scanned", "built", "starting", "up", "failed", "removing", "gone"}]
    /\ srvPort \in [Servers -> Ports \cup {0, FixedPort}]
    /\ srvRunning \in [Servers -> BOOLEAN]
    /\ srvBound \subseteq Servers \X (Ports \cup {FixedPort})
    /\ srvFiles \subseteq Servers /\ srvListed \subseteq Servers /\ srvRaced \subseteq Servers
    /\ srvFaults \in 0..MaxServerFaults

ServersInit ==
    /\ srvPc = [s \in Servers |-> "idle"]
    /\ srvPort = [s \in Servers |-> 0]
    /\ srvRunning = [s \in Servers |-> FALSE]
    /\ srvBound = {} /\ srvFiles = {} /\ srvListed = {} /\ srvRaced = {} /\ srvFaults = 0

BoundPorts == {b[2] : b \in srvBound}
Between(s) == srvPc[s] \in {"scanned", "built", "starting"}
ServerFault == srvFaults < MaxServerFaults /\ srvFaults' = srvFaults + 1
-----------------------------------------------------------------------------

\* scan_for_free_port: the first port of the range that can be bound now.
FirstFree(p) == p \in Ports \ BoundPorts /\ \A q \in Ports \ BoundPorts : p <= q

\* The port is bound, found free and released again; without one it raises.
scan_for_free_port(s) ==
    /\ s \in ProxyServers /\ srvPc[s] = "idle"
    /\ \/ /\ \E p \in Ports : FirstFree(p) /\ srvPort' = [srvPort EXCEPT ![s] = p]
          /\ srvPc' = [srvPc EXCEPT ![s] = "scanned"]
       \/ /\ Ports \subseteq BoundPorts /\ UNCHANGED srvPort
          /\ srvPc' = [srvPc EXCEPT ![s] = "failed"]
    /\ srvRaced' = srvRaced \cup
         (IF \E t \in Servers : Between(t) THEN {s} \cup {t \in Servers : Between(t)} ELSE {})
    /\ UNCHANGED <<srvRunning, srvBound, srvFiles, srvListed, srvFaults>>

\* An iPXE server has a fixed port, whoever else uses it.
SamePort(s) == {t \in Servers \ (ProxyServers \cup {s}) : srvPc[t] \notin {"idle", "gone"}}

default_port(s) ==
    /\ s \notin ProxyServers /\ srvPc[s] = "idle"
    /\ srvPort' = [srvPort EXCEPT ![s] = FixedPort]
    /\ srvPc' = [srvPc EXCEPT ![s] = "scanned"]
    /\ srvRaced' = srvRaced \cup (IF SamePort(s) # {} THEN {s} \cup SamePort(s) ELSE {})
    /\ UNCHANGED <<srvRunning, srvBound, srvFiles, srvListed, srvFaults>>

\* The constructor of a proxy writes its configuration; the fixtures of the
\* other servers put the new object on their list.
create_server(s) ==
    /\ srvPc[s] = "scanned"
    /\ srvPc' = [srvPc EXCEPT ![s] = "built"]
    /\ IF s \in ProxyServers THEN srvFiles' = srvFiles \cup {s} /\ UNCHANGED srvListed
                             ELSE srvListed' = srvListed \cup {s} /\ UNCHANGED srvFiles
    /\ UNCHANGED <<srvPort, srvRunning, srvBound, srvRaced, srvFaults>>

\* run: _is_running is set first, then _on_container_start (an iPXE server
\* makes its script folder).
run_server(s) ==
    /\ srvPc[s] = "built"
    /\ srvPc' = [srvPc EXCEPT ![s] = "starting"]
    /\ srvRunning' = [srvRunning EXCEPT ![s] = TRUE]
    /\ srvFiles' = srvFiles \cup {s}
    /\ UNCHANGED <<srvPort, srvBound, srvListed, srvRaced, srvFaults>>

\* podman run -d succeeds even if the server inside cannot bind its port; a
\* failure raises, and a proxy is then on no list.
run_container(s) ==
    /\ srvPc[s] = "starting"
    /\ \/ /\ srvPc' = [srvPc EXCEPT ![s] = "up"]
          /\ srvBound' = IF srvPort[s] \in BoundPorts THEN srvBound
                         ELSE srvBound \cup {<<s, srvPort[s]>>}
          /\ srvListed' = srvListed \cup {s}
          /\ UNCHANGED srvFaults
       \/ /\ ServerFault
          /\ srvPc' = [srvPc EXCEPT ![s] = "failed"]
          /\ UNCHANGED <<srvBound, srvListed>>
    /\ UNCHANGED <<srvPort, srvRunning, srvFiles, srvRaced>>

\* The teardown calls remove for the servers of its list: podman rm, the hook
\* _on_container_removed, and _is_running.  If podman fails the rest is skipped.
remove_server(s) ==
    /\ srvPc[s] \in {"up", "failed"} /\ s \in srvListed
    /\ \/ /\ srvRunning[s]
          /\ srvPc' = [srvPc EXCEPT ![s] = "gone"]
          /\ srvBound' = {b \in srvBound : b[1] # s}
          /\ srvFiles' = srvFiles \ {s}
          /\ srvRunning' = [srvRunning EXCEPT ![s] = FALSE]
          /\ UNCHANGED srvFaults
       \/ /\ srvRunning[s]
          /\ ServerFault
          /\ srvPc' = [srvPc EXCEPT ![s] = "removing"]
          /\ UNCHANGED <<srvBound, srvFiles, srvRunning>>
       \/ /\ ~srvRunning[s]
          /\ srvPc' = [srvPc EXCEPT ![s] = "gone"]
          /\ UNCHANGED <<srvBound, srvFiles, srvRunning, srvFaults>>
    /\ UNCHANGED <<srvPort, srvListed, srvRaced>>

ServersNext ==
    \E s \in Servers :
        \/ scan_for_free_port(s) \/ default_port(s) \/ create_server(s) \/ run_server(s) \/ run_container(s)
        \/ remove_server(s)
-----------------------------------------------------------------------------
\* Every server that is up listens on the port it announces, unless another
\* one was between its scan and its start when this one scanned, or it has a
\* fixed port and another server of its kind was there.
ServerHasPort ==
    \A s \in Servers : srvPc[s] = "up" /\ s \notin srvRaced => <<s, srvPort[s]>> \in srvBound

\* Once all fixtures are torn down, a container or a configuration is left only
\* of a server whose podman command failed: a proxy that failed to start keeps
\* its configuration, and no server that came up is forgotten.
ServerLeftIsExplained ==
    (\A s \in Servers : srvPc[s] \in {"gone", "removing", "failed"}) =>
        \A s \in Servers : s \in srvFiles \/ (\E b \in srvBound : b[1] = s) =>
            srvPc[s] # "gone"
-----------------------------------------------------------------------------
\* A container listens on the port that its server was given; the place of a
\* server tells whether podman has started it and whether its fixture knows.
ServerPlaces ==
    /\ \A b \in srvBound : b[2] = srvPort[b[1]] /\ srvPc[b[1]] \in {"up", "removing"}
    /\ \A s \in Servers :
         /\ srvPc[s] \in {"starting", "up"} => srvRunning[s]
         /\ srvPc[s] = "gone" => s \notin srvFiles
         /\ IF s \in ProxyServers THEN srvPc[s] \notin {"idle", "failed"} => srvPort[s] \in Ports
                                  ELSE srvPc[s] # "idle" => srvPort[s] = FixedPort
         /\ srvPc[s] = "failed" => IF s \in ProxyServers THEN s \notin srvListed ELSE srvRunning[s]
         /\ s \in srvListed /\ s \in ProxyServers => srvPc[s] \in {"up", "removing", "gone"}

\* Nobody can take the port of a server that nobody raced with.
PortIsReserved ==
    \A s \in Servers \ srvRaced : Between(s) =>
        /\ srvPort[s] \notin BoundPorts
        /\ IF s \in ProxyServers THEN \A t \in ProxyServers \ {s} : ~Between(t) ELSE SamePort(s) = {}
ServersIInv == ServersTypeOK /\ ServerPlaces /\ PortIsReserved /\ ServerHasPort
=============================================================================
