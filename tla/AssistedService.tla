--------------------------- MODULE AssistedService ---------------------------
(***************************************************************************)
(* The assisted-service as assisted-test-infra sees it: the status of one  *)
(* cluster, of its hosts and of its operators, and the infra-env its hosts *)
(* boot from.  The service is not part of the repository.  Its states are  *)
(* the ones the test infrastructure tells apart; what it does between two  *)
(* requests is left as free as the code that watches it allows: hosts may  *)
(* flap before the installation, the installation may fall back to ready,  *)
(* fail, or ask for the user.                                              *)
(***************************************************************************)
EXTENDS Integers, FiniteSets

CONSTANTS
    Hosts,          \* the hosts that boot from the infra-env
    Builtin,        \* the operators of type builtin ...
    Olm,            \* ... and of type olm
    MaxFallbacks    \* bound on the times an installation falls back to ready

ASSUME ServiceAssumption ==
    /\ IsFiniteSet(Hosts)
    /\ IsFiniteSet(Builtin)
    /\ IsFiniteSet(Olm)
    /\ Builtin \cap Olm = {}
    /\ MaxFallbacks \in Nat

VARIABLES
    status,     \* of the cluster; "absent" before it is created and once it is deleted
    host,       \* the status of each host; "absent" until it registers
    operator,   \* the status of each monitored operator
    infraEnv,   \* whether the infra-env exists
    booted,     \* whether the nodes were started from the infra-env's image
    fallbacks   \* how often an installation went back to ready

svcVars == <<status, host, operator, infraEnv, booted, fallbacks>>

Operators == Builtin \cup Olm

ClusterStatus ==
    { "absent", "insufficient", "ready", "preparing-for-installation", "installing",
      "installing-pending-user-action", "finalizing", "installed", "error", "cancelled" }

NodesStatus ==
    { "absent", "insufficient", "known", "installing", "installing-pending-user-action",
      "installed", "error" }

OperatorStatus == { "progressing", "available", "failed" }

\* The statuses in which validations, and no installation, decide the status.
BeforeInstall == { "insufficient", "ready" }

ServiceTypeOK ==
    /\ status \in ClusterStatus
    /\ host \in [Hosts -> NodesStatus]
    /\ operator \in [Operators -> OperatorStatus]
    /\ infraEnv \in BOOLEAN
    /\ booted \in BOOLEAN
    /\ fallbacks \in 0 .. MaxFallbacks

HostsIn(S) == {h \in Hosts : host[h] \in S}
-----------------------------------------------------------------------------
(***************************************************************************)
(* What the service and the hosts do on their own.                         *)
(***************************************************************************)
hostRegisters(h) ==
    /\ booted /\ infraEnv /\ status \in BeforeInstall
    /\ host[h] = "absent"
    /\ host' = [host EXCEPT ![h] = "insufficient"]
    /\ UNCHANGED <<status, operator, infraEnv, booted, fallbacks>>

\* The validations of a host pass or stop passing.
hostValidated(h) ==
    /\ status \in BeforeInstall
    /\ \/ host[h] = "insufficient" /\ host' = [host EXCEPT ![h] = "known"]
       \/ host[h] = "known" /\ host' = [host EXCEPT ![h] = "insufficient"]
    /\ UNCHANGED <<status, operator, infraEnv, booted, fallbacks>>

clusterValidated ==
    /\ LET known == HostsIn({"known"}) IN
       \/ /\ status = "insufficient" /\ known = Hosts
          /\ status' = "ready"
       \/ /\ status = "ready" /\ known # Hosts
          /\ status' = "insufficient"
    /\ UNCHANGED <<host, operator, infraEnv, booted, fallbacks>>

\* The preparation succeeds and the hosts start, or the cluster is ready again.
prepared ==
    /\ status = "preparing-for-installation"
    /\ \/ /\ status' = "installing"
          /\ host' = [h \in Hosts |-> IF host[h] = "known" THEN "installing" ELSE host[h]]
          /\ UNCHANGED fallbacks
       \/ /\ fallbacks < MaxFallbacks
          /\ status' = "ready"
          /\ fallbacks' = fallbacks + 1
          /\ UNCHANGED host
    /\ UNCHANGED <<operator, infraEnv, booted>>

hostInstalls(h) ==
    /\ status \in {"installing", "finalizing", "installing-pending-user-action"}
    /\ \/ /\ host[h] = "installing"
          /\ \E s \in {"installed", "error", "installing-pending-user-action"} :
                host' = [host EXCEPT ![h] = s]
       \/ /\ host[h] = "installing-pending-user-action"
          /\ host' = [host EXCEPT ![h] = "installing"]
    /\ UNCHANGED <<status, operator, infraEnv, booted, fallbacks>>

operatorReports(o) ==
    /\ status = "finalizing"
    /\ operator[o] # "available"
    /\ \E s \in {"available", "failed"} : operator' = [operator EXCEPT ![o] = s]
    /\ UNCHANGED <<status, host, infraEnv, booted, fallbacks>>

\* A cluster is installed when no host is on its way and its operators are
\* available, or, for the ones of OLM, decided.
clusterProgresses ==
    /\ \/ /\ status = "installing"
          /\ HostsIn({"installing-pending-user-action"}) # {}
          /\ status' = "installing-pending-user-action"
       \/ /\ status = "installing-pending-user-action"
          /\ HostsIn({"installing-pending-user-action"}) = {}
          /\ status' = "installing"
       \/ /\ status = "installing"
          /\ HostsIn({"installed"}) # {}
          /\ status' = "finalizing"
       \/ /\ status = "finalizing"
          /\ Hosts = HostsIn({"installed", "error"})
          /\ \A o \in Builtin : operator[o] = "available"
          /\ \A o \in Olm : operator[o] # "progressing"
          /\ status' = "installed"
       \/ /\ status \in {"installing", "finalizing"}
          /\ status' = "error"
    /\ UNCHANGED <<host, operator, infraEnv, booted, fallbacks>>

ServiceNext ==
    \/ \E h \in Hosts : hostRegisters(h) \/ hostValidated(h) \/ hostInstalls(h)
    \/ \E o \in Operators : operatorReports(o)
    \/ clusterValidated \/ prepared \/ clusterProgresses
=============================================================================
