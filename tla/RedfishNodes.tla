---------------------------- MODULE RedfishNodes ----------------------------
(***************************************************************************)
(* RedfishController.prepare_nodes: bare-metal machines are reset, all at  *)
(* the same time in threads, then given the ISO one after the other, and   *)
(* restarted.  Only the restart reports an error: the exceptions of the    *)
(* threads are lost in join, and those of eject, set once and insert are   *)
(* caught.  While an iDRAC resets it answers no call.                      *)
(***************************************************************************)
EXTENDS Integers, Sequences

CONSTANTS
    Machines,          \* redfish_receivers, in order
    MaxRedfishFaults   \* bound on the calls that fail and the waits that time out

ASSUME RedfishAssumption ==
    /\ Machines \in Seq({Machines[i] : i \in 1..Len(Machines)}) /\ Len(Machines) > 0
    /\ \A i, j \in 1..Len(Machines) : Machines[i] = Machines[j] => i = j
    /\ MaxRedfishFaults \in Nat

VARIABLES
    rfPc, rfAt,        \* where prepare_nodes is, and at which machine
    rfThread,          \* the reset thread of each machine
    rfIdrac,           \* whether its iDRAC answers
    rfMedia, rfOnce,   \* what is in its virtual drive; whether to boot from it next
    rfBooted,          \* what it booted last
    rfTroubled,        \* history: machines with a call that failed or timed out
    rfFaults

rfVars == <<rfPc, rfAt, rfThread, rfIdrac, rfMedia, rfOnce, rfBooted, rfTroubled, rfFaults>>

Machine == {Machines[i] : i \in 1..Len(Machines)}

RedfishTypeOK ==
    /\ rfPc \in {"start", "join", "eject", "once", "insert", "restart", "prepared", "raised"}
    /\ rfAt \in 1..Len(Machines) + 1
    /\ rfThread \in [Machine -> {"none", "reset", "waiting", "over"}]
    /\ rfIdrac \in [Machine -> BOOLEAN]
    /\ rfMedia \in [Machine -> {"none", "old", "new"}]
    /\ rfOnce \in [Machine -> BOOLEAN]
    /\ rfBooted \in [Machine -> {"disk", "none", "old", "new"}]
    /\ rfTroubled \subseteq Machine
    /\ rfFaults \in 0..MaxRedfishFaults

\* A machine may still have the ISO of an earlier test in its drive.
RedfishInit ==
    /\ rfPc = "start" /\ rfAt = 1 /\ rfTroubled = {} /\ rfFaults = 0
    /\ rfThread = [m \in Machine |-> "none"]
    /\ rfIdrac = [m \in Machine |-> TRUE]
    /\ rfMedia \in [Machine -> {"none", "old"}]
    /\ rfOnce = [m \in Machine |-> FALSE]
    /\ rfBooted = [m \in Machine |-> "disk"]

Here == Machines[rfAt]
RedfishFault(m) ==
    /\ rfFaults < MaxRedfishFaults /\ rfFaults' = rfFaults + 1
    /\ rfTroubled' = rfTroubled \cup {m}
-----------------------------------------------------------------------------
\* reset_idrac starts one thread for every machine.
reset_idrac ==
    /\ rfPc = "start"
    /\ rfPc' = "join"
    /\ rfThread' = [m \in Machine |-> "reset"]
    /\ UNCHANGED <<rfAt, rfIdrac, rfMedia, rfOnce, rfBooted, rfTroubled, rfFaults>>

\* The call of a thread: the iDRAC goes away, or the call raises in the thread
\* (it is still away from an earlier reset, or for another reason).
reset_idrac_node(m) ==
    /\ rfThread[m] = "reset"
    /\ \/ /\ rfIdrac[m]
          /\ rfThread' = [rfThread EXCEPT ![m] = "waiting"]
          /\ rfIdrac' = [rfIdrac EXCEPT ![m] = FALSE]
          /\ UNCHANGED <<rfTroubled, rfFaults>>
       \/ /\ \/ RedfishFault(m)
             \/ ~rfIdrac[m] /\ rfTroubled' = rfTroubled \cup {m} /\ UNCHANGED rfFaults
          /\ rfThread' = [rfThread EXCEPT ![m] = "over"]
          /\ UNCHANGED rfIdrac
    /\ UNCHANGED <<rfPc, rfAt, rfMedia, rfOnce, rfBooted>>

\* The iDRAC comes back; its virtual drive survives the reset.
idrac_recovers(m) ==
    /\ ~rfIdrac[m]
    /\ rfIdrac' = [rfIdrac EXCEPT ![m] = TRUE]
    /\ UNCHANGED <<rfPc, rfAt, rfThread, rfMedia, rfOnce, rfBooted, rfTroubled, rfFaults>>

\* The wait for OSRunning ends, or times out and the thread dies of it.
wait_os_running(m) ==
    /\ rfThread[m] = "waiting"
    /\ \/ rfIdrac[m] /\ UNCHANGED <<rfTroubled, rfFaults>>
       \/ ~rfIdrac[m] /\ RedfishFault(m)
    /\ rfThread' = [rfThread EXCEPT ![m] = "over"]
    /\ UNCHANGED <<rfPc, rfAt, rfIdrac, rfMedia, rfOnce, rfBooted>>

\* Mutant: the threads are started and not joined.
join_threads_Missing ==
    /\ rfPc = "join"
    /\ rfPc' = "eject"
    /\ UNCHANGED <<rfAt, rfThread, rfIdrac, rfMedia, rfOnce, rfBooted, rfTroubled, rfFaults>>

join_threads ==
    /\ rfPc = "join"
    /\ \A m \in Machine : rfThread[m] = "over"
    /\ rfPc' = "eject"
    /\ UNCHANGED <<rfAt, rfThread, rfIdrac, rfMedia, rfOnce, rfBooted, rfTroubled, rfFaults>>

\* One call on the current machine: it takes effect, or it fails and the
\* exception is caught (the iDRAC is away, or for another reason).
Caught(ok) ==
    \/ rfIdrac[Here] /\ ok /\ UNCHANGED <<rfTroubled, rfFaults>>
    \/ ~rfIdrac[Here] /\ UNCHANGED <<rfMedia, rfOnce, rfTroubled, rfFaults>>
    \/ rfIdrac[Here] /\ RedfishFault(Here) /\ UNCHANGED <<rfMedia, rfOnce>>

\* get_iso_status is outside of the try: its failure ends prepare_nodes.
RedfishEjectIso ==
    /\ rfPc = "eject"
    /\ \/ rfPc' = "once" /\ Caught(rfMedia' = [rfMedia EXCEPT ![Here] = "none"] /\ UNCHANGED rfOnce)
       \/ /\ \/ ~rfIdrac[Here] /\ UNCHANGED <<rfTroubled, rfFaults>>
             \/ rfIdrac[Here] /\ RedfishFault(Here)
          /\ rfPc' = "raised" /\ UNCHANGED <<rfMedia, rfOnce>>
    /\ UNCHANGED <<rfAt, rfThread, rfIdrac, rfBooted>>

RedfishSetIsoOnce ==
    /\ rfPc = "once"
    /\ rfPc' = "insert"
    /\ Caught(rfOnce' = [rfOnce EXCEPT ![Here] = TRUE] /\ UNCHANGED rfMedia)
    /\ UNCHANGED <<rfAt, rfThread, rfIdrac, rfBooted>>

\* insert fails when something is in the drive; then the loop goes on.
RedfishInsertIso ==
    /\ rfPc = "insert"
    /\ Caught(/\ rfMedia' = [rfMedia EXCEPT ![Here] = IF @ = "none" THEN "new" ELSE @]
              /\ UNCHANGED rfOnce)
    /\ IF rfAt < Len(Machines) THEN rfPc' = "eject" /\ rfAt' = rfAt + 1
                               ELSE rfPc' = "restart" /\ rfAt' = 1
    /\ UNCHANGED <<rfThread, rfIdrac, rfBooted>>

\* The second loop: an exception here reaches the caller.
RedfishRestart ==
    /\ rfPc = "restart"
    /\ \/ /\ rfIdrac[Here]
          /\ rfBooted' = [rfBooted EXCEPT ![Here] = IF rfOnce[Here] THEN rfMedia[Here] ELSE "disk"]
          /\ rfOnce' = [rfOnce EXCEPT ![Here] = FALSE]
          /\ rfAt' = rfAt + 1
          /\ rfPc' = IF rfAt < Len(Machines) THEN "restart" ELSE "prepared"
          /\ UNCHANGED <<rfTroubled, rfFaults>>
       \/ /\ \/ ~rfIdrac[Here] /\ UNCHANGED <<rfTroubled, rfFaults>>
             \/ rfIdrac[Here] /\ RedfishFault(Here)
          /\ rfPc' = "raised" /\ UNCHANGED <<rfBooted, rfOnce, rfAt>>
    /\ UNCHANGED <<rfThread, rfIdrac, rfMedia>>

\* The next prepare_nodes of a test with the same machines.
redfish_again ==
    /\ rfPc \in {"prepared", "raised"}
    /\ rfPc' = "start" /\ rfAt' = 1
    /\ rfMedia' = [m \in Machine |-> IF rfMedia[m] = "new" THEN "old" ELSE rfMedia[m]]
    /\ rfBooted' = [m \in Machine |-> "disk"]
    /\ rfTroubled' = {}
    /\ UNCHANGED <<rfThread, rfIdrac, rfOnce, rfFaults>>

RedfishNext ==
    \/ reset_idrac \/ join_threads
    \/ \E m \in Machine : reset_idrac_node(m) \/ idrac_recovers(m) \/ wait_os_running(m)
    \/ RedfishEjectIso \/ RedfishSetIsoOnce \/ RedfishInsertIso \/ RedfishRestart
    \/ redfish_again
-----------------------------------------------------------------------------
\* When prepare_nodes returns, every machine none of whose calls failed or
\* timed out runs the ISO of this test: not the one that an earlier test left
\* in the drive, and not nothing, although every error on the way is dropped.
RedfishBootsNewIso ==
    rfPc = "prepared" => \A m \in Machine \ rfTroubled : rfBooted[m] = "new"
-----------------------------------------------------------------------------
RedfishLoop == {"eject", "once", "insert"}

\* After the join no thread resets a machine any more, so that a machine whose
\* reset went well answers until the next prepare_nodes.
ResetsAreOver ==
    /\ rfPc \in RedfishLoop \cup {"restart"} => \A m \in Machine : rfThread[m] = "over"
    /\ rfPc \in RedfishLoop \cup {"join", "restart"} =>
         \A m \in Machine \ rfTroubled : rfThread[m] = "over" => rfIdrac[m]

\* How far the two loops have brought the machines without trouble.
LoopsDidTheirWork ==
    /\ rfPc \in RedfishLoop \cup {"restart"} => rfAt <= Len(Machines)
    /\ rfPc \in {"start", "join"} => rfAt = 1
    /\ \A i \in 1..Len(Machines) : Machines[i] \notin rfTroubled =>
         /\ (rfPc \in RedfishLoop /\ i < rfAt) \/ (rfPc = "restart" /\ i >= rfAt) =>
              rfMedia[Machines[i]] = "new" /\ rfOnce[Machines[i]]
         /\ rfPc \in {"once", "insert"} /\ i = rfAt => rfMedia[Machines[i]] = "none"
         /\ rfPc = "insert" /\ i = rfAt => rfOnce[Machines[i]]
         /\ (rfPc = "restart" /\ i < rfAt) \/ rfPc = "prepared" => rfBooted[Machines[i]] = "new"
RedfishIInv == RedfishTypeOK /\ ResetsAreOver /\ LoopsDidTheirWork
=============================================================================
