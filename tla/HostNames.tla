----------------------------- MODULE HostNames -----------------------------
(***************************************************************************)
(* The names of clusters in /etc/hosts.  utils.update_etc_hosts rewrites   *)
(* the file under a lock of its own; Day2Cluster.config_etc_hosts rewrites *)
(* the same file without it.  A line belongs to a name that occurs in it.  *)
(***************************************************************************)
EXTENDS Integers, Sequences, SequencesExt

CONSTANTS
    Updaters,       \* processes; each uses its own address for its names
    Locked,         \* the ones that call update_etc_hosts
    NamesOf,        \* [Updaters -> Seq(names)]: dns_map, in order
    Occurs,         \* {<<n, m>> : name n occurs in name m and n # m}
    OldLines,       \* what is in the file at the start
    MaxHostsCrashes

ASSUME HostNamesAssumption ==
    Locked \subseteq Updaters /\ "free" \notin Updaters /\ MaxHostsCrashes \in Nat

VARIABLES
    hostsFile,      \* lines <<address, name>>
    hostsLock,      \* who holds /tmp/test_etc_hosts.lock, or "free"
    hostsPc,        \* per process
    hostsBuffer,    \* per process: the lines it has read
    hostsClean,     \* history: no unlocked update overlapped another one
    hostsCrashes

hostsVars == <<hostsFile, hostsLock, hostsPc, hostsBuffer, hostsClean, hostsCrashes>>

HostNamesTypeOK ==
    /\ hostsLock \in Locked \cup {"free"}
    /\ hostsPc \in [Updaters -> {"idle", "read", "edit", "write", "unlock", "done", "dead"}]
    /\ DOMAIN hostsBuffer = Updaters
    /\ hostsClean \in BOOLEAN /\ hostsCrashes \in 0..MaxHostsCrashes

HostNamesInit ==
    /\ hostsFile = OldLines /\ hostsLock = "free"
    /\ hostsPc = [p \in Updaters |-> "idle"]
    /\ hostsBuffer = [p \in Updaters |-> <<>>]
    /\ hostsClean = TRUE /\ hostsCrashes = 0

InName(n, m) == n = m \/ <<n, m>> \in Occurs
Busy(p) == hostsPc[p] \in {"read", "edit", "write"}
-----------------------------------------------------------------------------
\* The loop of update_etc_hosts over the lines: a line is replaced by the first
\* name left in the map that occurs in it, and that name leaves the map.
ReplaceLines(lines, names, p) ==
    FoldLeft(LAMBDA acc, line :
              LET hits == SelectSeq(acc.left, LAMBDA n : InName(n, line[2]))
              IN  IF hits = <<>> THEN [acc EXCEPT !.out = Append(@, line)]
                  ELSE [out |-> Append(acc.out, <<p, Head(hits)>>),
                        left |-> SelectSeq(acc.left, LAMBDA n : n # Head(hits))],
            [out |-> <<>>, left |-> names], lines)

\* The names that are left are appended.  config_etc_hosts of a day-2 cluster
\* does the same for its single name.
EditedLines(lines, p) ==
    LET r == ReplaceLines(lines, NamesOf[p], p)
    IN  r.out \o [i \in DOMAIN r.left |-> <<p, r.left[i]>>]

\* Mutant: the file is rewritten without the lock.
hosts_begin_NoLock(p) ==
    /\ hostsPc[p] = "idle"
    /\ hostsPc' = [hostsPc EXCEPT ![p] = "read"]
    /\ hostsClean' = (hostsClean /\ (p \in Locked \/ \A q \in Updaters : ~Busy(q)))
    /\ UNCHANGED <<hostsFile, hostsLock, hostsBuffer, hostsCrashes>>

hosts_begin(p) ==
    /\ hostsPc[p] = "idle"
    /\ hostsPc' = [hostsPc EXCEPT ![p] = "read"]
    /\ IF p \in Locked THEN hostsLock = "free" /\ hostsLock' = p ELSE UNCHANGED hostsLock
    /\ hostsClean' = (hostsClean /\ \A q \in Updaters : Busy(q) => {p, q} \subseteq Locked)
    /\ UNCHANGED <<hostsFile, hostsBuffer, hostsCrashes>>

hosts_read(p) ==
    /\ hostsPc[p] = "read"
    /\ hostsPc' = [hostsPc EXCEPT ![p] = "edit"]
    /\ hostsBuffer' = [hostsBuffer EXCEPT ![p] = EditedLines(hostsFile, p)]
    /\ UNCHANGED <<hostsFile, hostsLock, hostsClean, hostsCrashes>>

\* open("/etc/hosts", "w") empties the file before anything is written.
hosts_truncate(p) ==
    /\ hostsPc[p] = "edit"
    /\ hostsPc' = [hostsPc EXCEPT ![p] = "write"]
    /\ hostsFile' = <<>>
    /\ UNCHANGED <<hostsLock, hostsBuffer, hostsClean, hostsCrashes>>

update_etc_hosts(p) ==
    /\ hostsPc[p] = "write"
    /\ hostsPc' = [hostsPc EXCEPT ![p] = IF hostsLock = p THEN "unlock" ELSE "done"]
    /\ hostsFile' = hostsBuffer[p]
    /\ UNCHANGED <<hostsLock, hostsBuffer, hostsClean, hostsCrashes>>

hosts_unlock(p) ==
    /\ hostsPc[p] = "unlock"
    /\ hostsPc' = [hostsPc EXCEPT ![p] = "done"]
    /\ hostsLock' = "free"
    /\ UNCHANGED <<hostsFile, hostsBuffer, hostsClean, hostsCrashes>>

\* A process is killed; the kernel releases its lock.
hosts_killed(p) ==
    /\ hostsPc[p] \notin {"idle", "done", "dead"}
    /\ hostsCrashes < MaxHostsCrashes /\ hostsCrashes' = hostsCrashes + 1
    /\ hostsPc' = [hostsPc EXCEPT ![p] = "dead"]
    /\ hostsLock' = IF hostsLock = p THEN "free" ELSE hostsLock
    /\ hostsClean' = (hostsClean /\ hostsPc[p] # "write")
    /\ UNCHANGED <<hostsFile, hostsBuffer>>

HostNamesNext ==
    \E p \in Updaters :
        \/ hosts_begin(p) \/ hosts_read(p) \/ hosts_truncate(p) \/ update_etc_hosts(p)
        \/ hosts_unlock(p) \/ hosts_killed(p)
-----------------------------------------------------------------------------
\* Whatever the order of the updates, the names of every process that is done
\* point to its address, and an old line is kept, unless a name of somebody
\* occurs in it (or in the name): as long as no update overlapped an unlocked
\* one and nobody was killed between the truncation and the write.
HostsUpdatesKept ==
    hostsClean /\ (\A p \in Updaters : hostsPc[p] # "write") =>
        LET claimed(n, p) == \E q \in Updaters \ {p} : \E m \in Range(NamesOf[q]) : InName(m, n)
        IN  /\ \A p \in Updaters : hostsPc[p] \in {"unlock", "done"} =>
                  \A n \in Range(NamesOf[p]) : ~claimed(n, p) => <<p, n>> \in Range(hostsFile)
            /\ \A l \in Range(OldLines) : ~claimed(l[2], "nobody") => l \in Range(hostsFile)

\* The lines as they will be once the writer, if there is one, has written.
Lines == IF \E p \in Updaters : hostsPc[p] = "write"
         THEN hostsBuffer[CHOOSE p \in Updaters : hostsPc[p] = "write"] ELSE hostsFile

\* Reading, truncating and writing are three steps, and yet an update is one
\* edit of the lines that are there when it truncates the file: as long as no
\* update overlapped an unlocked one and nobody was killed before the write.
OneEditAtMost == hostsClean' => Lines' = Lines \/ \E p \in Updaters : Lines' = EditedLines(Lines, p)
HostsUpdatesSerial == [][OneEditAtMost]_hostsVars
-----------------------------------------------------------------------------
\* Who is in the locked part has the lock; in a clean run one process at most is
\* busy, and what it is about to write was made from the file as it is.
LockCovers ==
    \A p \in Updaters : (p \in Locked /\ Busy(p)) \/ hostsPc[p] = "unlock" => hostsLock = p
OneBusy == hostsClean => \A p, q \in Updaters : Busy(p) /\ Busy(q) => p = q
EditIsFresh ==
    hostsClean => \A p \in Updaters :
        hostsPc[p] = "edit" => hostsBuffer[p] = EditedLines(hostsFile, p)
HostNamesIInv == HostNamesTypeOK /\ LockCovers /\ OneBusy /\ EditIsFresh
=============================================================================
