------------------------------ MODULE FileLock ------------------------------
(***************************************************************************)
(* utils.file_lock_context: a lock file taken with flock(2) through the    *)
(* filelock package, and removed from the file system by a process that    *)
(* has waited longer than the timeout.                                     *)
(*                                                                         *)
(* flock locks the inode that was opened, not its name.  filelock polls:   *)
(* it opens the name (creating the file when it is missing), tries a       *)
(* non-blocking flock, and closes the file again when somebody else has    *)
(* it.  The kernel drops a lock when its process dies, so a process that   *)
(* times out waits for a live one.                                         *)
(***************************************************************************)
EXTENDS Integers

CONSTANTS
    Procs,        \* the test processes of one hypervisor
    Inodes,       \* inode numbers; one per process and one for the name suffice
    NoInode,      \* no file has the lock file's name; a process has no file open
    CanTimeOut    \* whether a wait may last longer than the timeout (300 seconds)

ASSUME LockConstants ==
    /\ NoInode \notin Inodes
    /\ CanTimeOut \in BOOLEAN

VARIABLES
    path,         \* the inode that the lock file's name refers to
    fd,           \* the inode each process has opened
    lpc,          \* where each process is in file_lock_context
    attempt,      \* which of the two lock.acquire calls it is in
    unlinked      \* history: the lock file has been removed by a process

lockVars == <<path, fd, lpc, attempt, unlinked>>

LockPC == {"idle", "open", "flock", "failed", "unlink", "critical", "raised"}

LockTypeOK ==
    /\ path \in Inodes \cup {NoInode}
    /\ fd \in [Procs -> Inodes \cup {NoInode}]
    /\ lpc \in [Procs -> LockPC]
    /\ attempt \in [Procs -> {1, 2}]
    /\ unlinked \in BOOLEAN

LockInit ==
    /\ path = NoInode
    /\ fd = [p \in Procs |-> NoInode]
    /\ lpc = [p \in Procs |-> "idle"]
    /\ attempt = [p \in Procs |-> 1]
    /\ unlinked = FALSE

Inside == {p \in Procs : lpc[p] = "critical"}

\* The kernel's view: inode i is locked by a process that is in the body.
Flocked(i) == \E q \in Inside : fd[q] = i
-----------------------------------------------------------------------------
\* The with statement is reached: the first lock.acquire begins.
LockEnter(p) ==
    /\ lpc[p] = "idle"
    /\ lpc' = [lpc EXCEPT ![p] = "open"]
    /\ attempt' = [attempt EXCEPT ![p] = 1]
    /\ UNCHANGED <<path, fd, unlinked>>

\* filelock opens the name and creates a new file when there is none.
LockOpen(p) ==
    /\ lpc[p] = "open"
    /\ \E i \in Inodes :
          /\ IF path = NoInode THEN \A q \in Procs : fd[q] # i ELSE i = path
          /\ path' = i
          /\ fd' = [fd EXCEPT ![p] = i]
    /\ lpc' = [lpc EXCEPT ![p] = "flock"]
    /\ UNCHANGED <<attempt, unlinked>>

\* The non-blocking flock succeeds.
LockObtain(p) ==
    /\ lpc[p] = "flock"
    /\ ~Flocked(fd[p])
    /\ lpc' = [lpc EXCEPT ![p] = "critical"]
    /\ UNCHANGED <<path, fd, attempt, unlinked>>

\* The non-blocking flock fails: the file is closed again.
LockBusy(p) ==
    /\ lpc[p] = "flock"
    /\ Flocked(fd[p])
    /\ fd' = [fd EXCEPT ![p] = NoInode]
    /\ lpc' = [lpc EXCEPT ![p] = "failed"]
    /\ UNCHANGED <<path, attempt, unlinked>>

\* There is time left: filelock sleeps and tries again.
LockPoll(p) ==
    /\ lpc[p] = "failed"
    /\ lpc' = [lpc EXCEPT ![p] = "open"]
    /\ UNCHANGED <<path, fd, attempt, unlinked>>

\* Mutant: no timeout at all.
LockTimeout_Never(p) == FALSE /\ UNCHANGED <<path, fd, lpc, attempt, unlinked>>

\* filelock.Timeout: caught in the first lock.acquire, not in the second.
LockTimeout(p) ==
    /\ CanTimeOut
    /\ lpc[p] = "failed"
    /\ lpc' = [lpc EXCEPT ![p] = IF attempt[p] = 1 THEN "unlink" ELSE "raised"]
    /\ UNCHANGED <<path, fd, attempt, unlinked>>

\* os.unlink, which raises FileNotFoundError when another process was faster;
\* then the second lock.acquire begins.
LockUnlink(p) ==
    /\ lpc[p] = "unlink"
    /\ \/ /\ path # NoInode
          /\ path' = NoInode
          /\ unlinked' = TRUE
          /\ lpc' = [lpc EXCEPT ![p] = "open"]
          /\ attempt' = [attempt EXCEPT ![p] = 2]
       \/ /\ path = NoInode
          /\ lpc' = [lpc EXCEPT ![p] = "raised"]
          /\ UNCHANGED <<path, unlinked, attempt>>
    /\ UNCHANGED fd

\* Mutant: the lock file is removed when the lock is released.
LockRelease_Unlinks(p) ==
    /\ lpc[p] = "critical"
    /\ lpc' = [lpc EXCEPT ![p] = "idle"]
    /\ fd' = [fd EXCEPT ![p] = NoInode]
    /\ path' = NoInode
    /\ UNCHANGED <<attempt, unlinked>>

\* Mutant: the lock is not released.
LockRelease_Keeps(p) ==
    /\ lpc[p] = "critical"
    /\ lpc' = [lpc EXCEPT ![p] = "released"]
    /\ UNCHANGED <<path, fd, attempt, unlinked>>

\* The finally clause: unlock and close; the file keeps its name.
LockRelease(p) ==
    /\ lpc[p] = "critical"
    /\ lpc' = [lpc EXCEPT ![p] = "idle"]
    /\ fd' = [fd EXCEPT ![p] = NoInode]
    /\ UNCHANGED <<path, attempt, unlinked>>

\* An exception of the lock itself reaches the caller of the with statement.
LockRaise(p) ==
    /\ lpc[p] = "raised"
    /\ lpc' = [lpc EXCEPT ![p] = "idle"]
    /\ UNCHANGED <<path, fd, attempt, unlinked>>

\* The process is killed; the kernel closes its files.
LockCrash(p) ==
    /\ lpc[p] # "idle"
    /\ lpc' = [lpc EXCEPT ![p] = "idle"]
    /\ fd' = [fd EXCEPT ![p] = NoInode]
    /\ UNCHANGED <<path, attempt, unlinked>>

\* The steps of the lock between entering the with statement and its body.
LockWait(p) ==
    \/ LockOpen(p) \/ LockObtain(p) \/ LockBusy(p)
    \/ LockPoll(p) \/ LockTimeout(p) \/ LockUnlink(p)

LockNext ==
    \E p \in Procs : \/ LockEnter(p) \/ LockWait(p) \/ LockRelease(p)
                     \/ LockRaise(p) \/ LockCrash(p)

LockSpec == LockInit /\ [][LockNext]_lockVars

(***************************************************************************)
(* A process that is not killed keeps executing, the body of the with      *)
(* statement ends, and the clock runs: a poll that fails after the timeout *)
(* raises.  Nothing makes a process enter, and nothing orders the waiters. *)
(***************************************************************************)
LockFairness ==
    \A p \in Procs : /\ WF_lockVars(LockOpen(p))
                     /\ WF_lockVars(LockObtain(p) \/ LockBusy(p))
                     /\ WF_lockVars(LockPoll(p) \/ LockTimeout(p))
                     /\ WF_lockVars(LockUnlink(p))
                     /\ WF_lockVars(LockRelease(p))
                     /\ WF_lockVars(LockRaise(p))
                     /\ SF_lockVars(LockTimeout(p))

LockLiveSpec == LockSpec /\ LockFairness
-----------------------------------------------------------------------------
(***************************************************************************)
(* Until some process gives up waiting and unlinks the lock file, the body *)
(* of file_lock_context runs in at most one process: neither the race      *)
(* between opening the name and locking the inode, nor a process killed    *)
(* anywhere in the protocol, lets a second one in.                         *)
(***************************************************************************)
ExclusiveUntilUnlink ==
    ~unlinked => \A p, q \in Inside : p = q

(***************************************************************************)
(* A process that waits for the lock is not left waiting: with the timeout *)
(* running it gets the lock, gets an exception, or is killed, even if the  *)
(* lock changes hands among the others for ever.                           *)
(***************************************************************************)
WaitEnds ==
    \A p \in Procs : lpc[p] = "open" ~> lpc[p] \in {"critical", "raised", "idle"}

\* The processes that may rely on the lock: nobody, once the file was unlinked.
Protected == IF unlinked THEN {} ELSE Inside

Exclusive == INSTANCE Mutex WITH inside <- Protected

(***************************************************************************)
(* Until the first unlink file_lock_context implements a mutual exclusion  *)
(* lock: processes enter an empty body one by one and leave it by          *)
(* finishing or dying; from the unlink on the lock protects nobody.        *)
(***************************************************************************)
ImplementsMutex == Exclusive!Spec

(***************************************************************************)
(* The inductive invariant.  Before the first unlink every open file is    *)
(* the one the name refers to, and a locked inode has one holder: a second *)
(* process in the body would hold the same inode.                          *)
(***************************************************************************)
OpenFiles ==
    \A p \in Procs : lpc[p] \in {"flock", "critical"} => fd[p] # NoInode

NameIsOpened == ~unlinked => \A p \in Procs : fd[p] \in {NoInode, path}

OneHolderPerInode == \A p, q \in Inside : fd[p] = fd[q] => p = q

UnlinkAfterTimeout ==
    ~CanTimeOut => ~unlinked /\ \A p \in Procs : lpc[p] # "unlink"

LockIInv ==
    LockTypeOK /\ OpenFiles /\ NameIsOpened /\ OneHolderPerInode /\ UnlinkAfterTimeout
=============================================================================
