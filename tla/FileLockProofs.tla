--------------------------- MODULE FileLockProofs ---------------------------
(* Proofs about module FileLock. *)
EXTENDS FileLock, TLAPS

LockStep(p) ==
    LockEnter(p) \/ LockWait(p) \/ LockRelease(p) \/ LockRaise(p) \/ LockCrash(p)

USE LockConstants DEF LockTypeOK, LockPC, lockVars

(***************************************************************************)
(* Every step of file_lock_context, the removal of the lock file and the   *)
(* death of a process included, leaves the lock's state well typed.        *)
(***************************************************************************)
LEMMA LockTypeStep ==
    ASSUME LockTypeOK, [LockNext]_lockVars
    PROVE  LockTypeOK'
<1>1. CASE UNCHANGED lockVars
  BY <1>1
<1>2. ASSUME NEW p \in Procs, LockStep(p) PROVE LockTypeOK'
  <2>1. CASE LockEnter(p)   BY <2>1 DEF LockEnter
  <2>2. CASE LockOpen(p)    BY <2>2 DEF LockOpen
  <2>3. CASE LockObtain(p)  BY <2>3 DEF LockObtain
  <2>4. CASE LockBusy(p)    BY <2>4 DEF LockBusy
  <2>5. CASE LockPoll(p)    BY <2>5 DEF LockPoll
  <2>6. CASE LockTimeout(p) BY <2>6 DEF LockTimeout
  <2>7. CASE LockUnlink(p)  BY <2>7 DEF LockUnlink
  <2>8. CASE LockRelease(p) BY <2>8 DEF LockRelease
  <2>9. CASE LockRaise(p)   BY <2>9 DEF LockRaise
  <2>10. CASE LockCrash(p)  BY <2>10 DEF LockCrash
  <2> QED
    BY <1>2, <2>1, <2>2, <2>3, <2>4, <2>5, <2>6, <2>7, <2>8, <2>9, <2>10 DEF LockStep, LockWait
<1> QED
  BY <1>1, <1>2 DEF LockNext, LockStep

(***************************************************************************)
(* The inductive step: opening the lock file, locking the opened inode,    *)
(* unlinking the name and dying keep every part of LockIInv.               *)
(***************************************************************************)
LEMMA LockIInvStep ==
    ASSUME LockIInv, [LockNext]_lockVars
    PROVE  LockIInv'
<1> USE DEF LockIInv, OpenFiles, NameIsOpened, OneHolderPerInode, UnlinkAfterTimeout, Inside
<1>0. LockTypeOK'
  BY LockTypeStep
<1>1. CASE UNCHANGED lockVars
  BY <1>0, <1>1
<1>2. ASSUME NEW p \in Procs, LockStep(p) PROVE LockIInv'
  <2>1. CASE LockEnter(p)   BY <1>0, <2>1 DEF LockEnter
  <2>2. CASE LockOpen(p)    BY <1>0, <2>2 DEF LockOpen
  <2>3. CASE LockObtain(p)  BY <1>0, <2>3 DEF LockObtain, Flocked
  <2>4. CASE LockBusy(p)    BY <1>0, <2>4 DEF LockBusy
  <2>5. CASE LockPoll(p)    BY <1>0, <2>5 DEF LockPoll
  <2>6. CASE LockTimeout(p) BY <1>0, <2>6 DEF LockTimeout
  <2>7. CASE LockUnlink(p)  BY <1>0, <2>7 DEF LockUnlink
  <2>8. CASE LockRelease(p) BY <1>0, <2>8 DEF LockRelease
  <2>9. CASE LockRaise(p)   BY <1>0, <2>9 DEF LockRaise
  <2>10. CASE LockCrash(p)  BY <1>0, <2>10 DEF LockCrash
  <2> QED
    BY <1>2, <2>1, <2>2, <2>3, <2>4, <2>5, <2>6, <2>7, <2>8, <2>9, <2>10 DEF LockStep, LockWait
<1> QED
  BY <1>1, <1>2 DEF LockNext, LockStep

\* Nobody is in file_lock_context at first: the invariant holds.
LEMMA LockIInvInit == LockInit => LockIInv
  BY DEF LockInit, LockIInv, OpenFiles, NameIsOpened, OneHolderPerInode, UnlinkAfterTimeout, Inside

(***************************************************************************)
(* The invariant's point: as long as nobody has unlinked the lock file, a  *)
(* process in the body excludes every other.                               *)
(***************************************************************************)
LEMMA LockIInvExclusive == LockIInv => ExclusiveUntilUnlink
  BY DEF LockIInv, OpenFiles, NameIsOpened, OneHolderPerInode, ExclusiveUntilUnlink, Inside

\* The lock's state is always well typed, whatever the processes do.
THEOREM LockTypeCorrect == LockSpec => []LockTypeOK
<1>1. LockInit => LockTypeOK
  BY DEF LockInit
<1>2. LockTypeOK /\ [LockNext]_lockVars => LockTypeOK'
  BY LockTypeStep
<1> QED
  BY <1>1, <1>2, PTL DEF LockSpec

(***************************************************************************)
(* For any number of processes, with timeouts and crashes: the body of     *)
(* file_lock_context is exclusive until the first os.unlink.               *)
(***************************************************************************)
THEOREM LockExclusive == LockSpec => []ExclusiveUntilUnlink
<1>1. LockIInv /\ [LockNext]_lockVars => LockIInv'
  BY LockIInvStep
<1> QED
  BY <1>1, LockIInvInit, LockIInvExclusive, PTL DEF LockSpec

(***************************************************************************)
(* For any number of processes, with timeouts and crashes, the lock is a   *)
(* mutual exclusion lock up to the first os.unlink, which is the moment    *)
(* everybody in the body loses its protection.                             *)
(***************************************************************************)
THEOREM LockImplementsMutex == LockSpec => ImplementsMutex
<1>1. LockInit => Exclusive!Init
  BY DEF LockInit, Exclusive!Init, Protected, Inside
<1>2. ASSUME LockIInv, [LockNext]_lockVars PROVE [Exclusive!Next]_Protected
  <2>0. LockTypeOK /\ ExclusiveUntilUnlink
    BY <1>2, LockIInvExclusive DEF LockIInv
  <2>1. CASE UNCHANGED lockVars
    BY <2>1 DEF lockVars, Protected, Inside
  <2>2. CASE unlinked
    \* Nobody is protected, and the file stays unlinked.
    <3>1. unlinked' = TRUE \/ UNCHANGED unlinked
      BY <1>2
      DEF LockNext, lockVars, LockEnter, LockWait, LockOpen, LockObtain, LockBusy, LockPoll,
          LockTimeout, LockUnlink, LockRelease, LockRaise, LockCrash
    <3> QED
      BY <2>2, <3>1 DEF Protected
  <2>3. ASSUME NEW p \in Procs, LockStep(p), ~unlinked
        PROVE  Exclusive!Next \/ UNCHANGED Protected
    <3> USE <2>0, <2>3
    <3>1. CASE LockObtain(p)
      <4>1. Inside = {}
        BY <1>2, <3>1 DEF LockIInv, LockObtain, Flocked, NameIsOpened, OpenFiles, Inside
      <4>2. Inside' = {p} /\ ~unlinked'
        BY <4>1, <3>1 DEF LockObtain, Inside, LockTypeOK
      <4> QED
        BY <4>1, <4>2 DEF Exclusive!Next, Exclusive!Enter, Protected
    <3>2. CASE LockRelease(p) \/ LockCrash(p)
      <4>1. Inside' = Inside \ {p} /\ ~unlinked'
        BY <3>2 DEF LockRelease, LockCrash, Inside, LockTypeOK
      <4> QED
        BY <4>1 DEF Exclusive!Next, Exclusive!Leave, Protected
    <3>3. CASE LockUnlink(p)
      <4>1. Inside' = Inside
        BY <3>3 DEF LockUnlink, Inside, LockTypeOK
      <4>2. CASE Inside = {}
        BY <4>1, <4>2, <3>3 DEF LockUnlink, Protected
      <4>3. CASE Inside # {}
        \* The one process in the body loses its protection.
        <5>1. PICK q \in Procs : Inside = {q}
          BY <4>3 DEF ExclusiveUntilUnlink, Inside
        <5>2. Protected' = {} \/ Protected' = Protected
          BY <4>1, <3>3 DEF LockUnlink, Protected
        <5> QED
          BY <5>1, <5>2 DEF Exclusive!Next, Exclusive!Leave, Protected
      <4> QED
        BY <4>2, <4>3
    <3>4. CASE LockEnter(p) \/ LockRaise(p)
      BY <3>4 DEF LockEnter, LockRaise, Protected, Inside, LockTypeOK
    <3>5. CASE LockOpen(p) \/ LockBusy(p) \/ LockPoll(p) \/ LockTimeout(p)
      BY <3>5 DEF LockOpen, LockBusy, LockPoll, LockTimeout, Protected, Inside, LockTypeOK
    <3> QED
      BY <3>1, <3>2, <3>3, <3>4, <3>5 DEF LockStep, LockWait
  <2> QED
    BY <1>2, <2>1, <2>2, <2>3 DEF LockNext, LockStep
<1>3. LockIInv /\ [LockNext]_lockVars => LockIInv'
  BY LockIInvStep
<1> QED
  BY <1>1, <1>2, <1>3, LockIInvInit, PTL DEF LockSpec, ImplementsMutex, Exclusive!Spec
=============================================================================
