------------------------ MODULE NetworkAssetsProofs ------------------------
(* Proofs about module NetworkAssets. *)
EXTENDS NetworkAssets, FileLockProofs

-----------------------------------------------------------------------------
(* The search for a free asset. *)

\* A network moved up by _set_next_available_ip_network is a network.
LEMMA MovedIsBlock ==
    ASSUME NEW n \in Block, NEW k \in Nat
    PROVE  Moved(n, k) \in Block
<1>1. k * n.size \in Nat
  BY DEF Block
<1>2. n.lo + k * n.size \in Nat
  BY <1>1 DEF Block
<1> QED
  BY <1>2 DEF Moved, Block

(***************************************************************************)
(* What _override_ip_networks_values_if_not_free returns is the base       *)
(* networks moved up, and contains nothing that was allocated.             *)
(***************************************************************************)
LEMMA CidrsAreFree ==
    ASSUME NEW base, NEW allocated,
           NEW c \in override_ip_networks_values_if_not_free(base, allocated)
    PROVE  \A f \in IPFields :
               /\ \E k \in 0 .. MaxIncrements : c[f] = Moved(base[f], k)
               /\ \A x \in allocated : ~Contains(c[f], x)
<1>1. PICK k \in [IPFields -> 0 .. MaxIncrements] :
        /\ c = [f \in IPFields |-> Moved(base[f], k[f])]
        /\ \A f \in IPFields :
             set_next_available_ip_network(base[f], k[f],
                 allocated \cup { Moved(base[g], k[g]) : g \in 1 .. f - 1 })
  BY DEF override_ip_networks_values_if_not_free
<1>2. ASSUME NEW f \in IPFields
      PROVE  \A x \in allocated : ~Contains(c[f], x)
  <2>1. ~is_ip_network_allocated(Moved(base[f], k[f]),
                allocated \cup { Moved(base[g], k[g]) : g \in 1 .. f - 1 })
    BY <1>1 DEF set_next_available_ip_network
  <2> QED
    BY <1>1, <2>1 DEF is_ip_network_allocated
<1> QED
  BY <1>1, <1>2

\* A bridge name that was taken is replaced by one that is not.
LEMMA FreeBridgeIsFree ==
    ASSUME NEW name \in Bridge, NEW prefix \in {"tt", "stt"}, NEW used,
           NEW b \in FreeBridges(name, prefix, used)
    PROVE  b \in Bridge /\ b \notin used
<1>1. CASE name \notin used
  BY <1>1 DEF FreeBridges
<1>2. CASE name \in used
  <2>1. PICK i \in 0 .. MaxIncrements :
          /\ b = [prefix |-> prefix, index |-> i]
          /\ [prefix |-> prefix, index |-> i] \notin used
    BY <1>2 DEF FreeBridges, get_next_available_net_bridge
  <2>2. i \in Nat
    BY AssetConstants
  <2> QED
    BY <2>1, <2>2 DEF Bridge
<1> QED
  BY <1>1, <1>2

\* Both bridge names get returns are free.
LEMMA BridgesAreFree ==
    ASSUME NEW base \in [BridgeFields -> Bridge], NEW used,
           NEW b \in override_network_bridges_values_if_not_free(base, used)
    PROVE  /\ b \in [BridgeFields -> Bridge]
           /\ \A x \in BridgeFields : b[x] \notin used
<1> DEFINE more(c) == used \cup (IF base["primary"] \in used THEN {c} ELSE {})
<1>1. PICK c \in FreeBridges(base["primary"], "tt", used) :
         \E s \in FreeBridges(base["secondary"], "stt", more(c)) :
             b = [primary |-> c, secondary |-> s]
  BY DEF override_network_bridges_values_if_not_free
<1>2. PICK s \in FreeBridges(base["secondary"], "stt", more(c)) :
             b = [primary |-> c, secondary |-> s]
  BY <1>1
<1>3. base["primary"] \in Bridge /\ base["secondary"] \in Bridge
  BY DEF BridgeFields
<1>4. c \in Bridge /\ c \notin used
  BY <1>3, FreeBridgeIsFree
<1>5. s \in Bridge /\ s \notin more(c)
  BY <1>3, FreeBridgeIsFree
<1> QED
  BY <1>2, <1>4, <1>5 DEF BridgeFields
\* The asset that get takes is an asset, made from the base asset.
LEMMA FreeAssetIsAsset ==
    ASSUME NEW base \in Asset, NEW used, NEW names, NEW a \in FreeAssets(base, used, names)
    PROVE  a \in Asset
<1>1. PICK c \in override_ip_networks_values_if_not_free(base.cidr, used),
           b \in override_network_bridges_values_if_not_free(base.bridge, names) :
             a = [cidr |-> c, bridge |-> b]
  BY DEF FreeAssets
<1>2. base.cidr \in [IPFields -> Block] /\ base.bridge \in [BridgeFields -> Bridge]
  BY DEF Asset
<1>3. b \in [BridgeFields -> Bridge]
  BY <1>2, BridgesAreFree
<1>4. c \in [IPFields -> Block]
  <2>1. PICK k \in [IPFields -> 0 .. MaxIncrements] :
          c = [f \in IPFields |-> Moved(base.cidr[f], k[f])]
    BY DEF override_ip_networks_values_if_not_free
  <2>2. ASSUME NEW f \in IPFields PROVE Moved(base.cidr[f], k[f]) \in Block
    BY <1>2, MovedIsBlock, AssetConstants
  <2> QED
    BY <2>1, <2>2
<1> QED
  BY <1>1, <1>3, <1>4 DEF Asset
-----------------------------------------------------------------------------
(* Every step of a session is a step of the lock, or leaves the lock alone. *)

OtherStep(p) ==
    \/ listInterfaces(p) \/ readAddresses(p) \/ readLeases(p) \/ choose(p)
    \/ openForWrite(p, "open", "write") \/ dump(p, "write", "unlock")
    \/ createNetworks(p) \/ destroyNetworks(p) \/ load(p)
    \/ removeTaken(p) \/ openForWrite(p, "r_open", "r_write") \/ dump(p, "r_write", "r_unlock")

SessionStep(p) ==
    \/ get(p) \/ returnAsset(p) \/ release_all(p) \/ endSession(p)
    \/ waitForLock(p) \/ lockRaised(p) \/ crash(p) \/ OtherStep(p)

\* Only entering, waiting, leaving and dying touch the state of the lock.
LEMMA StepsOfTheLock ==
    ASSUME [Next]_vars
    PROVE  [LockNext]_lockVars
<1>1. CASE UNCHANGED vars
  BY <1>1 DEF vars
<1>2. ASSUME NEW p \in Procs, SessionStep(p) PROVE [LockNext]_lockVars
  <2>1. CASE OtherStep(p)
    BY <2>1 DEF OtherStep, listInterfaces, readAddresses, readLeases, choose, openForWrite, dump,
                createNetworks, destroyNetworks, load, removeTaken
  <2>2. CASE get(p) \/ returnAsset(p) \/ release_all(p) \/ endSession(p)
    BY <2>2 DEF LockNext, get, returnAsset, release_all, endSession
  <2>3. CASE waitForLock(p) \/ lockRaised(p) \/ crash(p)
    BY <2>3 DEF LockNext, waitForLock, lockRaised, crash
  <2> QED
    BY <1>2, <2>1, <2>2, <2>3 DEF SessionStep
<1> QED
  BY <1>1, <1>2 DEF Next, SessionStep, OtherStep

-----------------------------------------------------------------------------
(* Type correctness. *)

\* Loading, searching, dumping and every failure keep the state well typed.
LEMMA AssetTypeStep ==
    ASSUME AssetTypeOK, [Next]_vars
    PROVE  AssetTypeOK'
<1> USE DEF Step, Holding, Goto, local
<1>0. LockTypeOK'
  BY StepsOfTheLock, LockTypeStep DEF AssetTypeOK
<1>1. CASE UNCHANGED vars
  BY <1>0, <1>1 DEF vars, assetVars, AssetTypeOK
<1>2. ASSUME NEW p \in Procs, SessionStep(p) PROVE AssetTypeOK'
  <2> USE <1>0 DEF AssetTypeOK
  <2>1. CASE get(p)
    <3>1. BaseAsset[p] \in Asset
      BY AssetConstants
    <3>2. rounds[p] + 1 \in 0 .. MaxRounds
      BY <2>1, AssetConstants DEF get
    <3> QED
      BY <2>1, <3>1, <3>2 DEF get
  <2>2. CASE load(p)
    <3>1. loaded' \in [Procs -> SUBSET Asset]
      BY <2>2 DEF load, LoadFile
    <3>2. UNION { {a.cidr[f] : f \in IPFields} : a \in loaded'[p] } \in SUBSET Block
      BY <3>1 DEF Asset
    <3>3. UNION { {a.bridge[x] : x \in BridgeFields} : a \in loaded'[p] } \in SUBSET Bridge
      BY <3>1 DEF Asset
    <3>4. step' \in [Procs -> Step]
      BY <2>2 DEF load, LoadFile
    <3> QED
      BY <2>2, <3>1, <3>2, <3>3, <3>4 DEF load
  <2>3. CASE listInterfaces(p)
    <3>1. UNION { {a.bridge[x] : x \in BridgeFields} : a \in nets } \in SUBSET Bridge
      BY DEF Asset
    <3> QED
      BY <2>3, <3>1 DEF listInterfaces
  <2>4. CASE readAddresses(p)
    <3>1. ASSUME NEW n \in Block, NEW i \in {1, 2} PROVE Address(n, i) \in Block
      BY DEF Address, Block
    <3>2. UNION { {Address(a.cidr[f], 1) : f \in UpFields} : a \in listed[p] \cap nets } \in SUBSET Block
      BY <3>1, AssetConstants DEF Asset
    <3> QED
      BY <2>4, <3>2 DEF readAddresses
  <2>5. CASE readLeases(p)
    <3>1. ASSUME NEW n \in Block, NEW i \in {1, 2} PROVE Address(n, i) \in Block
      BY DEF Address, Block
    <3>2. ASSUME NEW ns \in SUBSET nets
          PROVE  /\ UNION { {Address(a.cidr[f], 2) : f \in UpFields \cap {1, 2}} : a \in ns } \in SUBSET Block
                 /\ {a.bridge["primary"] : a \in ns} \in SUBSET Bridge
      BY <3>1, AssetConstants DEF Asset, BridgeFields
    <3>3. step' \in [Procs -> Step]
      BY <2>5 DEF readLeases
    <3>4. ips' \in [Procs -> SUBSET Block] /\ bridges' \in [Procs -> SUBSET Bridge]
      <4>1. CASE UNCHANGED <<ips, bridges>>
        BY <4>1
      <4>2. ASSUME NEW ns \in SUBSET nets, NEW xs \in SUBSET Block, NEW bs \in SUBSET Bridge,
                   bridges' = [bridges EXCEPT ![p] = @ \cup bs],
                   ips' = [ips EXCEPT ![p] = @ \cup xs]
            PROVE  ips' \in [Procs -> SUBSET Block] /\ bridges' \in [Procs -> SUBSET Bridge]
        BY <4>2
      <4> QED
        BY <2>5, <3>2, <4>1, <4>2 DEF readLeases
    <3> QED
      BY <2>5, <3>3, <3>4 DEF readLeases
  <2>6. CASE choose(p)
    <3>1. \A a \in FreeAssets(asset[p], ips[p], bridges[p]) : a \in Asset
      BY FreeAssetIsAsset
    <3> QED
      BY <2>6, <3>1 DEF choose
  <2>7. CASE openForWrite(p, "open", "write") \/ openForWrite(p, "r_open", "r_write")
    BY <2>7 DEF openForWrite
  <2>8. CASE dump(p, "write", "unlock") \/ dump(p, "r_write", "r_unlock")
    BY <2>8 DEF dump
  <2>9. CASE returnAsset(p) \/ release_all(p) \/ endSession(p)
    BY <2>9 DEF returnAsset, release_all, endSession
  <2>10. CASE createNetworks(p) \/ destroyNetworks(p)
    BY <2>10 DEF createNetworks, destroyNetworks
  <2>11. CASE removeTaken(p)
    BY <2>11 DEF removeTaken
  <2>12. CASE waitForLock(p)
    BY <2>12 DEF waitForLock, assetVars
  <2>13. CASE lockRaised(p)
    BY <2>13 DEF lockRaised
  <2>14. CASE crash(p)
    BY <2>14 DEF crash
  <2> QED
    BY <1>2, <2>1, <2>2, <2>3, <2>4, <2>5, <2>6, <2>7, <2>8, <2>9, <2>10, <2>11, <2>12, <2>13, <2>14
       DEF SessionStep, OtherStep
<1> QED
  BY <1>1, <1>2 DEF Next, SessionStep, OtherStep

\* So is the state before the first session.
LEMMA AssetTypeInit == Init => AssetTypeOK
<1>1. LockInit => LockTypeOK
  BY LockIInvInit DEF LockIInv
<1>2. 0 \in 0 .. MaxRounds
  BY AssetConstants
<1>3. "done" \in Step
  BY DEF Step
<1> QED
  BY <1>1, <1>2, <1>3, AssetConstants DEF Init, AssetTypeOK

\* The sessions' and the file's state is always well typed.
THEOREM AssetTypeCorrect == Spec => []AssetTypeOK
<1>1. AssetTypeOK /\ [Next]_vars => AssetTypeOK'
  BY AssetTypeStep
<1> QED
  BY <1>1, AssetTypeInit, PTL DEF Spec
-----------------------------------------------------------------------------
(* Disjointness of the assets that are held. *)

\* Conflict does not depend on the order, and an asset conflicts with itself.
LEMMA ConflictSymmetric ==
    /\ \A a, b : Conflict(a, b) => Conflict(b, a)
    /\ \A a : Conflict(a, a)
<1>1. ASSUME NEW a, NEW b, Conflict(a, b) PROVE Conflict(b, a)
  BY <1>1 DEF Conflict, Overlap
<1>2. ASSUME NEW a PROVE Conflict(a, a)
  BY DEF Conflict, BridgeFields
<1> QED
  BY <1>1, <1>2

(***************************************************************************)
(* What choose takes conflicts with no asset whose networks and bridges    *)
(* the search has seen, provided networks that overlap contain each other. *)
(***************************************************************************)
LEMMA ChosenAvoidsSeen ==
    ASSUME UniformPrefixes,
           NEW p \in Procs, NEW q \in Procs, NEW base, NEW a, NEW b, NEW used, NEW names,
           base.bridge \in [BridgeFields -> Bridge],
           base.cidr = BaseAsset[p].cidr,
           a \in FreeAssets(base, used, names),
           \A f \in IPFields : /\ \E k \in 0 .. MaxIncrements : b.cidr[f] = Moved(BaseAsset[q].cidr[f], k)
                               /\ b.cidr[f] \in used,
           \A x \in BridgeFields : b.bridge[x] \in names
    PROVE  ~Conflict(a, b)
<1>1. PICK c \in override_ip_networks_values_if_not_free(base.cidr, used),
           d \in override_network_bridges_values_if_not_free(base.bridge, names) :
             a = [cidr |-> c, bridge |-> d]
  BY DEF FreeAssets
<1>2. a.cidr = c /\ a.bridge = d
  BY <1>1
<1>3. ASSUME NEW f \in IPFields, NEW g \in IPFields PROVE ~Overlap(a.cidr[f], b.cidr[g])
  <2>1. PICK k \in 0 .. MaxIncrements : a.cidr[f] = Moved(BaseAsset[p].cidr[f], k)
    BY <1>2, CidrsAreFree
  <2>2. PICK l \in 0 .. MaxIncrements : b.cidr[g] = Moved(BaseAsset[q].cidr[g], l)
    OBVIOUS
  <2>3. ~Contains(a.cidr[f], b.cidr[g])
    BY <1>2, CidrsAreFree
  <2> QED
    BY <2>1, <2>2, <2>3 DEF UniformPrefixes
<1>4. ASSUME NEW x \in BridgeFields, NEW y \in BridgeFields PROVE a.bridge[x] # b.bridge[y]
  <2>1. d[x] \notin names
    BY BridgesAreFree
  <2> QED
    BY <1>2, <2>1
<1> QED
  BY <1>3, <1>4 DEF Conflict
\* Without a timeout, two processes in the body of file_lock_context are one.
LEMMA OneInside ==
    ASSUME LockIInv, ~CanTimeOut, NEW p \in Procs, NEW q \in Procs,
           lpc[p] = "critical", lpc[q] = "critical"
    PROVE  p = q
  BY LockIInvExclusive DEF LockIInv, UnlinkAfterTimeout, ExclusiveUntilUnlink, Inside

(***************************************************************************)
(* A session changes nothing that belongs to another session, and nothing  *)
(* but a dump makes it a holder.                                           *)
(***************************************************************************)
LEMMA OthersUntouched ==
    ASSUME AssetTypeOK, NEW p \in Procs, SessionStep(p)
    PROVE  /\ \A q \in Procs \ {p} :
                 /\ step'[q] = step[q] /\ asset'[q] = asset[q] /\ taken'[q] = taken[q]
                 /\ loaded'[q] = loaded[q] /\ ips'[q] = ips[q] /\ bridges'[q] = bridges[q]
           /\ \/ UNCHANGED <<file, torn>>
              \/ openForWrite(p, "open", "write") \/ openForWrite(p, "r_open", "r_write")
              \/ dump(p, "write", "unlock") \/ dump(p, "r_write", "r_unlock")
<1> USE DEF AssetTypeOK, Goto, local
<1>1. CASE get(p) \/ load(p)
  BY <1>1 DEF get, load, LoadFile
<1>2. CASE listInterfaces(p) \/ readAddresses(p)
  BY <1>2 DEF listInterfaces, readAddresses
<1>3. CASE readLeases(p)
  BY <1>3 DEF readLeases
<1>4. CASE choose(p)
  BY <1>4 DEF choose
<1>5. CASE openForWrite(p, "open", "write") \/ openForWrite(p, "r_open", "r_write")
  BY <1>5 DEF openForWrite
<1>6. CASE dump(p, "write", "unlock") \/ dump(p, "r_write", "r_unlock")
  BY <1>6 DEF dump
<1>7. CASE returnAsset(p) \/ release_all(p) \/ endSession(p)
  BY <1>7 DEF returnAsset, release_all, endSession
<1>8. CASE createNetworks(p) \/ destroyNetworks(p)
  BY <1>8 DEF createNetworks, destroyNetworks
<1>9. CASE removeTaken(p)
  BY <1>9 DEF removeTaken
<1>10. CASE waitForLock(p) \/ lockRaised(p)
  BY <1>10 DEF waitForLock, lockRaised, assetVars
<1>11. CASE crash(p)
  BY <1>11 DEF crash
<1> QED
  BY <1>1, <1>2, <1>3, <1>4, <1>5, <1>6, <1>7, <1>8, <1>9, <1>10, <1>11 DEF SessionStep, OtherStep

\* A session that holds an asset after a step held it before, or has dumped it.
LEMMA HoldersBefore ==
    ASSUME AssetTypeOK, NEW p \in Procs, SessionStep(p), NEW q \in Holders'
    PROVE  /\ asset'[q] = asset[q]
           /\ q \in Holders \/ (q = p /\ dump(p, "write", "unlock"))
<1> USE DEF AssetTypeOK, Goto, At, local, Holders, Holding
<1>1. CASE q # p
  BY <1>1, OthersUntouched
<1>2. CASE q = p
  <2>1. CASE get(p) \/ load(p)
    BY <1>2, <2>1 DEF get, load, LoadFile
  <2>2. CASE listInterfaces(p) \/ readAddresses(p) \/ readLeases(p)
    BY <1>2, <2>2 DEF listInterfaces, readAddresses, readLeases
  <2>3. CASE choose(p)
    BY <1>2, <2>3 DEF choose
  <2>4. CASE openForWrite(p, "open", "write") \/ openForWrite(p, "r_open", "r_write")
    BY <1>2, <2>4 DEF openForWrite
  <2>5. CASE dump(p, "write", "unlock") \/ dump(p, "r_write", "r_unlock")
    BY <1>2, <2>5 DEF dump
  <2>6. CASE returnAsset(p) \/ release_all(p) \/ endSession(p)
    BY <1>2, <2>6 DEF returnAsset, release_all, endSession
  <2>7. CASE createNetworks(p) \/ destroyNetworks(p)
    BY <1>2, <2>7 DEF createNetworks, destroyNetworks
  <2>8. CASE removeTaken(p)
    BY <1>2, <2>8 DEF removeTaken
  <2>9. CASE waitForLock(p) \/ lockRaised(p) \/ crash(p)
    BY <1>2, <2>9 DEF waitForLock, lockRaised, crash, assetVars
  <2> QED
    BY <1>2, <2>1, <2>2, <2>3, <2>4, <2>5, <2>6, <2>7, <2>8, <2>9, SMT DEF SessionStep, OtherStep
<1> QED
  BY <1>1, <1>2
\* A base asset is itself, moved up zero times.
LEMMA BaseOnGrid ==
    ASSUME NEW p \in Procs, NEW f \in IPFields
    PROVE  \E k \in 0 .. MaxIncrements : BaseAsset[p].cidr[f] = Moved(BaseAsset[p].cidr[f], k)
<1>1. BaseAsset[p].cidr[f] \in Block
  BY AssetConstants DEF Asset
<1>2. BaseAsset[p].cidr[f] = Moved(BaseAsset[p].cidr[f], 0)
  BY <1>1 DEF Moved, Block
<1> QED
  BY <1>2, AssetConstants

\* A step of one process leaves the others where they are in the lock.
LEMMA OtherLocksUntouched ==
    ASSUME AssetTypeOK, NEW p \in Procs, SessionStep(p), NEW q \in Procs \ {p}
    PROVE  lpc'[q] = lpc[q]
<1> USE DEF AssetTypeOK, LockTypeOK, lockVars
<1>1. CASE OtherStep(p)
  BY <1>1 DEF OtherStep, listInterfaces, readAddresses, readLeases, choose, openForWrite, dump,
              createNetworks, destroyNetworks, load, removeTaken
<1>2. CASE get(p) \/ release_all(p)
  BY <1>2 DEF get, release_all, LockEnter
<1>3. CASE returnAsset(p) \/ endSession(p)
  BY <1>3 DEF returnAsset, endSession, LockRelease
<1>4. CASE waitForLock(p)
  BY <1>4 DEF waitForLock, LockWait, LockOpen, LockObtain, LockBusy, LockPoll, LockTimeout, LockUnlink
<1>5. CASE lockRaised(p) \/ crash(p)
  BY <1>5 DEF lockRaised, LockRaise, crash, LockCrash
<1> QED
  BY <1>1, <1>2, <1>3, <1>4, <1>5 DEF SessionStep

(***************************************************************************)
(* What a session keeps to itself: where it is in the lock, that its asset *)
(* comes from its base asset, and that its search has seen its copy of the *)
(* file.                                                                   *)
(***************************************************************************)
LEMMA SessionInvStep ==
    ASSUME AssetTypeOK, LockTypeOK', NEW p \in Procs, SessionStep(p), SessionInv(p)
    PROVE  SessionInv(p)'
<1> USE DEF AssetTypeOK, LockTypeOK, Goto, At, local, Searching, InBody, OutsideLock
<1>1. BodyInLock(p)'
  <2> USE DEF SessionInv, BodyInLock
  <2>1. CASE get(p) \/ release_all(p)
    BY <2>1 DEF get, release_all
  <2>2. CASE load(p)
    BY <2>2 DEF load, LoadFile, lockVars
  <2>3. CASE listInterfaces(p) \/ readAddresses(p) \/ readLeases(p)
    BY <2>3 DEF listInterfaces, readAddresses, readLeases, lockVars
  <2>4. CASE choose(p)
    BY <2>4 DEF choose, lockVars
  <2>5. CASE openForWrite(p, "open", "write") \/ openForWrite(p, "r_open", "r_write")
    BY <2>5 DEF openForWrite, lockVars
  <2>6. CASE dump(p, "write", "unlock") \/ dump(p, "r_write", "r_unlock")
    BY <2>6 DEF dump, lockVars
  <2>7. CASE returnAsset(p) \/ endSession(p)
    BY <2>7 DEF returnAsset, endSession, LockRelease
  <2>8. CASE createNetworks(p) \/ destroyNetworks(p)
    BY <2>8 DEF createNetworks, destroyNetworks, lockVars
  <2>9. CASE removeTaken(p)
    BY <2>9 DEF removeTaken, lockVars
  <2>10. CASE waitForLock(p)
    BY <2>10 DEF waitForLock, assetVars, LockWait, LockOpen, LockObtain, LockBusy, LockPoll, LockTimeout,
       LockUnlink
  <2>11. CASE lockRaised(p) \/ crash(p)
    BY <2>11 DEF lockRaised, LockRaise, crash, LockCrash, lockVars
  <2> QED
    BY <2>1, <2>2, <2>3, <2>4, <2>5, <2>6, <2>7, <2>8, <2>9, <2>10, <2>11 DEF SessionStep, OtherStep
<1>2. OnGrid(p)' /\ TakenIsOwn(p)' /\ OwnAssetInCopy(p)' /\ SearchSeesCopy(p)'
  <2> USE DEF SessionInv, OnGrid, TakenIsOwn, OwnAssetInCopy, SearchSeesCopy
  <2>1. CASE get(p)
    BY <2>1, BaseOnGrid DEF get
  <2>2. CASE load(p)
    <3>1. TakenIsOwn(p)' /\ OnGrid(p)' /\ OwnAssetInCopy(p)'
      BY <2>2 DEF load, LoadFile
    <3>2. SearchSeesCopy(p)'
      BY <2>2 DEF load
    <3> QED
      BY <3>1, <3>2
  <2>3. CASE listInterfaces(p) \/ readAddresses(p) \/ readLeases(p)
    BY <2>3 DEF listInterfaces, readAddresses, readLeases
  <2>4. CASE choose(p)
    <3>1. CASE UNCHANGED <<asset, taken, loaded>> /\ step'[p] = "fail"
      BY <2>4, <3>1 DEF choose
    <3>2. ASSUME NEW a \in FreeAssets(asset[p], ips[p], bridges[p]),
                 asset' = [asset EXCEPT ![p] = a],
                 taken' = [taken EXCEPT ![p] = @ \cup {a}],
                 loaded' = [loaded EXCEPT ![p] = @ \cup {a}],
                 step'[p] = "open"
          PROVE  OnGrid(p)' /\ TakenIsOwn(p)' /\ OwnAssetInCopy(p)' /\ SearchSeesCopy(p)'
      <4>1. \A f \in IPFields : \E k \in 0 .. MaxIncrements : a.cidr[f] = Moved(asset[p].cidr[f], k)
        <5>1. PICK c \in override_ip_networks_values_if_not_free(asset[p].cidr, ips[p]),
                   d \in override_network_bridges_values_if_not_free(asset[p].bridge, bridges[p]) :
                     a = [cidr |-> c, bridge |-> d]
          BY DEF FreeAssets
        <5> QED
          BY <5>1, CidrsAreFree
      <4>2. asset[p] = BaseAsset[p] /\ taken[p] = {}
        BY <2>4 DEF choose
      <4> QED
        BY <3>2, <4>1, <4>2
    <3> QED
      BY <2>4, <3>1, <3>2 DEF choose
  <2>5. CASE openForWrite(p, "open", "write") \/ openForWrite(p, "r_open", "r_write")
    BY <2>5 DEF openForWrite
  <2>6. CASE dump(p, "write", "unlock") \/ dump(p, "r_write", "r_unlock")
    BY <2>6 DEF dump
  <2>7. CASE returnAsset(p) \/ endSession(p) \/ release_all(p)
    BY <2>7 DEF returnAsset, endSession, release_all
  <2>8. CASE createNetworks(p) \/ destroyNetworks(p)
    BY <2>8 DEF createNetworks, destroyNetworks
  <2>9. CASE removeTaken(p)
    BY <2>9 DEF removeTaken
  <2>10. CASE waitForLock(p) \/ lockRaised(p)
    BY <2>10 DEF waitForLock, lockRaised, assetVars
  <2>11. CASE crash(p)
    BY <2>11 DEF crash
  <2> QED
    BY <2>1, <2>2, <2>3, <2>4, <2>5, <2>6, <2>7, <2>8, <2>9, <2>10, <2>11 DEF SessionStep, OtherStep
<1> QED
  BY <1>1, <1>2 DEF SessionInv
\* A step of one session keeps what every session keeps to itself.
LEMMA SessionsStep ==
    ASSUME AssetTypeOK, LockIInv', NEW p \in Procs, SessionStep(p), \A q \in Procs : SessionInv(q)
    PROVE  \A q \in Procs : SessionInv(q)'
<1> SUFFICES ASSUME NEW q \in Procs PROVE SessionInv(q)'
  OBVIOUS
<1>1. CASE q = p
  BY <1>1, SessionInvStep DEF LockIInv
<1>2. CASE q # p
  <2>1. lpc'[q] = lpc[q]
    BY <1>2, OtherLocksUntouched
  <2> QED
    BY <1>2, <2>1, OthersUntouched
       DEF SessionInv, BodyInLock, OnGrid, TakenIsOwn, OwnAssetInCopy, SearchSeesCopy
<1> QED
  BY <1>1, <1>2

(***************************************************************************)
(* A copy of the file stays complete: who could change what is held cannot *)
(* be in the body of the lock at the same time.                            *)
(***************************************************************************)
LEMMA CopyStep ==
    ASSUME ~CanTimeOut, AssetIInv, NEW p \in Procs, SessionStep(p),
           NEW r \in Procs, NEW q \in Holders', HasCopy(r, q)'
    PROVE  asset'[q] \in loaded'[r]
<1> USE DEF AssetIInv, SessionInv, BodyInLock, Searching, InBody
<1>1. CASE r # p
  <2>1. HasCopy(r, q) /\ loaded'[r] = loaded[r]
    BY <1>1, OthersUntouched DEF HasCopy
  <2>2. lpc[r] = "critical"
    BY <2>1 DEF HasCopy
  <2>3. ~dump(p, "write", "unlock")
    BY <1>1, <2>2, OneInside DEF dump, At
  <2> QED
    BY <2>1, <2>3, HoldersBefore DEF CopyIsComplete
<1>2. CASE r = p
  <2> USE DEF AssetTypeOK, Goto, At, local, Holders, Holding, HasCopy
  <2>1. CASE load(p)
    <3>1. ~torn /\ loaded'[p] = file /\ q # p
      BY <1>2, <2>1 DEF load, LoadFile
    <3> QED
      BY <1>2, <3>1, HoldersBefore DEF HeldAssetsRecorded
  <2>2. CASE listInterfaces(p) \/ readAddresses(p) \/ readLeases(p)
    <3>1. HasCopy(p, q) /\ loaded' = loaded /\ q # p
      BY <1>2, <2>2 DEF listInterfaces, readAddresses, readLeases
    <3> QED
      BY <1>2, <3>1, HoldersBefore DEF CopyIsComplete
  <2>3. CASE choose(p)
    <3>1. HasCopy(p, q) /\ loaded[p] \subseteq loaded'[p] /\ q # p
      BY <1>2, <2>3 DEF choose
    <3> QED
      BY <1>2, <3>1, HoldersBefore DEF CopyIsComplete
  <2>4. CASE openForWrite(p, "open", "write") \/ openForWrite(p, "r_open", "r_write")
    <3>1. HasCopy(p, q) /\ loaded' = loaded /\ q # p
      BY <1>2, <2>4 DEF openForWrite
    <3> QED
      BY <1>2, <3>1, HoldersBefore DEF CopyIsComplete
  <2>5. CASE removeTaken(p)
    <3>1. ~torn /\ loaded'[p] = file \ taken[p] /\ q # p
      BY <1>2, <2>5 DEF removeTaken
    <3>2. q \in Holders /\ asset'[q] = asset[q]
      BY <3>1, HoldersBefore
    <3>3. p \in Holders
      BY <2>5 DEF removeTaken
    <3>4. asset[q] # asset[p]
      BY <3>1, <3>2, <3>3, ConflictSymmetric DEF HeldAssetsDisjoint
    <3>5. asset[q] \in file /\ asset[q] \notin taken[p]
      BY <3>1, <3>2, <3>4 DEF HeldAssetsRecorded, TakenIsOwn
    <3> QED
      BY <1>2, <3>1, <3>2, <3>5
  <2>6. CASE get(p) \/ dump(p, "write", "unlock") \/ dump(p, "r_write", "r_unlock")
    BY <1>2, <2>6 DEF get, dump
  <2>7. CASE returnAsset(p) \/ endSession(p) \/ release_all(p)
    BY <1>2, <2>7 DEF returnAsset, endSession, release_all
  <2>8. CASE createNetworks(p) \/ destroyNetworks(p)
    BY <1>2, <2>8 DEF createNetworks, destroyNetworks
  <2>9. CASE lockRaised(p) \/ crash(p)
    BY <1>2, <2>9 DEF lockRaised, crash
  <2>10. CASE waitForLock(p)
    BY <1>2, <2>10 DEF waitForLock, assetVars, CopyIsComplete
  <2> QED
    BY <2>1, <2>2, <2>3, <2>4, <2>5, <2>6, <2>7, <2>8, <2>9, <2>10 DEF SessionStep, OtherStep
<1> QED
  BY <1>1, <1>2

\* The asset a session has chosen stays free until the session has dumped it.
LEMMA ChosenStep ==
    ASSUME ~CanTimeOut, UniformPrefixes, AssetIInv, NEW p \in Procs, SessionStep(p),
           NEW r \in Procs, step'[r] \in {"open", "write"}, NEW q \in Holders'
    PROVE  ~Conflict(asset'[r], asset'[q])
<1> USE DEF AssetIInv, SessionInv, BodyInLock, Searching, InBody
<1>1. CASE r # p
  <2>1. step[r] \in {"open", "write"} /\ asset'[r] = asset[r]
    BY <1>1, OthersUntouched
  <2>2. ~dump(p, "write", "unlock")
    BY <1>1, <2>1, OneInside DEF dump, At
  <2> QED
    BY <2>1, <2>2, HoldersBefore DEF ChosenIsFree
<1>2. CASE r = p
  <2> USE DEF AssetTypeOK, Goto, At, local, Holders, Holding
  <2>1. CASE choose(p)
    <3>1. asset'[p] \in FreeAssets(asset[p], ips[p], bridges[p]) /\ q # p
      BY <1>2, <2>1 DEF choose
    <3>2. q \in Holders /\ asset'[q] = asset[q]
      BY <3>1, HoldersBefore
    <3>3. asset[q] \in loaded[p]
      BY <2>1, <3>2 DEF choose, CopyIsComplete, HasCopy
    <3>4. /\ \A f \in IPFields : asset[q].cidr[f] \in ips[p]
          /\ \A x \in BridgeFields : asset[q].bridge[x] \in bridges[p]
      BY <2>1, <3>3 DEF choose, SearchSeesCopy
    <3>5. \A f \in IPFields : \E k \in 0 .. MaxIncrements :
              asset[q].cidr[f] = Moved(BaseAsset[q].cidr[f], k)
      BY <3>2 DEF OnGrid
    <3>6. asset[p].cidr = BaseAsset[p].cidr /\ asset[p].bridge \in [BridgeFields -> Bridge]
      BY <2>1 DEF choose, OnGrid, Asset
    <3>7. ~Conflict(asset'[p], asset[q])
      BY <3>1, <3>2, <3>4, <3>5, <3>6, ChosenAvoidsSeen
    <3> QED
      BY <1>2, <3>2, <3>7
  <2>2. CASE openForWrite(p, "open", "write") \/ openForWrite(p, "r_open", "r_write")
    <3>1. step[p] = "open" /\ asset' = asset /\ ~dump(p, "write", "unlock")
      BY <1>2, <2>2 DEF openForWrite, dump
    <3> QED
      BY <1>2, <3>1, HoldersBefore DEF ChosenIsFree
  <2>3. CASE waitForLock(p)
    BY <1>2, <2>3 DEF waitForLock, assetVars, ChosenIsFree
  <2>4. CASE get(p) \/ dump(p, "write", "unlock") \/ dump(p, "r_write", "r_unlock")
    BY <1>2, <2>4 DEF get, dump
  <2>5. CASE load(p) \/ listInterfaces(p) \/ readAddresses(p) \/ readLeases(p)
    BY <1>2, <2>5 DEF load, LoadFile, listInterfaces, readAddresses, readLeases
  <2>6. CASE returnAsset(p) \/ endSession(p) \/ release_all(p) \/ removeTaken(p)
    BY <1>2, <2>6 DEF returnAsset, endSession, release_all, removeTaken
  <2>7. CASE createNetworks(p) \/ destroyNetworks(p) \/ lockRaised(p) \/ crash(p)
    BY <1>2, <2>7 DEF createNetworks, destroyNetworks, lockRaised, crash
  <2> QED
    BY <2>1, <2>2, <2>3, <2>4, <2>5, <2>6, <2>7 DEF SessionStep, OtherStep
<1> QED
  BY <1>1, <1>2

(***************************************************************************)
(* The inductive step.                                                     *)
(***************************************************************************)
LEMMA AssetIInvStep ==
    ASSUME ~CanTimeOut, UniformPrefixes, AssetIInv, [Next]_vars
    PROVE  AssetIInv'
<1>1. AssetTypeOK' /\ LockIInv'
  BY AssetTypeStep, StepsOfTheLock, LockIInvStep DEF AssetIInv
<1>2. CASE UNCHANGED vars
  <2> USE <1>2 DEF vars, assetVars, lockVars, AssetIInv, Holders
  <2>1. ASSUME NEW p \in Procs PROVE SessionInv(p)'
    BY DEF SessionInv, BodyInLock, OnGrid, TakenIsOwn, OwnAssetInCopy, SearchSeesCopy
  <2>2. CopyIsComplete' /\ ChosenIsFree'
    BY DEF CopyIsComplete, HasCopy, ChosenIsFree
  <2>3. HeldAssetsRecorded' /\ HeldAssetsDisjoint'
    BY DEF HeldAssetsRecorded, HeldAssetsDisjoint
  <2> QED
    BY <1>1, <2>1, <2>2, <2>3
<1>3. ASSUME NEW p \in Procs, SessionStep(p) PROVE AssetIInv'
  <2>0. AssetTypeOK /\ \A q \in Procs : SessionInv(q)
    BY DEF AssetIInv
  <2>1. \A q \in Procs : SessionInv(q)'
    BY <1>1, <1>3, <2>0, SessionsStep
  <2>2. CopyIsComplete'
    BY <1>3, CopyStep DEF CopyIsComplete
  <2>3. ChosenIsFree'
    BY <1>3, ChosenStep DEF ChosenIsFree
  <2>4. HeldAssetsRecorded'
    <3> SUFFICES ASSUME ~torn', NEW q \in Holders' PROVE asset'[q] \in file'
      BY DEF HeldAssetsRecorded
    <3>1. CASE UNCHANGED <<file, torn>>
      <4>1. CASE dump(p, "write", "unlock") /\ q = p
        BY <2>0, <3>1, <4>1 DEF dump, At, local, SessionInv, OwnAssetInCopy
      <4> QED
        BY <1>3, <2>0, <3>1, <4>1, HoldersBefore DEF AssetIInv, HeldAssetsRecorded
    <3>2. CASE openForWrite(p, "open", "write") \/ openForWrite(p, "r_open", "r_write")
      BY <3>2 DEF openForWrite
    <3>3. CASE dump(p, "write", "unlock")
      <4>1. file' = loaded[p] /\ step[p] = "write"
        BY <3>3 DEF dump, At
      <4>2. asset[p] \in loaded[p]
        BY <2>0, <4>1 DEF SessionInv, OwnAssetInCopy
      <4> QED
        BY <1>3, <2>0, <4>1, <4>2, HoldersBefore DEF AssetIInv, CopyIsComplete, HasCopy
    <3>4. CASE dump(p, "r_write", "r_unlock")
      <4>1. file' = loaded[p] /\ step[p] = "r_write" /\ step'[p] = "r_unlock"
        BY <2>0, <3>4 DEF dump, At, Goto, AssetTypeOK
      <4>2. q # p
        BY <4>1 DEF Holders, Holding
      <4> QED
        BY <1>3, <2>0, <4>1, <4>2, HoldersBefore DEF AssetIInv, CopyIsComplete, HasCopy
    <3> QED
      BY <1>3, <2>0, <3>1, <3>2, <3>3, <3>4, OthersUntouched
  <2>5. HeldAssetsDisjoint'
    <3> SUFFICES ASSUME NEW q \in Holders', NEW r \in Holders', q # r
                 PROVE  ~Conflict(asset'[q], asset'[r])
      BY DEF HeldAssetsDisjoint
    <3>1. asset'[q] = asset[q] /\ asset'[r] = asset[r]
      BY <1>3, <2>0, HoldersBefore
    <3>2. CASE q \in Holders /\ r \in Holders
      BY <3>1, <3>2 DEF AssetIInv, HeldAssetsDisjoint
    <3>3. CASE q \notin Holders
      <4>1. q = p /\ step[p] = "write" /\ r \in Holders
        BY <1>3, <2>0, <3>3, HoldersBefore DEF dump, At
      <4> QED
        BY <3>1, <4>1 DEF AssetIInv, ChosenIsFree
    <3>4. CASE r \notin Holders
      <4>1. r = p /\ step[p] = "write" /\ q \in Holders
        BY <1>3, <2>0, <3>4, HoldersBefore DEF dump, At
      <4> QED
        BY <3>1, <4>1, ConflictSymmetric DEF AssetIInv, ChosenIsFree
    <3> QED
      BY <3>2, <3>3, <3>4
  <2> QED
    BY <1>1, <2>1, <2>2, <2>3, <2>4, <2>5 DEF AssetIInv
<1> QED
  BY <1>2, <1>3 DEF Next, SessionStep, OtherStep

\* No session has begun: the invariant holds.
LEMMA AssetIInvInit == Init => AssetIInv
<1> SUFFICES ASSUME Init PROVE AssetIInv
  OBVIOUS
<1>1. AssetTypeOK
  BY AssetTypeInit
<1>2. LockIInv
  BY LockIInvInit DEF Init
<1>3. ASSUME NEW p \in Procs PROVE SessionInv(p)
  <2>1. step[p] = "done" /\ lpc[p] = "idle" /\ asset[p] = BaseAsset[p] /\ taken[p] = {}
    BY DEF Init, LockInit
  <2>2. ASSUME NEW f \in IPFields
        PROVE  \E k \in 0 .. MaxIncrements : BaseAsset[p].cidr[f] = Moved(BaseAsset[p].cidr[f], k)
    BY BaseOnGrid
  <2> QED
    BY <2>1, <2>2 DEF SessionInv, BodyInLock, OnGrid, TakenIsOwn, OwnAssetInCopy, SearchSeesCopy,
       InBody, Searching, OutsideLock
<1>4. Holders = {}
  BY DEF Init, Holders, Holding
<1> QED
  BY <1>1, <1>2, <1>3, <1>4
     DEF AssetIInv, CopyIsComplete, ChosenIsFree, HeldAssetsRecorded, HeldAssetsDisjoint, Init

(***************************************************************************)
(* For any number of sessions and any base assets of uniform prefix length *)
(* (UniformPrefixes), killed processes included: as long as no wait for    *)
(* the lock times out, assets that are held at the same time share no      *)
(* address and no bridge name.                                             *)
(***************************************************************************)
THEOREM HeldAssetsAreDisjoint ==
    ASSUME ~CanTimeOut, UniformPrefixes
    PROVE  Spec => []HeldAssetsDisjoint
<1>1. AssetIInv /\ [Next]_vars => AssetIInv'
  BY AssetIInvStep
<1>2. AssetIInv => HeldAssetsDisjoint
  BY DEF AssetIInv
<1> QED
  BY <1>1, <1>2, AssetIInvInit, PTL DEF Spec

(***************************************************************************)
(* Under the same assumptions no update of the assets file is ever lost:   *)
(* every asset that is held is in the file whenever the file is readable.  *)
(***************************************************************************)
THEOREM HeldAssetsAreRecorded ==
    ASSUME ~CanTimeOut, UniformPrefixes
    PROVE  Spec => []HeldAssetsRecorded
<1>1. AssetIInv /\ [Next]_vars => AssetIInv'
  BY AssetIInvStep
<1>2. AssetIInv => HeldAssetsRecorded
  BY DEF AssetIInv
<1> QED
  BY <1>1, <1>2, AssetIInvInit, PTL DEF Spec
-----------------------------------------------------------------------------
(* What is in the assets file. *)

\* A session that stops holding its asset has dumped the file without it, or
\* the asset is counted as leaked.
LEMMA HoldersAfter ==
    ASSUME AssetTypeOK, NEW p \in Procs, SessionStep(p), SessionInv(p), NEW q \in Holders
    PROVE  \/ q \in Holders' /\ asset'[q] = asset[q]
           \/ asset[q] \in leaked'
           \/ q = p /\ dump(p, "r_write", "r_unlock")
<1> USE DEF AssetTypeOK, Goto, At, local, Holders, Holding
<1>1. CASE q # p
  BY <1>1, OthersUntouched
<1>2. CASE q = p
  <2>1. CASE get(p) \/ load(p)
    BY <1>2, <2>1 DEF get, load, LoadFile
  <2>2. CASE listInterfaces(p) \/ readAddresses(p) \/ readLeases(p)
    BY <1>2, <2>2 DEF listInterfaces, readAddresses, readLeases
  <2>3. CASE choose(p)
    BY <1>2, <2>3 DEF choose
  <2>4. CASE openForWrite(p, "open", "write") \/ openForWrite(p, "r_open", "r_write")
    BY <1>2, <2>4 DEF openForWrite
  <2>5. CASE dump(p, "write", "unlock") \/ dump(p, "r_write", "r_unlock")
    BY <1>2, <2>5 DEF dump
  <2>6. CASE returnAsset(p) \/ release_all(p) \/ endSession(p)
    BY <1>2, <2>6 DEF returnAsset, release_all, endSession
  <2>7. CASE createNetworks(p) \/ destroyNetworks(p)
    BY <1>2, <2>7 DEF createNetworks, destroyNetworks
  <2>8. CASE removeTaken(p)
    BY <1>2, <2>8 DEF removeTaken, SessionInv, TakenIsOwn
  <2>9. CASE waitForLock(p)
    BY <1>2, <2>9 DEF waitForLock, assetVars
  <2>10. CASE lockRaised(p)
    <3>1. step[p] = "r_lock"
      BY <1>2, <2>10 DEF lockRaised, LockRaise, SessionInv, BodyInLock, InBody, OutsideLock
    <3> QED
      BY <1>2, <2>10, <3>1 DEF lockRaised, SessionInv, TakenIsOwn
  <2>11. CASE crash(p)
    BY <1>2, <2>11 DEF crash
  <2> QED
    BY <2>1, <2>2, <2>3, <2>4, <2>5, <2>6, <2>7, <2>8, <2>9, <2>10, <2>11 DEF SessionStep, OtherStep
<1> QED
  BY <1>1, <1>2

\* What has leaked stays counted.
LEMMA LeakedGrows ==
    ASSUME NEW p \in Procs, SessionStep(p)
    PROVE  leaked \subseteq leaked'
<1>1. CASE OtherStep(p)
  BY <1>1 DEF OtherStep, listInterfaces, readAddresses, readLeases, choose, openForWrite, dump,
              createNetworks, destroyNetworks, load, removeTaken
<1>2. CASE get(p) \/ returnAsset(p) \/ release_all(p) \/ endSession(p)
  BY <1>2 DEF get, returnAsset, release_all, endSession
<1>3. CASE waitForLock(p) \/ lockRaised(p) \/ crash(p)
  BY <1>3 DEF waitForLock, lockRaised, crash, assetVars
<1> QED
  BY <1>1, <1>2, <1>3 DEF SessionStep

\* The owners of what another session has copied stay, or have leaked it.
LEMMA OwnersStep ==
    ASSUME ~CanTimeOut, FileIInv, NEW p \in Procs, SessionStep(p),
           NEW r \in Procs,
           step'[r] \in Searching \cup {"open", "write", "r_open", "r_write"},
           NEW a \in loaded'[r]
    PROVE  \/ a \in leaked'
           \/ \E q \in Holders' : asset'[q] = a /\ (step'[r] \in {"r_open", "r_write"} => q # r)
           \/ step'[r] \in {"open", "write"} /\ a = asset'[r]
<1> USE DEF FileIInv
<1>0. AssetTypeOK /\ SessionInv(p) /\ leaked \subseteq leaked'
  BY LeakedGrows
<1>1. ASSUME NEW q \in Holders, q # p
      PROVE  q \in Holders' /\ asset'[q] = asset[q]
  BY <1>0, <1>1, OthersUntouched DEF Holders
<1>2. CASE r # p
  <2>1. step'[r] = step[r] /\ loaded'[r] = loaded[r] /\ asset'[r] = asset[r]
    BY <1>0, <1>2, OthersUntouched
  <2>2. lpc[r] = "critical"
    BY <2>1 DEF SessionInv, BodyInLock, InBody
  <2>3. ~dump(p, "r_write", "r_unlock")
    BY <1>2, <2>2, OneInside DEF dump, At
  <2>4. ASSUME NEW q \in Holders, asset[q] = a, step[r] \in {"r_open", "r_write"} => q # r
        PROVE  a \in leaked' \/ (q \in Holders' /\ asset'[q] = a)
    BY <1>0, <2>3, <2>4, HoldersAfter
  <2> QED
    BY <1>0, <2>1, <2>4 DEF CopyHasOwners
<1>3. CASE r = p
  <2> USE <1>0, <1>1, <1>3 DEF AssetTypeOK, Goto, At, local, Searching, Holding
  <2>1. CASE load(p)
    <3>1. a \in file /\ p \notin Holders
      BY <2>1 DEF load, LoadFile, Holders
    <3> QED
      BY <2>1, <3>1 DEF EntriesHaveOwner, load, LoadFile
  <2>2. CASE listInterfaces(p) \/ readAddresses(p) \/ readLeases(p)
    <3>1. /\ step[p] \in Searching /\ step'[p] \in Searching \cup {"fail"}
          /\ a \in loaded[p] /\ p \notin Holders
      BY <2>2 DEF listInterfaces, readAddresses, readLeases, Holders
    <3> QED
      BY <3>1 DEF CopyHasOwners
  <2>3. CASE choose(p)
    <3>1. /\ step[p] = "choose" /\ step'[p] = "open" /\ p \notin Holders
          /\ a \in loaded[p] \/ a = asset'[p]
      BY <2>3 DEF choose, Holders
    <3> QED
      BY <3>1 DEF CopyHasOwners
  <2>4. CASE openForWrite(p, "open", "write")
    <3>1. step[p] = "open" /\ step'[p] = "write" /\ a \in loaded[p] /\ asset' = asset /\ p \notin Holders
      BY <2>4 DEF openForWrite, Holders
    <3> QED
      BY <3>1 DEF CopyHasOwners
  <2>5. CASE openForWrite(p, "r_open", "r_write")
    <3>1. step[p] = "r_open" /\ step'[p] = "r_write" /\ a \in loaded[p]
      BY <2>5 DEF openForWrite
    <3> QED
      BY <3>1 DEF CopyHasOwners
  <2>6. CASE removeTaken(p)
    <3>1. step[p] = "r_lock" /\ step'[p] = "r_open" /\ a \in file /\ a \notin taken[p]
      BY <2>6 DEF removeTaken
    <3>2. a # asset[p]
      BY <3>1 DEF SessionInv, TakenIsOwn
    <3> QED
      BY <3>1, <3>2 DEF EntriesHaveOwner
  <2>7. CASE get(p) \/ dump(p, "write", "unlock") \/ dump(p, "r_write", "r_unlock")
    BY <2>7 DEF get, dump
  <2>8. CASE returnAsset(p) \/ endSession(p) \/ release_all(p)
    BY <2>8 DEF returnAsset, endSession, release_all
  <2>9. CASE createNetworks(p) \/ destroyNetworks(p)
    BY <2>9 DEF createNetworks, destroyNetworks
  <2>10. CASE lockRaised(p) \/ crash(p)
    BY <2>10 DEF lockRaised, crash
  <2>11. CASE waitForLock(p)
    <3>1. UNCHANGED <<step, asset, loaded, leaked>> /\ Holders' = Holders
      BY <2>11 DEF waitForLock, assetVars, Holders
    <3> QED
      BY <3>1 DEF CopyHasOwners
  <2> QED
    BY <2>1, <2>2, <2>3, <2>4, <2>5, <2>6, <2>7, <2>8, <2>9, <2>10, <2>11 DEF SessionStep, OtherStep
<1> QED
  BY <1>2, <1>3

\* An entry of the file keeps its owner, or its owner has leaked it.
LEMMA EntriesStep ==
    ASSUME ~CanTimeOut, FileIInv, NEW p \in Procs, SessionStep(p)
    PROVE  EntriesHaveOwner'
<1> SUFFICES ASSUME NEW a \in file' PROVE a \in leaked' \/ \E q \in Holders' : asset'[q] = a
  BY DEF EntriesHaveOwner
<1> USE DEF FileIInv
<1>0. AssetTypeOK /\ SessionInv(p) /\ leaked \subseteq leaked'
  BY LeakedGrows
<1>1. ASSUME NEW q \in Holders, q # p
      PROVE  q \in Holders' /\ asset'[q] = asset[q]
  BY <1>0, <1>1, OthersUntouched DEF Holders
<1>2. CASE openForWrite(p, "open", "write") \/ openForWrite(p, "r_open", "r_write")
  BY <1>2 DEF openForWrite
<1>3. CASE dump(p, "write", "unlock")
  <2>1. step[p] = "write" /\ a \in loaded[p] /\ asset' = asset /\ step'[p] = "unlock"
    BY <1>0, <1>3 DEF dump, At, Goto, local, AssetTypeOK
  <2>2. p \in Holders' /\ p \notin Holders
    BY <2>1 DEF Holders, Holding
  <2> QED
    BY <1>0, <1>1, <2>1, <2>2 DEF CopyHasOwners
<1>4. CASE dump(p, "r_write", "r_unlock")
  <2>1. step[p] = "r_write" /\ a \in loaded[p]
    BY <1>4 DEF dump, At
  <2> QED
    BY <1>0, <1>1, <2>1 DEF CopyHasOwners
<1>5. CASE UNCHANGED <<file, torn>> /\ ~dump(p, "r_write", "r_unlock")
  BY <1>0, <1>5, HoldersAfter DEF EntriesHaveOwner
<1> QED
  BY <1>0, <1>2, <1>3, <1>4, <1>5, OthersUntouched

\* Whoever has emptied the file fills it, unless it is killed.
LEMMA TornStep ==
    ASSUME FileIInv, NEW p \in Procs, SessionStep(p)
    PROVE  TornOnlyInDump'
<1> USE DEF FileIInv, TornOnlyInDump
<1>0. AssetTypeOK /\ SessionInv(p)
  OBVIOUS
<1> USE DEF AssetTypeOK, Goto, At, local
<1>1. CASE get(p) \/ load(p)
  BY <1>0, <1>1 DEF get, load, LoadFile
<1>2. CASE listInterfaces(p) \/ readAddresses(p) \/ readLeases(p)
  BY <1>0, <1>2 DEF listInterfaces, readAddresses, readLeases
<1>3. CASE choose(p)
  BY <1>0, <1>3 DEF choose
<1>4. CASE openForWrite(p, "open", "write") \/ openForWrite(p, "r_open", "r_write")
  BY <1>0, <1>4 DEF openForWrite
<1>5. CASE dump(p, "write", "unlock") \/ dump(p, "r_write", "r_unlock")
  BY <1>0, <1>5 DEF dump
<1>6. CASE returnAsset(p) \/ release_all(p) \/ endSession(p)
  BY <1>0, <1>6 DEF returnAsset, release_all, endSession
<1>7. CASE createNetworks(p) \/ destroyNetworks(p)
  BY <1>0, <1>7 DEF createNetworks, destroyNetworks
<1>8. CASE removeTaken(p)
  BY <1>0, <1>8 DEF removeTaken
<1>9. CASE waitForLock(p)
  BY <1>0, <1>9 DEF waitForLock, assetVars
<1>10. CASE lockRaised(p)
  <2>1. step[p] \notin {"write", "r_write"}
    BY <1>0, <1>10 DEF lockRaised, LockRaise, SessionInv, BodyInLock, InBody
  <2> QED
    BY <1>0, <1>10, <2>1 DEF lockRaised
<1>11. CASE crash(p)
  BY <1>0, <1>11 DEF crash
<1> QED
  BY <1>1, <1>2, <1>3, <1>4, <1>5, <1>6, <1>7, <1>8, <1>9, <1>10, <1>11 DEF SessionStep, OtherStep

LEMMA FileIInvStep ==
    ASSUME ~CanTimeOut, FileIInv, [Next]_vars
    PROVE  FileIInv'
<1>1. AssetTypeOK' /\ LockIInv'
  BY AssetTypeStep, StepsOfTheLock, LockIInvStep DEF FileIInv
<1>2. CASE UNCHANGED vars
  <2> USE <1>2 DEF vars, assetVars, lockVars, FileIInv, Holders
  <2>1. ASSUME NEW p \in Procs PROVE SessionInv(p)'
    BY DEF SessionInv, BodyInLock, OnGrid, TakenIsOwn, OwnAssetInCopy, SearchSeesCopy
  <2>2. CopyHasOwners' /\ EntriesHaveOwner' /\ TornOnlyInDump'
    BY DEF CopyHasOwners, EntriesHaveOwner, TornOnlyInDump
  <2> QED
    BY <1>1, <2>1, <2>2
<1>3. ASSUME NEW p \in Procs, SessionStep(p) PROVE FileIInv'
  <2>1. \A q \in Procs : SessionInv(q)'
    BY <1>1, <1>3, SessionsStep DEF FileIInv
  <2>2. CopyHasOwners'
    BY <1>3, OwnersStep DEF CopyHasOwners
  <2>3. EntriesHaveOwner' /\ TornOnlyInDump'
    BY <1>3, EntriesStep, TornStep
  <2> QED
    BY <1>1, <2>1, <2>2, <2>3 DEF FileIInv
<1> QED
  BY <1>2, <1>3 DEF Next, SessionStep, OtherStep

(***************************************************************************)
(* As long as no wait for the lock times out, for any number of sessions   *)
(* and any base assets: an entry of the assets file has an owner or its    *)
(* session was killed or failed to return it, and only a process killed in *)
(* the middle of json.dump leaves a file that cannot be read.              *)
(***************************************************************************)
THEOREM AssetsFileStaysSound ==
    ASSUME ~CanTimeOut
    PROVE  Spec => []AssetsFileIsSound
<1>1. Init => FileIInv
  <2> SUFFICES ASSUME Init PROVE FileIInv
    OBVIOUS
  <2>1. AssetTypeOK /\ LockIInv /\ \A p \in Procs : SessionInv(p)
    BY AssetIInvInit DEF AssetIInv
  <2>2. CopyHasOwners
    BY DEF Init, CopyHasOwners, Searching
  <2>3. EntriesHaveOwner /\ TornOnlyInDump
    BY DEF Init, EntriesHaveOwner, TornOnlyInDump
  <2> QED
    BY <2>1, <2>2, <2>3 DEF FileIInv
<1>2. FileIInv /\ [Next]_vars => FileIInv'
  BY FileIInvStep
<1>3. FileIInv => AssetsFileIsSound
  BY DEF FileIInv, AssetsFileIsSound
<1> QED
  BY <1>1, <1>2, <1>3, PTL DEF Spec
-----------------------------------------------------------------------------
(* The networks that exist on the hypervisor. *)

\* A network that overlaps one moved from a base network contains its gateway.
LEMMA GatewayInside ==
    ASSUME UniformPrefixes, NetworksHaveHosts,
           NEW p \in Procs, NEW q \in Procs, NEW f \in UpFields, NEW g \in UpFields,
           NEW k \in 0 .. MaxIncrements, NEW l \in 0 .. MaxIncrements,
           Overlap(Moved(BaseAsset[p].cidr[f], k), Moved(BaseAsset[q].cidr[g], l))
    PROVE  Contains(Moved(BaseAsset[p].cidr[f], k), Address(Moved(BaseAsset[q].cidr[g], l), 1))
<1> DEFINE m == Moved(BaseAsset[p].cidr[f], k)
           n == Moved(BaseAsset[q].cidr[g], l)
<1>1. f \in IPFields /\ g \in IPFields
  BY AssetConstants
<1>2. Contains(m, n)
  BY <1>1 DEF UniformPrefixes
<1>3. BaseAsset[p].cidr[f] \in Block /\ BaseAsset[q].cidr[g] \in Block
  BY <1>1, AssetConstants DEF Asset
<1>4. k \in Nat /\ l \in Nat
  BY AssetConstants
<1>5. m \in Block /\ n \in Block
  BY <1>3, <1>4, MovedIsBlock
<1>6. n.size = BaseAsset[q].cidr[g].size
  BY <1>3 DEF Moved, Block
<1>7. n.size >= 2
  BY <1>6 DEF NetworksHaveHosts
<1> HIDE DEF m, n
<1>8. Contains(m, Address(n, 1))
  BY <1>2, <1>5, <1>7 DEF Contains, Address, Block
<1> QED
  BY <1>8 DEF m, n

(***************************************************************************)
(* What choose takes conflicts with no network whose bridges and gateways  *)
(* the search has seen.                                                    *)
(***************************************************************************)
LEMMA ChosenAvoidsSeenNets ==
    ASSUME UniformPrefixes, NetworksHaveHosts,
           NEW p \in Procs, NEW q \in Procs, NEW base, NEW a, NEW n, NEW used, NEW names,
           base.bridge \in [BridgeFields -> Bridge],
           base.cidr = BaseAsset[p].cidr,
           a \in FreeAssets(base, used, names),
           \A f \in IPFields : \E k \in 0 .. MaxIncrements : n.cidr[f] = Moved(BaseAsset[q].cidr[f], k),
           \A f \in UpFields : Address(n.cidr[f], 1) \in used,
           \A x \in BridgeFields : n.bridge[x] \in names
    PROVE  ~NetConflict(a, n)
<1>1. PICK c \in override_ip_networks_values_if_not_free(base.cidr, used),
           d \in override_network_bridges_values_if_not_free(base.bridge, names) :
             a = [cidr |-> c, bridge |-> d]
  BY DEF FreeAssets
<1>2. a.cidr = c /\ a.bridge = d
  BY <1>1
<1>3. ASSUME NEW f \in UpFields, NEW g \in UpFields PROVE ~Overlap(a.cidr[f], n.cidr[g])
  <2>0. f \in IPFields /\ g \in IPFields
    BY AssetConstants
  <2>1. PICK k \in 0 .. MaxIncrements : a.cidr[f] = Moved(BaseAsset[p].cidr[f], k)
    BY <1>2, <2>0, CidrsAreFree
  <2>2. PICK l \in 0 .. MaxIncrements : n.cidr[g] = Moved(BaseAsset[q].cidr[g], l)
    BY <2>0
  <2>3. ~Contains(a.cidr[f], Address(n.cidr[g], 1))
    BY <1>2, <2>0, CidrsAreFree
  <2> QED
    BY <2>1, <2>2, <2>3, GatewayInside
<1>4. ASSUME NEW x \in BridgeFields, NEW y \in BridgeFields PROVE a.bridge[x] # n.bridge[y]
  <2>1. d[x] \notin names
    BY BridgesAreFree
  <2> QED
    BY <1>2, <2>1
<1> QED
  BY <1>3, <1>4 DEF NetConflict

\* Networks come up only when a session that holds its asset creates them.
LEMMA NetsStep ==
    ASSUME AssetTypeOK, NEW p \in Procs, SessionStep(p), NEW n \in nets'
    PROVE  n \in nets \/ (n = asset[p] /\ createNetworks(p))
<1>1. CASE OtherStep(p)
  BY <1>1 DEF OtherStep, listInterfaces, readAddresses, readLeases, choose, openForWrite, dump,
              createNetworks, destroyNetworks, load, removeTaken
<1>2. CASE get(p) \/ returnAsset(p) \/ release_all(p) \/ endSession(p)
  BY <1>2 DEF get, returnAsset, release_all, endSession
<1>3. CASE waitForLock(p) \/ lockRaised(p) \/ crash(p)
  BY <1>3 DEF waitForLock, lockRaised, crash, assetVars
<1> QED
  BY <1>1, <1>2, <1>3 DEF SessionStep

\* An asset that is free of conflicts is free of conflicts among networks.
LEMMA ConflictOfNets ==
    ASSUME NEW a, NEW b, NetConflict(a, b)
    PROVE  Conflict(a, b)
  BY AssetConstants DEF NetConflict, Conflict

\* A step of a session leaves what another one has listed.
LEMMA OthersListed ==
    ASSUME AssetTypeOK, NEW p \in Procs, SessionStep(p), NEW q \in Procs \ {p}
    PROVE  listed'[q] = listed[q]
<1> USE DEF AssetTypeOK, local
<1>1. CASE OtherStep(p)
  BY <1>1 DEF OtherStep, listInterfaces, readAddresses, readLeases, choose, openForWrite, dump,
              createNetworks, destroyNetworks, load, removeTaken
<1>2. CASE get(p) \/ returnAsset(p) \/ release_all(p) \/ endSession(p)
  BY <1>2 DEF get, returnAsset, release_all, endSession
<1>3. CASE waitForLock(p) \/ lockRaised(p) \/ crash(p)
  BY <1>3 DEF waitForLock, lockRaised, crash, assetVars
<1> QED
  BY <1>1, <1>2, <1>3 DEF SessionStep

(***************************************************************************)
(* While a session searches, every network that exists is in its copy of   *)
(* the file or has been seen.                                              *)
(***************************************************************************)
LEMMA SeenStep ==
    ASSUME LocalUri, NetsIInv, NEW p \in Procs, SessionStep(p),
           NEW r \in Procs, step'[r] \in {"addresses", "leases", "choose"}, NEW n \in nets'
    PROVE  n \in loaded'[r] \/ Seen(r, n)'
<1> USE DEF NetsIInv, AssetIInv
<1>0. AssetTypeOK
  OBVIOUS
<1>1. CASE r # p
  <2>1. /\ step'[r] = step[r] /\ loaded'[r] = loaded[r] /\ ips'[r] = ips[r]
        /\ bridges'[r] = bridges[r] /\ listed'[r] = listed[r]
    BY <1>0, <1>1, OthersUntouched, OthersListed
  <2>2. CASE n \in nets
    BY <2>1, <2>2 DEF SearchSeesNets, Seen
  <2>3. CASE n = asset[p] /\ createNetworks(p)
    <3>1. p \in Holders /\ HasCopy(r, p)
      BY <2>1, <2>3 DEF createNetworks, Holders, Holding, HasCopy, Searching
    <3> QED
      BY <2>1, <2>3, <3>1 DEF CopyIsComplete
  <2> QED
    BY <1>0, <2>2, <2>3, NetsStep
<1>2. CASE r = p
  <2> USE <1>2 DEF AssetTypeOK, Goto, At, local
  <2>1. CASE listInterfaces(p)
    BY <2>1 DEF listInterfaces, Seen
  <2>2. CASE readAddresses(p)
    <3>1. n \in loaded[p] \/ Seen(p, n)
      BY <2>2 DEF readAddresses, SearchSeesNets
    <3>2. CASE n \in loaded[p]
      BY <2>2, <3>2 DEF readAddresses
    <3>3. CASE Seen(p, n)
      <4>1. n \in listed[p] \cap nets /\ \A x \in BridgeFields : n.bridge[x] \in bridges[p]
        BY <2>2, <3>3 DEF readAddresses, Seen
      <4>2. \A f \in UpFields : Address(n.cidr[f], 1) \in ips'[p]
        BY <2>2, <4>1 DEF readAddresses
      <4>3. bridges' = bridges /\ step'[p] = "leases"
        BY <2>2 DEF readAddresses
      <4> QED
        BY <4>1, <4>2, <4>3 DEF Seen
    <3> QED
      BY <3>1, <3>2, <3>3
  <2>3. CASE readLeases(p)
    <3>1. /\ step[p] = "leases" /\ step'[p] = "choose" /\ n \in nets /\ loaded' = loaded
          /\ ips[p] \subseteq ips'[p] /\ bridges[p] \subseteq bridges'[p]
      BY <2>3 DEF readLeases
    <3> QED
      BY <3>1 DEF SearchSeesNets, Seen
  <2>4. CASE waitForLock(p)
    BY <2>4 DEF waitForLock, assetVars, SearchSeesNets, Seen
  <2>5. CASE get(p) \/ load(p)
    BY <2>5 DEF get, load, LoadFile
  <2>6. CASE choose(p)
    BY <2>6 DEF choose
  <2>7. CASE openForWrite(p, "open", "write") \/ openForWrite(p, "r_open", "r_write")
    BY <2>7 DEF openForWrite
  <2>8. CASE dump(p, "write", "unlock") \/ dump(p, "r_write", "r_unlock")
    BY <2>8 DEF dump
  <2>9. CASE returnAsset(p) \/ endSession(p) \/ release_all(p) \/ removeTaken(p)
    BY <2>9 DEF returnAsset, endSession, release_all, removeTaken
  <2>10. CASE createNetworks(p) \/ destroyNetworks(p) \/ lockRaised(p) \/ crash(p)
    BY <2>10 DEF createNetworks, destroyNetworks, lockRaised, crash
  <2> QED
    BY <2>1, <2>2, <2>3, <2>4, <2>5, <2>6, <2>7, <2>8, <2>9, <2>10 DEF SessionStep, OtherStep
<1> QED
  BY <1>1, <1>2

\* An asset that met no network when it was chosen meets none until it is used.
LEMMA MeetsNoNetStep ==
    ASSUME UniformPrefixes, NetworksHaveHosts, NetsIInv, NEW p \in Procs, SessionStep(p),
           NEW r \in Procs, step'[r] \in {"open", "write", "unlock", "have"}, NEW n \in nets'
    PROVE  ~NetConflict(asset'[r], n)
<1> USE DEF NetsIInv, AssetIInv
<1>0. AssetTypeOK
  OBVIOUS
<1>1. CASE r # p
  <2>1. step'[r] = step[r] /\ asset'[r] = asset[r]
    BY <1>0, <1>1, OthersUntouched
  <2>2. CASE n \in nets
    BY <2>1, <2>2 DEF ChosenMeetsNoNet
  <2>3. CASE n = asset[p] /\ createNetworks(p)
    <3>1. p \in Holders
      BY <2>3 DEF createNetworks, Holders, Holding
    <3>2. ~Conflict(asset[r], asset[p])
      BY <1>1, <2>1, <3>1 DEF ChosenIsFree, HeldAssetsDisjoint, Holders, Holding
    <3> QED
      BY <2>1, <2>3, <3>2, ConflictOfNets
  <2> QED
    BY <1>0, <2>2, <2>3, NetsStep
<1>2. CASE r = p
  <2> USE <1>2 DEF AssetTypeOK, Goto, At, local
  <2>1. CASE choose(p)
    <3>1. asset'[p] \in FreeAssets(asset[p], ips[p], bridges[p]) /\ n \in nets /\ step[p] = "choose"
      BY <2>1 DEF choose
    <3>2. PICK q \in Procs : \A f \in IPFields : \E k \in 0 .. MaxIncrements :
             n.cidr[f] = Moved(BaseAsset[q].cidr[f], k)
      BY <3>1 DEF NetsOnGrid
    <3>3. asset[p].cidr = BaseAsset[p].cidr /\ asset[p].bridge \in [BridgeFields -> Bridge]
      BY <3>1 DEF SessionInv, OnGrid, Searching, Asset
    <3>4. CASE n \in loaded[p]
      <4>1. /\ \A f \in IPFields : n.cidr[f] \in ips[p]
            /\ \A x \in BridgeFields : n.bridge[x] \in bridges[p]
        BY <3>1, <3>4 DEF SessionInv, SearchSeesCopy, Searching
      <4>2. ~Conflict(asset'[p], n)
        BY <3>1, <3>2, <3>3, <4>1, ChosenAvoidsSeen
      <4> QED
        BY <4>2, ConflictOfNets
    <3>5. CASE Seen(p, n)
      <4>1. /\ \A f \in UpFields : Address(n.cidr[f], 1) \in ips[p]
            /\ \A x \in BridgeFields : n.bridge[x] \in bridges[p]
        BY <3>1, <3>5 DEF Seen
      <4> QED
        BY <3>1, <3>2, <3>3, <4>1, ChosenAvoidsSeenNets
    <3> QED
      BY <3>1, <3>4, <3>5 DEF SearchSeesNets
  <2>2. CASE openForWrite(p, "open", "write") \/ openForWrite(p, "r_open", "r_write")
    BY <2>2 DEF openForWrite, ChosenMeetsNoNet
  <2>3. CASE dump(p, "write", "unlock") \/ dump(p, "r_write", "r_unlock")
    BY <2>3 DEF dump, ChosenMeetsNoNet
  <2>4. CASE returnAsset(p)
    BY <2>4 DEF returnAsset, ChosenMeetsNoNet
  <2>5. CASE waitForLock(p)
    BY <2>5 DEF waitForLock, assetVars, ChosenMeetsNoNet
  <2>6. CASE get(p) \/ load(p)
    BY <2>6 DEF get, load, LoadFile
  <2>7. CASE listInterfaces(p) \/ readAddresses(p) \/ readLeases(p)
    BY <2>7 DEF listInterfaces, readAddresses, readLeases
  <2>8. CASE endSession(p) \/ release_all(p) \/ removeTaken(p)
    BY <2>8 DEF endSession, release_all, removeTaken
  <2>9. CASE createNetworks(p) \/ destroyNetworks(p) \/ lockRaised(p) \/ crash(p)
    BY <2>9 DEF createNetworks, destroyNetworks, lockRaised, crash
  <2> QED
    BY <2>1, <2>2, <2>3, <2>4, <2>5, <2>6, <2>7, <2>8, <2>9 DEF SessionStep, OtherStep
<1> QED
  BY <1>1, <1>2

LEMMA NetsIInvStep ==
    ASSUME ~CanTimeOut, UniformPrefixes, NetworksHaveHosts, LocalUri, NetsIInv, [Next]_vars
    PROVE  NetsIInv'
<1>1. AssetIInv'
  BY AssetIInvStep DEF NetsIInv
<1>2. CASE UNCHANGED vars
  BY <1>1, <1>2 DEF vars, assetVars, NetsIInv, NetsOnGrid, SearchSeesNets, Seen, ChosenMeetsNoNet
<1>3. ASSUME NEW p \in Procs, SessionStep(p) PROVE NetsIInv'
  <2>1. NetsOnGrid'
    <3>1. AssetTypeOK /\ SessionInv(p) /\ NetsOnGrid
      BY DEF NetsIInv, AssetIInv
    <3>2. \A f \in IPFields : \E k \in 0 .. MaxIncrements :
              asset[p].cidr[f] = Moved(BaseAsset[p].cidr[f], k)
      BY <3>1 DEF SessionInv, OnGrid
    <3> QED
      BY <1>3, <3>1, <3>2, NetsStep DEF NetsOnGrid
  <2>2. SearchSeesNets'
    BY <1>3, SeenStep DEF SearchSeesNets
  <2>3. ChosenMeetsNoNet'
    BY <1>3, MeetsNoNetStep DEF ChosenMeetsNoNet
  <2> QED
    BY <1>1, <2>1, <2>2, <2>3 DEF NetsIInv
<1> QED
  BY <1>2, <1>3 DEF Next, SessionStep, OtherStep

(***************************************************************************)
(* On the hypervisor's own host (LocalUri), as long as no wait for the     *)
(* lock times out and for base assets of uniform prefixes: the networks of *)
(* an asset that was just handed out meet no network that exists, be it of *)
(* a live session or left behind by one that ended or was killed.          *)
(***************************************************************************)
THEOREM FreshNetworksAreFree ==
    ASSUME ~CanTimeOut, UniformPrefixes, NetworksHaveHosts, LocalUri
    PROVE  Spec => []FreshNetworksFree
<1>1. Init => NetsIInv
  <2> SUFFICES ASSUME Init PROVE NetsIInv
    OBVIOUS
  <2>1. nets = {}
    BY DEF Init
  <2> QED
    BY <2>1, AssetIInvInit DEF NetsIInv, NetsOnGrid, SearchSeesNets, ChosenMeetsNoNet
<1>2. NetsIInv /\ [Next]_vars => NetsIInv'
  BY NetsIInvStep
<1>3. NetsIInv => FreshNetworksFree
  BY DEF NetsIInv, ChosenMeetsNoNet, FreshNetworksFree
<1> QED
  BY <1>1, <1>2, <1>3, PTL DEF Spec
-----------------------------------------------------------------------------
(* The pool of assets that get and release_all implement. *)

\* What a session holds is not the mark of holding nothing.
LEMMA AssetIsNotNone == NoAsset \notin Asset
<1>1. DOMAIN NoAsset.cidr = {}
  BY DEF NoAsset
<1>2. \A a \in Asset : DOMAIN a.cidr = IPFields
  BY DEF Asset
<1>3. 1 \in IPFields
  BY DEF IPFields
<1> QED
  BY <1>1, <1>2, <1>3

\* Every step of a session takes an asset, returns it, or does not touch the pool.
LEMMA PoolStep ==
    ASSUME AssetIInv, [Next]_vars
    PROVE  [Pool!Next]_Held
<1>0. AssetTypeOK
  BY DEF AssetIInv
<1>1. CASE UNCHANGED vars
  BY <1>1 DEF vars, assetVars, Held, Holders
<1>2. ASSUME NEW p \in Procs, SessionStep(p) PROVE [Pool!Next]_Held
  <2>1. ASSUME NEW q \in Procs, q # p PROVE Held'[q] = Held[q]
    BY <1>0, <1>2, <2>1, OthersUntouched DEF Held, Holders
  <2>2. Held' = [Held EXCEPT ![p] = Held'[p]]
    BY <2>1 DEF Held
  <2>3. Held[p] = IF p \in Holders THEN asset[p] ELSE NoAsset
    BY DEF Held
  <2>4. Held'[p] = IF p \in Holders' THEN asset'[p] ELSE NoAsset
    BY DEF Held
  <2>5. asset[p] # NoAsset /\ asset'[p] # NoAsset
    BY <1>0, <1>2, AssetIsNotNone, AssetTypeStep DEF AssetTypeOK, Next, SessionStep, OtherStep
  <2>6. CASE p \in Holders' /\ p \notin Holders
    <3>1. asset'[p] = asset[p] /\ step[p] = "write"
      BY <1>0, <1>2, <2>6, HoldersBefore DEF dump, At
    <3>2. ASSUME NEW q \in Procs \ {p}, Held[q] # NoAsset
          PROVE  ~Conflict(Held'[p], Held[q])
      <4>1. q \in Holders /\ Held[q] = asset[q]
        BY <3>2 DEF Held
      <4> QED
        BY <2>4, <2>6, <3>1, <4>1 DEF AssetIInv, ChosenIsFree
    <3>3. Pool!Take(p)
      BY <2>2, <2>3, <2>4, <2>5, <2>6, <3>2 DEF Pool!Take
    <3> QED
      BY <3>3 DEF Pool!Next
  <2>7. CASE p \notin Holders' /\ p \in Holders
    <3>1. Pool!Return(p)
      BY <2>2, <2>3, <2>4, <2>5, <2>7 DEF Pool!Return
    <3> QED
      BY <3>1 DEF Pool!Next
  <2>8. CASE p \in Holders' <=> p \in Holders
    <3>1. Held'[p] = Held[p]
      BY <1>0, <1>2, <2>3, <2>4, <2>8, HoldersBefore
    <3> QED
      BY <2>1, <3>1 DEF Held
  <2> QED
    BY <2>6, <2>7, <2>8
<1> QED
  BY <1>1, <1>2 DEF Next, SessionStep, OtherStep

(***************************************************************************)
(* As long as no wait for the lock times out, and for base assets of       *)
(* uniform prefixes, get and release_all implement the pool of assets: an  *)
(* asset is handed out free of conflicts, does not change in the hands of  *)
(* its session, and leaves them when the session returns it, fails or is   *)
(* killed.                                                                 *)
(***************************************************************************)
THEOREM AssetsImplementPool ==
    ASSUME ~CanTimeOut, UniformPrefixes
    PROVE  Spec => ImplementsPool
<1>1. Init => Pool!Init
  BY DEF Init, Pool!Init, Held, Holders, Holding
<1>2. AssetIInv /\ [Next]_vars => [Pool!Next]_Held
  BY PoolStep
<1>3. AssetIInv /\ [Next]_vars => AssetIInv'
  BY AssetIInvStep
<1> QED
  BY <1>1, <1>2, <1>3, AssetIInvInit, PTL DEF Spec, ImplementsPool, Pool!Spec
=============================================================================
