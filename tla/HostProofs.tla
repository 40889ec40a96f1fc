----------------------------- MODULE HostProofs -----------------------------
(***************************************************************************)
(* Proofs about what the sessions of a hypervisor share: the iptables      *)
(* rules, /etc/hosts, containerized servers and iSCSI targets.  Each part  *)
(* has an inductive invariant; the specification that composes them is in  *)
(* MCHypervisor, and HypervisorProofs draws the conclusions about it.      *)
(***************************************************************************)
EXTENDS HostNat, HostNames, HostServers, IscsiTarget, TLAPS

(***************************************************************************)
(* The rules of NatController.                                             *)
(***************************************************************************)

\* The mark in a rule tells whose rule it is, the chain of which loop.
LEMMA RulesAreOwn ==
    ASSUME NEW s \in NatSessions
    PROVE  /\ \A outputs \in SUBSET NatOutputs :
                NatRules(s, outputs) \subseteq RulesOf(s) \ MarkRules(s)
           /\ MarkRules(s) \subseteq RulesOf(s) /\ RulesOf(s) \subseteq NatRule
           /\ \A t \in NatSessions \ {s} : RulesOf(s) \cap RulesOf(t) = {}
<1>1. \A t \in NatSessions \ {s} : NatMark(s) # NatMark(t)
  BY NatAssumption DEF NatMark
<1>2. RulesOf(s) \subseteq NatRule
  BY DEF NatRule
<1> QED
  BY <1>1, <1>2 DEF RulesOf, MarkRules, NatRules

\* A loop takes its rules one by one, whichever comes first.
LEMMA FirstIsOne == \A todo : todo # {} => FirstOf(todo) \in todo
  BY DEF FirstOf

\* What the loops of a session are about are its own rules.
LEMMA LoopsAreOwn ==
    ASSUME NatTypeOK, NEW s \in NatSessions
    PROVE  LoopRules(s) \subseteq RulesOf(s) /\ Needed(s) \subseteq RulesOf(s)
<1>1. natSeen[s] \subseteq NatOutputs
  BY DEF NatTypeOK
<1> QED
  BY <1>1, RulesAreOwn DEF LoopRules, Needed

\* A session is not concerned by a step that leaves its place and its rules
\* alone: only more may be lost.
LEMMA NatFrame ==
    ASSUME NatTypeOK, NEW t \in NatSessions, NatSessionInv(t),
           natPc'[t] = natPc[t], natTodo'[t] = natTodo[t], natChecked'[t] = natChecked[t],
           natSeen'[t] = natSeen[t], natLost \subseteq natLost',
           \A r \in RulesOf(t) : natRules'[r] = natRules[r]
    PROVE  NatSessionInv(t)'
<1>1. LoopRules(t)' = LoopRules(t) /\ Needed(t)' = Needed(t) /\ NatCurrent(t)' = NatCurrent(t)
  BY DEF LoopRules, Needed, NatCurrent, NatRules, MarkRules
<1>2. NatPresent(t)' = NatPresent(t) /\ Tolerated(t) \subseteq Tolerated(t)'
  BY DEF NatPresent, Tolerated
<1>3. natTodo[t] # {} => NatCurrent(t) \in RulesOf(t)
  BY FirstIsOne, LoopsAreOwn DEF NatSessionInv, NatCurrent
<1>4. natChecked[t] # "no" =>
        /\ natTodo[t] # {}
        /\ IF natChecked[t] = "present" THEN natRules'[NatCurrent(t)] > 0
           ELSE natRules'[NatCurrent(t)] = 0 \/ NatCurrent(t) \in natLost'
  BY <1>3 DEF NatSessionInv
<1>5. \A r \in Needed(t) : natRules'[r] > 0
  BY LoopsAreOwn DEF NatSessionInv
<1> QED
  BY <1>1, <1>2, <1>4, <1>5 DEF NatSessionInv

\* The loop of a session that begins, and its rules at that moment.
LEMMA NextLoopInv ==
    ASSUME NatIInv, NEW s \in NatSessions, nat_next_loop(s)
    PROVE  NatIInv'
<1> USE DEF NatIInv
<1>1. natRoutes \subseteq NatOutputs /\ NatRules(s, natRoutes) \subseteq NatRule /\ MarkRules(s) \subseteq NatRule
  BY RulesAreOwn DEF NatTypeOK
<1>2. NatRules(s, NatOutputs \ natRoutes) \subseteq NatRule
  BY RulesAreOwn
<1>3. NatTypeOK'
  BY <1>1, <1>2 DEF NatTypeOK, nat_next_loop
<1>4. ASSUME NEW t \in NatSessions \ {s} PROVE NatSessionInv(t)'
  <2>1. /\ natPc'[t] = natPc[t] /\ natTodo'[t] = natTodo[t] /\ natChecked'[t] = natChecked[t]
        /\ natSeen'[t] = natSeen[t] /\ natLost \subseteq natLost' /\ natRules' = natRules
    BY DEF nat_next_loop, NatTypeOK
  <2> QED
    BY <2>1, NatFrame
<1>5. NatSessionInv(s)'
  <2>0. natTodo[s] = {} /\ NatSessionInv(s) /\ UNCHANGED <<natRules, natChecked>> /\ natChecked[s] = "no"
    BY DEF nat_next_loop, NatSessionInv, NatTypeOK
  <2>1. NatPresent(s)' = NatPresent(s) /\ NatPresent(s) \subseteq RulesOf(s)
    BY <2>0 DEF NatPresent
  <2> USE DEF NatTypeOK, nat_next_loop, NatSessionInv, LoopRules, Needed, Tolerated
  <2>2. CASE natPc[s] = "idle"
    BY <2>0, <2>1, <2>2, RulesAreOwn
  <2>3. CASE natPc[s] = "addNat"
    BY <2>0, <2>1, <2>3, RulesAreOwn
  <2>4. CASE natPc[s] = "addMark"
    BY <2>0, <2>1, <2>4, RulesAreOwn
  <2>5. CASE natPc[s] = "up"
    <3>1. natPc'[s] = "delMark" /\ natTodo'[s] = MarkRules(s) /\ natLost' = natLost
      BY <2>5
    <3>2. RulesOf(s) = NatRules(s, NatOutputs) \cup MarkRules(s)
      BY DEF RulesOf
    <3> QED
      BY <2>0, <2>1, <2>5, <3>1, <3>2
  <2>6. CASE natPc[s] = "delMark"
    <3>1. /\ natPc'[s] = "delNat" /\ natTodo'[s] = NatRules(s, natRoutes)
          /\ natLost' = natLost \cup NatRules(s, NatOutputs \ natRoutes)
      BY <2>6
    <3>2. NatRules(s, NatOutputs) \subseteq NatRules(s, natRoutes) \cup NatRules(s, NatOutputs \ natRoutes)
      BY DEF NatRules
    <3>3. NatRules(s, natRoutes) \subseteq NatRules(s, NatOutputs)
      BY <1>1 DEF NatRules
    <3>4. NatPresent(s) \subseteq NatRules(s, NatOutputs) \cup natLost
      BY <2>0, <2>6
    <3>5. NatPresent(s)' \subseteq Tolerated(s)'
      <4>1. Tolerated(s)' = natLost' \cup natTodo'[s]
        BY <3>1
      <4> HIDE DEF NatTypeOK, nat_next_loop, NatSessionInv, LoopRules, Needed, Tolerated, NatIInv
      <4> QED
        BY <2>1, <3>1, <3>2, <3>4, <4>1
    <3>6. natTodo'[s] \subseteq LoopRules(s)' /\ Needed(s)' = {}
      BY <3>1, <3>3
    <3> QED
      BY <2>0, <3>5, <3>6
  <2>7. CASE natPc[s] = "delNat"
    BY <2>0, <2>1, <2>7
  <2> QED
    BY <2>2, <2>3, <2>4, <2>5, <2>6, <2>7
<1>6. natRules' = natRules /\ natLost \subseteq natLost'
  BY DEF nat_next_loop
<1> QED
  BY <1>3, <1>4, <1>5, <1>6

\* --check: the answer is right when it is given, or the check has failed.
LEMMA CheckInv ==
    ASSUME NatIInv, NEW s \in NatSessions, does_rule_exist(s)
    PROVE  NatIInv'
<1> USE DEF NatIInv
<1>0. NatCurrent(s) \in natTodo[s] /\ natTodo[s] \subseteq NatRule
  BY FirstIsOne DEF does_rule_exist, NatCurrent, NatTypeOK
<1>1. NatTypeOK' /\ natRules' = natRules /\ natLost \subseteq natLost'
  BY <1>0, NatAssumption DEF NatTypeOK, does_rule_exist
<1>2. ASSUME NEW t \in NatSessions \ {s} PROVE NatSessionInv(t)'
  <2>1. /\ natPc'[t] = natPc[t] /\ natTodo'[t] = natTodo[t] /\ natChecked'[t] = natChecked[t]
        /\ natSeen'[t] = natSeen[t] /\ natLost \subseteq natLost' /\ natRules' = natRules
    BY DEF does_rule_exist, NatTypeOK
  <2> QED
    BY <2>1, NatFrame
<1>3. NatSessionInv(s)'
  <2>1. /\ LoopRules(s)' = LoopRules(s) /\ Needed(s)' = Needed(s) /\ NatCurrent(s)' = NatCurrent(s)
        /\ NatPresent(s)' = NatPresent(s) /\ Tolerated(s) \subseteq Tolerated(s)'
    BY DEF does_rule_exist, LoopRules, Needed, NatCurrent, NatRules, MarkRules, NatPresent, Tolerated
  <2>2. \/ natChecked'[s] = IF natRules[NatCurrent(s)] > 0 THEN "present" ELSE "absent"
        \/ (natChecked'[s] = "absent" /\ NatCurrent(s) \in natLost')
    BY DEF does_rule_exist, NatTypeOK
  <2>3. natRules[NatCurrent(s)] \in Nat
    BY <1>0 DEF NatTypeOK
  <2> QED
    BY <1>1, <2>1, <2>2, <2>3 DEF does_rule_exist, NatSessionInv
<1> QED
  BY <1>1, <1>2, <1>3

\* What _add_rule and _remove_rule do to the table: the rule is there
\* afterwards, or it is not or its check had failed, and no other rule changes.
LEMMA RuleStep ==
    ASSUME NatIInv, NEW s \in NatSessions, insert_rule(s) \/ delete_rule(s),
           NEW c, c = NatCurrent(s)
    PROVE  /\ c \in natTodo[s] /\ c \in LoopRules(s) /\ c \in RulesOf(s) /\ c \in NatRule
           /\ natRules' \in [NatRule -> Nat]
           /\ \A r \in NatRule \ {c} : natRules'[r] = natRules[r]
           /\ insert_rule(s) => natRules'[c] = 1 \/ (natRules'[c] > 0 /\ c \in natLost)
           /\ delete_rule(s) => natRules'[c] = 0 \/ c \in natLost
           /\ natTodo' = [natTodo EXCEPT ![s] = @ \ {c}]
           /\ natChecked' = [natChecked EXCEPT ![s] = "no"]
           /\ UNCHANGED <<natRoutes, natPc, natSeen, natLost, natEvents>>
<1> USE DEF NatIInv
<1>1. natChecked[s] # "no" /\ natTodo[s] # {}
  BY DEF insert_rule, delete_rule, NatSessionInv
<1>2. c \in natTodo[s] /\ c \in LoopRules(s) /\ c \in RulesOf(s) /\ c \in NatRule
  BY <1>1, FirstIsOne, LoopsAreOwn, RulesAreOwn DEF NatSessionInv, NatCurrent
<1>3. /\ natRules[c] \in Nat /\ (natRules[c] <= 1 \/ c \in natLost)
      /\ natChecked[s] \in {"present", "absent"}
      /\ natChecked[s] = "present" => natRules[c] > 0
      /\ natChecked[s] = "absent" => natRules[c] = 0 \/ c \in natLost
  BY <1>1, <1>2 DEF NatTypeOK, NatSessionInv
<1>4. CASE insert_rule(s)
  <2> DEFINE n == IF natChecked[s] = "absent" THEN natRules[c] + 1 ELSE natRules[c]
  <2>0. n \in Nat /\ (n = 1 \/ (n > 0 /\ c \in natLost))
    BY <1>3
  <2>1. natRules' = [natRules EXCEPT ![c] = n] /\ ~delete_rule(s)
    <3>1. natRules' = [natRules EXCEPT ![c] = IF natChecked[s] = "absent" THEN natRules[c] + 1 ELSE natRules[c]]
      BY <1>4 DEF insert_rule
    <3> QED
      BY <1>4, <3>1 DEF insert_rule, delete_rule, Adding, Removing
  <2> HIDE DEF n
  <2> QED
    BY <1>2, <1>4, <2>0, <2>1 DEF insert_rule, NatTypeOK
<1>5. CASE delete_rule(s)
  <2> DEFINE n == IF natChecked[s] = "present" /\ natRules[c] > 0 THEN natRules[c] - 1 ELSE natRules[c]
  <2>0. n \in Nat /\ (n = 0 \/ c \in natLost)
    BY <1>3
  <2>1. natRules' = [natRules EXCEPT ![c] = n] /\ ~insert_rule(s)
    <3>1. natRules' = [natRules EXCEPT ![c] =
            IF natChecked[s] = "present" /\ natRules[c] > 0 THEN natRules[c] - 1 ELSE natRules[c]]
      BY <1>5 DEF delete_rule
    <3> QED
      BY <1>5, <3>1 DEF insert_rule, delete_rule, Adding, Removing
  <2> HIDE DEF n
  <2> QED
    BY <1>2, <1>5, <2>0, <2>1 DEF delete_rule, NatTypeOK
<1> QED
  BY <1>4, <1>5

\* Inserting or deleting a rule brings the session forward and concerns no other.
LEMMA RuleInv ==
    ASSUME NatIInv, NEW s \in NatSessions, insert_rule(s) \/ delete_rule(s)
    PROVE  NatIInv'
<1> DEFINE c == NatCurrent(s)
<1>0. /\ c \in natTodo[s] /\ c \in LoopRules(s) /\ c \in RulesOf(s) /\ c \in NatRule
      /\ natRules' \in [NatRule -> Nat]
      /\ \A r \in NatRule \ {c} : natRules'[r] = natRules[r]
      /\ insert_rule(s) => natRules'[c] = 1 \/ (natRules'[c] > 0 /\ c \in natLost)
      /\ delete_rule(s) => natRules'[c] = 0 \/ c \in natLost
      /\ natTodo' = [natTodo EXCEPT ![s] = @ \ {c}]
      /\ natChecked' = [natChecked EXCEPT ![s] = "no"]
      /\ UNCHANGED <<natRoutes, natPc, natSeen, natLost, natEvents>>
  BY RuleStep
<1> HIDE DEF c
<1> USE DEF NatIInv
<1>1. NatTypeOK'
  BY <1>0 DEF NatTypeOK
<1>2. \A r \in NatRule \ natLost' : natRules'[r] <= 1
  BY <1>0
<1>3. ASSUME NEW t \in NatSessions \ {s} PROVE NatSessionInv(t)'
  <2>1. /\ natPc'[t] = natPc[t] /\ natTodo'[t] = natTodo[t] /\ natChecked'[t] = natChecked[t]
        /\ natSeen'[t] = natSeen[t] /\ natLost \subseteq natLost'
    BY <1>0 DEF NatTypeOK
  <2>2. \A r \in RulesOf(t) : natRules'[r] = natRules[r]
    BY <1>0, RulesAreOwn
  <2> QED
    BY <2>1, <2>2, NatFrame
<1>4. NatSessionInv(s)'
  <2>0. NatSessionInv(s) /\ natTodo'[s] = natTodo[s] \ {c} /\ natChecked'[s] = "no"
    BY <1>0 DEF NatTypeOK
  <2>1. LoopRules(s)' = LoopRules(s)
    BY <1>0 DEF LoopRules, NatRules, MarkRules
  <2>2. ASSUME NEW r \in Needed(s)' PROVE natRules'[r] > 0
    <3>1. natPc[s] \in {"addNat", "addMark", "up"}
      BY <1>0, <2>2 DEF Needed, NatTypeOK
    <3>2. insert_rule(s)
      BY <3>1 DEF delete_rule, Removing
    <3>3. r # c => r \in Needed(s)
      BY <1>0, <2>0, <2>2 DEF Needed, NatRules, MarkRules
    <3>4. r \in NatRule
      BY <1>1, <2>2, LoopsAreOwn, RulesAreOwn, <3>3, <1>0
    <3> QED
      BY <1>0, <2>0, <3>2, <3>3, <3>4 DEF NatSessionInv
  <2>3. NatPresent(s)' \subseteq Tolerated(s)'
    <3>1. CASE insert_rule(s)
      BY <1>0, <3>1 DEF insert_rule, Adding, Tolerated, NatPresent
    <3>2. CASE delete_rule(s)
      <4>1. NatPresent(s)' \subseteq NatPresent(s) \cup {c} /\ (c \in NatPresent(s)' => c \in natLost)
        BY <1>0, <3>2, RulesAreOwn DEF NatPresent
      <4>2. Tolerated(s) \ {c} \subseteq Tolerated(s)' /\ natLost \subseteq Tolerated(s)'
        <5>1. natPc[s] \in {"delMark", "delNat"} /\ natPc' = natPc /\ natLost' = natLost
          BY <1>0, <3>2 DEF delete_rule, Removing
        <5> QED
          BY <1>0, <2>0, <5>1 DEF Tolerated, NatRules
      <4> QED
        BY <2>0, <4>1, <4>2 DEF NatSessionInv
    <3> QED
      BY <3>1, <3>2
  <2> QED
    BY <2>0, <2>1, <2>2, <2>3 DEF NatSessionInv
<1> QED
  BY <1>1, <1>2, <1>3, <1>4

\* The rules of a session that is killed are lost, not forgotten.
LEMMA NatKilledInv ==
    ASSUME NatIInv, NEW s \in NatSessions, nat_killed(s)
    PROVE  NatIInv'
<1> USE DEF NatIInv
<1>1. NatTypeOK' /\ natRules' = natRules /\ natLost \subseteq natLost'
  BY NatAssumption, RulesAreOwn DEF NatTypeOK, nat_killed, NatPresent
<1>2. ASSUME NEW t \in NatSessions \ {s} PROVE NatSessionInv(t)'
  <2>1. /\ natPc'[t] = natPc[t] /\ natTodo'[t] = natTodo[t] /\ natChecked'[t] = natChecked[t]
        /\ natSeen'[t] = natSeen[t] /\ natLost \subseteq natLost' /\ natRules' = natRules
    BY DEF nat_killed, NatTypeOK
  <2> QED
    BY <2>1, NatFrame
<1>3. NatSessionInv(s)'
  BY DEF nat_killed, NatTypeOK, NatSessionInv, Needed, Tolerated, NatPresent, LoopRules
<1> QED
  BY <1>1, <1>2, <1>3

\* The inductive invariant of the rules, for any number of sessions.
LEMMA NatInitHolds == NatInit => NatIInv
<1> SUFFICES ASSUME NatInit PROVE NatIInv
  OBVIOUS
<1>1. NatTypeOK
  BY NatAssumption DEF NatInit, NatTypeOK
<1>2. \A r \in NatRule : natRules[r] = 0
  BY DEF NatInit
<1>3. ASSUME NEW s \in NatSessions PROVE NatSessionInv(s)
  BY <1>2, RulesAreOwn DEF NatInit, NatSessionInv, LoopRules, Needed, NatPresent
<1> QED
  BY <1>1, <1>2, <1>3 DEF NatIInv

LEMMA NatStep == NatIInv /\ [NatNext]_natVars => NatIInv'
<1> SUFFICES ASSUME NatIInv, [NatNext]_natVars PROVE NatIInv'
  OBVIOUS
<1>1. CASE UNCHANGED natVars \/ routes_change
  <2>1. /\ UNCHANGED <<natRules, natPc, natTodo, natChecked, natSeen, natLost>>
    BY <1>1 DEF natVars, routes_change
  <2>2. NatTypeOK'
    BY <1>1, NatAssumption DEF NatIInv, NatTypeOK, natVars, routes_change
  <2>3. ASSUME NEW t \in NatSessions PROVE NatSessionInv(t)'
    BY <2>1, NatFrame DEF NatIInv
  <2> QED
    BY <2>1, <2>2, <2>3 DEF NatIInv
<1> QED
  BY <1>1, NextLoopInv, CheckInv, RuleInv, NatKilledInv DEF NatNext

\* Its point: a session that is up has its rules, and one that is over has none.
LEMMA NatConclusion == NatIInv => NatUpIsComplete /\ NatLeftIsExplained
<1> SUFFICES ASSUME NatIInv PROVE NatUpIsComplete /\ NatLeftIsExplained
  OBVIOUS
<1>1. ASSUME NEW s \in NatSessions, natPc[s] = "up",
             NEW r \in MarkRules(s) \cup NatRules(s, natSeen[s])
      PROVE  natRules[r] > 0
  BY <1>1 DEF NatIInv, NatSessionInv, LoopRules, Needed
<1>2. ASSUME NEW s \in NatSessions, natPc[s] = "idle" PROVE NatPresent(s) \subseteq natLost
  BY <1>2 DEF NatIInv, NatSessionInv, Tolerated
<1> QED
  BY <1>1, <1>2 DEF NatUpIsComplete, NatLeftIsExplained
-----------------------------------------------------------------------------
(***************************************************************************)
(* The updates of /etc/hosts.                                              *)
(***************************************************************************)
LEMMA HostNamesInitHolds == HostNamesInit => HostNamesIInv
  BY HostNamesAssumption
  DEF HostNamesInit, HostNamesIInv, HostNamesTypeOK, LockCovers, OneBusy, EditIsFresh, Busy

HostNamesStepOf(p) ==
    \/ hosts_begin(p) \/ hosts_read(p) \/ hosts_truncate(p) \/ update_etc_hosts(p)
    \/ hosts_unlock(p) \/ hosts_killed(p)

\* The lock is held from the reading to the end of the writing, by those who
\* take it; a run that others disturb is not clean.
LEMMA HostNamesStep == HostNamesIInv /\ [HostNamesNext]_hostsVars => HostNamesIInv'
<1> SUFFICES ASSUME HostNamesIInv, [HostNamesNext]_hostsVars PROVE HostNamesIInv'
  OBVIOUS
<1> USE HostNamesAssumption DEF HostNamesIInv, HostNamesTypeOK, LockCovers, OneBusy, EditIsFresh, Busy
<1>1. CASE UNCHANGED hostsVars
  BY <1>1 DEF hostsVars
<1>2. ASSUME NEW p \in Updaters, HostNamesStepOf(p) PROVE HostNamesIInv'
  <2>1. CASE hosts_begin(p)
    <3>1. HostNamesTypeOK' /\ hostsPc' = [hostsPc EXCEPT ![p] = "read"]
      BY <2>1 DEF hosts_begin
    <3>2. LockCovers' /\ UNCHANGED <<hostsFile, hostsBuffer>>
      BY <2>1 DEF hosts_begin
    <3>3. ASSUME hostsClean' PROVE hostsClean /\ \A q \in Updaters : ~Busy(q)
      <4>1. hostsClean /\ \A q \in Updaters : Busy(q) => {p, q} \subseteq Locked
        BY <2>1, <3>3 DEF hosts_begin
      <4>2. p \in Locked => hostsLock = "free"
        BY <2>1 DEF hosts_begin
      <4> QED
        BY <4>1, <4>2
    <3>4. OneBusy' /\ EditIsFresh'
      BY <3>1, <3>2, <3>3
    <3> QED
      BY <3>1, <3>2, <3>4
  <2>2. CASE hosts_read(p)       BY <2>2 DEF hosts_read
  <2>3. CASE hosts_truncate(p)   BY <2>3 DEF hosts_truncate
  <2>4. CASE update_etc_hosts(p) BY <2>4 DEF update_etc_hosts
  <2>5. CASE hosts_unlock(p)     BY <2>5 DEF hosts_unlock
  <2>6. CASE hosts_killed(p)     BY <2>6 DEF hosts_killed
  <2> QED
    BY <1>2, <2>1, <2>2, <2>3, <2>4, <2>5, <2>6 DEF HostNamesStepOf
<1> QED
  BY <1>1, <1>2 DEF HostNamesNext, HostNamesStepOf

WriterHasLines ==
    /\ \A q \in Updaters : hostsPc[q] = "write" => Lines = hostsBuffer[q]
    /\ (\A q \in Updaters : hostsPc[q] # "write") => Lines = hostsFile

\* In a clean run there is one writer at most.
LEMMA LinesAre == HostNamesIInv /\ hostsClean => WriterHasLines
<1> SUFFICES ASSUME HostNamesIInv, hostsClean PROVE WriterHasLines
  OBVIOUS
<1>1. ASSUME NEW q \in Updaters, hostsPc[q] = "write" PROVE Lines = hostsBuffer[q]
  <2> DEFINE w == CHOOSE p \in Updaters : hostsPc[p] = "write"
  <2>1. w \in Updaters /\ hostsPc[w] = "write"
    BY <1>1
  <2>2. w = q
    BY <1>1, <2>1 DEF HostNamesIInv, OneBusy, Busy
  <2> QED
    BY <1>1, <2>2 DEF Lines
<1>2. (\A q \in Updaters : hostsPc[q] # "write") => Lines = hostsFile
  BY DEF Lines
<1> QED
  BY <1>1, <1>2 DEF WriterHasLines

\* An update takes effect when it truncates the file; the steps before and
\* after it do not change the lines.
LEMMA HostNamesSerial == HostNamesIInv /\ [HostNamesNext]_hostsVars => [OneEditAtMost]_hostsVars
<1>0. (HostNamesIInv /\ hostsClean => WriterHasLines)'
  BY LinesAre, PTL
<1> SUFFICES ASSUME HostNamesIInv, HostNamesNext, hostsClean'
             PROVE  Lines' = Lines \/ \E p \in Updaters : Lines' = EditedLines(Lines, p)
  BY DEF OneEditAtMost
<1>1. hostsClean
  BY DEF HostNamesNext, hosts_begin, hosts_read, hosts_truncate, update_etc_hosts, hosts_unlock,
         hosts_killed
<1>2. HostNamesIInv' /\ WriterHasLines /\ WriterHasLines'
  BY <1>0, <1>1, LinesAre, HostNamesStep
<1>3. PICK p \in Updaters : HostNamesStepOf(p)
  BY DEF HostNamesNext, HostNamesStepOf
<1>4. CASE hosts_truncate(p)
  <2>1. hostsPc[p] = "edit" /\ hostsPc'[p] = "write" /\ hostsBuffer' = hostsBuffer
    BY <1>4 DEF hosts_truncate, HostNamesIInv, HostNamesTypeOK
  <2>2. \A q \in Updaters : hostsPc[q] # "write"
    BY <1>1, <2>1 DEF HostNamesIInv, OneBusy, Busy
  <2>3. Lines = hostsFile /\ Lines' = hostsBuffer[p]
    BY <1>2, <2>1, <2>2 DEF WriterHasLines
  <2>4. hostsBuffer[p] = EditedLines(hostsFile, p)
    BY <1>1, <2>1 DEF HostNamesIInv, EditIsFresh
  <2> QED
    BY <2>3, <2>4
<1>5. CASE update_etc_hosts(p)
  <2>1. hostsPc[p] = "write" /\ hostsFile' = hostsBuffer[p]
    BY <1>5 DEF update_etc_hosts
  <2>2. \A q \in Updaters : hostsPc'[q] # "write"
    BY <1>1, <1>5 DEF HostNamesIInv, HostNamesTypeOK, OneBusy, Busy, update_etc_hosts
  <2> QED
    BY <1>2, <2>1, <2>2 DEF WriterHasLines
<1>6. CASE hosts_begin(p) \/ hosts_unlock(p) \/ hosts_read(p) \/ hosts_killed(p)
  <2>1. /\ hostsFile' = hostsFile
        /\ \A q \in Updaters : (hostsPc'[q] = "write") = (hostsPc[q] = "write")
        /\ \A q \in Updaters : hostsPc[q] = "write" => hostsBuffer'[q] = hostsBuffer[q]
    BY <1>6 DEF HostNamesIInv, HostNamesTypeOK, hosts_begin, hosts_unlock, hosts_read, hosts_killed
  <2> QED
    BY <1>2, <2>1 DEF WriterHasLines
<1> QED
  BY <1>3, <1>4, <1>5, <1>6 DEF HostNamesStepOf
-----------------------------------------------------------------------------
(***************************************************************************)
(* The containerized servers.                                              *)
(***************************************************************************)
LEMMA ServersInitHolds == ServersInit => ServersIInv
  BY ServersAssumption
  DEF ServersInit, ServersIInv, ServersTypeOK, ServerPlaces, PortIsReserved, ServerHasPort, Between


\* The fixed port is outside of the range, and 0 is no port.
LEMMA PortsDiffer == 0 \notin Ports /\ FixedPort \notin Ports /\ FixedPort # 0
  BY ServersAssumption DEF Ports, FixedPort

ServersStepOf(s) ==
    \/ scan_for_free_port(s) \/ default_port(s) \/ create_server(s) \/ run_server(s)
    \/ run_container(s) \/ remove_server(s)

LEMMA ServersTypeStep ==
    ASSUME ServersTypeOK, ServerPlaces, NEW s \in Servers, ServersStepOf(s)
    PROVE  ServersTypeOK'
<1> USE ServersAssumption DEF ServersTypeOK
<1> HIDE DEF Ports, FixedPort
<1>1. CASE scan_for_free_port(s) BY <1>1 DEF scan_for_free_port
<1>2. CASE default_port(s)       BY <1>2 DEF default_port, SamePort
<1>3. CASE create_server(s)      BY <1>3 DEF create_server
<1>4. CASE run_server(s)         BY <1>4 DEF run_server
<1>5. CASE run_container(s)
  <2>0. srvPort[s] \in Ports \cup {FixedPort}
    BY <1>5 DEF run_container, ServerPlaces
  <2>1. srvBound' \subseteq Servers \X (Ports \cup {FixedPort})
    BY <1>5, <2>0 DEF run_container
  <2> QED
    BY <1>5, <2>1 DEF run_container, ServerFault
<1>6. CASE remove_server(s)
  <2>1. srvBound' \subseteq srvBound /\ srvFiles' \subseteq srvFiles
    BY <1>6 DEF remove_server
  <2>2. srvFaults' \in 0..MaxServerFaults
    BY <1>6 DEF remove_server, ServerFault
  <2>3. srvRunning' \in [Servers -> BOOLEAN]
    BY <1>6 DEF remove_server
  <2> QED
    BY <1>6, <2>1, <2>2, <2>3 DEF remove_server
<1> QED
  BY <1>1, <1>2, <1>3, <1>4, <1>5, <1>6 DEF ServersStepOf

\* Where a server is tells what there is of it.
LEMMA ServerPlacesStep ==
    ASSUME ServersTypeOK, ServerPlaces, NEW s \in Servers, ServersStepOf(s)
    PROVE  ServerPlaces'
<1> USE DEF ServersTypeOK, ServerPlaces
<1>1. CASE scan_for_free_port(s) BY <1>1 DEF scan_for_free_port
<1>2. CASE default_port(s)       BY <1>2 DEF default_port
<1>3. CASE create_server(s)      BY <1>3 DEF create_server
<1>4. CASE run_server(s)         BY <1>4 DEF run_server
<1>5. CASE run_container(s)      BY <1>5 DEF run_container
<1>6. CASE remove_server(s)
  <2>0. srvRunning[s] /\ srvPc[s] \in {"up", "failed"} /\ UNCHANGED <<srvPort, srvListed>>
    BY <1>6 DEF remove_server
  <2>1. CASE /\ srvPc' = [srvPc EXCEPT ![s] = "gone"]
             /\ srvBound' = {b \in srvBound : b[1] # s}
             /\ srvFiles' = srvFiles \ {s}
             /\ srvRunning' = [srvRunning EXCEPT ![s] = FALSE]
    <3>1. \A b \in srvBound' : b[2] = srvPort'[b[1]] /\ srvPc'[b[1]] \in {"up", "removing"}
      BY <2>0, <2>1
    <3>2. (s \in ProxyServers => srvPc[s] = "up") /\ (s \in ProxyServers => srvPort[s] \in Ports)
      BY <1>6 DEF remove_server
    <3> QED
      BY <2>0, <2>1, <3>1, <3>2
  <2>2. CASE srvPc' = [srvPc EXCEPT ![s] = "removing"] /\ UNCHANGED <<srvBound, srvFiles, srvRunning>>
    <3>1. \A b \in srvBound : b[1] \in Servers
      OBVIOUS
    <3>2. \A b \in srvBound' : b[2] = srvPort'[b[1]] /\ srvPc'[b[1]] \in {"up", "removing"}
      BY <2>0, <2>2, <3>1
    <3>3. (s \in ProxyServers => srvPc[s] = "up") /\ (s \in ProxyServers => srvPort[s] \in Ports)
      BY <1>6 DEF remove_server
    <3> QED
      BY <2>0, <2>2, <3>2, <3>3
  <2> QED
    BY <1>6, <2>0, <2>1, <2>2 DEF remove_server
<1> QED
  BY <1>1, <1>2, <1>3, <1>4, <1>5, <1>6 DEF ServersStepOf

\* A server that nobody raced with finds its port free when its container starts.
LEMMA PortStep ==
    ASSUME ServersIInv, NEW s \in Servers, ServersStepOf(s)
    PROVE  PortIsReserved' /\ ServerHasPort'
<1> USE PortsDiffer, ServersAssumption
    DEF ServersIInv, ServersTypeOK, ServerPlaces, PortIsReserved, ServerHasPort, Between, BoundPorts, SamePort
<1>1. CASE scan_for_free_port(s) BY <1>1 DEF scan_for_free_port, FirstFree
<1>2. CASE default_port(s)       BY <1>2 DEF default_port
<1>3. CASE create_server(s)      BY <1>3 DEF create_server
<1>4. CASE run_server(s)         BY <1>4 DEF run_server
<1>5. CASE run_container(s)      BY <1>5 DEF run_container
<1>6. CASE remove_server(s)      BY <1>6 DEF remove_server
<1> QED
  BY <1>1, <1>2, <1>3, <1>4, <1>5, <1>6 DEF ServersStepOf

LEMMA ServersStep == ServersIInv /\ [ServersNext]_srvVars => ServersIInv'
<1> SUFFICES ASSUME ServersIInv, [ServersNext]_srvVars PROVE ServersIInv'
  OBVIOUS
<1>1. CASE UNCHANGED srvVars
  BY <1>1 DEF srvVars, ServersIInv, ServersTypeOK, ServerPlaces, PortIsReserved, ServerHasPort,
              Between, BoundPorts, SamePort
<1>2. ASSUME NEW s \in Servers, ServersStepOf(s) PROVE ServersIInv'
  BY <1>2, ServersTypeStep, ServerPlacesStep, PortStep DEF ServersIInv
<1> QED
  BY <1>1, <1>2 DEF ServersNext, ServersStepOf

LEMMA ServersConclusion == ServersIInv => ServerHasPort /\ ServerLeftIsExplained
  BY DEF ServersIInv, ServerPlaces, ServerLeftIsExplained
-----------------------------------------------------------------------------
(***************************************************************************)
(* The iSCSI targets.                                                      *)
(***************************************************************************)

\* Appending a disk to the list adds it and keeps the others.
LEMMA RangeOfAppend ==
    ASSUME NEW S, NEW seq \in Seq(S), NEW d \in S
    PROVE  Range(Append(seq, d)) = Range(seq) \cup {d}
<1>1. /\ DOMAIN seq = 1..Len(seq) /\ DOMAIN Append(seq, d) = 1..Len(seq) + 1 /\ Len(seq) \in Nat
      /\ Append(seq, d)[Len(seq) + 1] = d
      /\ \A i \in 1..Len(seq) : Append(seq, d)[i] = seq[i]
  OBVIOUS
<1>2. Range(Append(seq, d)) \subseteq Range(seq) \cup {d}
  BY <1>1 DEF Range
<1>3. d \in Range(Append(seq, d)) /\ Range(seq) \subseteq Range(Append(seq, d))
  BY <1>1 DEF Range
<1> QED
  BY <1>2, <1>3

LEMMA IscsiInitHolds == IscsiInit => IscsiIInv
  BY IscsiAssumption DEF IscsiInit, IscsiIInv, IscsiTypeOK, FilesAreNoted, IscsiLeftIsExplained, Range

\* Every file is noted before it is made, and clean_target removes what is noted
\* or, when it fails, leaves the note.
LEMMA IscsiStep == IscsiIInv /\ [IscsiNext]_tgtVars => IscsiIInv'
<1> SUFFICES ASSUME IscsiIInv, [IscsiNext]_tgtVars PROVE IscsiIInv'
  OBVIOUS
<1> USE IscsiAssumption DEF IscsiIInv, IscsiTypeOK, FilesAreNoted, IscsiLeftIsExplained
<1>0. CASE UNCHANGED tgtVars
  BY <1>0 DEF tgtVars
<1>1. CASE iscsi_init
  <2>1. Range(tgtConfigs) \subseteq TargetDisks
    BY DEF Range
  <2> QED
    BY <1>1, <2>1 DEF iscsi_init
<1>2. ASSUME NEW clear \in BOOLEAN, create_target(clear) PROVE IscsiIInv'
  <2>1. PICK d \in TargetDisks : /\ tgtDisk' = d /\ tgtConfigs' = Append(tgtConfigs, d)
                                 /\ tgtFiles' = [tgtFiles EXCEPT ![d] = "absent"]
    BY <1>2 DEF create_target
  <2>2. Range(tgtConfigs') = Range(tgtConfigs) \cup {d} /\ tgtConfigs' \in Seq(TargetDisks)
    BY <2>1, RangeOfAppend
  <2> QED
    BY <1>2, <2>1, <2>2 DEF create_target
<1>3. CASE create_file_disk          BY <1>3 DEF create_file_disk
<1>4. CASE create_file_io            BY <1>4 DEF create_file_io
<1>5. CASE create_iqn_to_save_config BY <1>5 DEF create_iqn_to_save_config
<1>6. CASE copy_to_created_disk      BY <1>6 DEF copy_to_created_disk
<1>7. CASE IscsiFails                BY <1>7 DEF IscsiFails
<1>8. CASE clean_target              BY <1>8 DEF clean_target
<1>9. CASE clean_target_fails
  <2>1. /\ tgtFiles' \in [TargetDisks -> {"absent", "blank", "copied"}]
        /\ \A d \in TargetDisks : tgtFiles'[d] # "absent" => tgtFiles[d] # "absent"
    BY <1>9 DEF clean_target_fails
  <2> QED
    BY <1>9, <2>1 DEF clean_target_fails
<1> QED
  BY <1>0, <1>1, <1>2, <1>3, <1>4, <1>5, <1>6, <1>7, <1>8, <1>9 DEF IscsiNext
=============================================================================
