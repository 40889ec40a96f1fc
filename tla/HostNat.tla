------------------------------ MODULE HostNat ------------------------------
(***************************************************************************)
(* NatController: the iptables rules that let the networks of a session    *)
(* out.  Packets from an input interface are marked (PREROUTING), marked   *)
(* packets are masqueraded on every interface with a default route         *)
(* (POSTROUTING).  A rule is checked with one command and inserted or      *)
(* deleted with another.  The interfaces with a default route are read     *)
(* again for the removal.                                                  *)
(***************************************************************************)
EXTENDS Integers

CONSTANTS
    NatSessions,     \* test sessions of the machine
    NatIndex,        \* [NatSessions -> Nat]: the number in the name tt<number>
    NatOutputs,      \* interfaces that may have a default route
    MaxNatEvents     \* bound on killed sessions, changed routes and failing checks, together

\* The sessions hold different bridges, so that their numbers differ.
ASSUME NatAssumption ==
    /\ NatIndex \in [NatSessions -> Nat] /\ MaxNatEvents \in Nat
    /\ \A s, t \in NatSessions : NatIndex[s] = NatIndex[t] => s = t

VARIABLES
    natRules,        \* how often each rule is in the table
    natRoutes,       \* interfaces with a default route now
    natPc, natTodo,  \* per session: the loop it is in, and its remaining rules
    natChecked,      \* per session: the answer of --check, until it is acted on
    natSeen,         \* history: the default interfaces its rules were made for
    natLost,         \* history: rules of a killed session, of an old route, or whose
                     \* check failed
    natEvents

natVars == <<natRules, natRoutes, natPc, natTodo, natChecked, natSeen, natLost, natEvents>>

\* Mutant: the mark does not depend on the namespace index of the session.
NatMark_Shared(s) == 555

\* _build_mark
NatMark(s) == 555 + NatIndex[s]

\* _build_mark_string and _build_nat_string; a session has one input interface.
MarkRules(s) == {<<"PREROUTING", s, NatMark(s)>>}
NatRules(s, outputs) == {<<"POSTROUTING", o, NatMark(s)>> : o \in outputs}
RulesOf(s) == MarkRules(s) \cup NatRules(s, NatOutputs)
NatRule == UNION {RulesOf(s) : s \in NatSessions}

NatTypeOK ==
    /\ natRules \in [NatRule -> Nat]
    /\ natRoutes \subseteq NatOutputs
    /\ natPc \in [NatSessions -> {"idle", "addNat", "addMark", "up", "delMark", "delNat"}]
    /\ natTodo \in [NatSessions -> SUBSET NatRule]
    /\ natChecked \in [NatSessions -> {"no", "present", "absent"}]
    /\ natSeen \in [NatSessions -> SUBSET NatOutputs]
    /\ natLost \subseteq NatRule
    /\ natEvents \in 0..MaxNatEvents

NatInit ==
    /\ natRules = [r \in NatRule |-> 0]
    /\ natRoutes \in (SUBSET NatOutputs) \ {{}}
    /\ natPc = [s \in NatSessions |-> "idle"]
    /\ natTodo = [s \in NatSessions |-> {}]
    /\ natChecked = [s \in NatSessions |-> "no"]
    /\ natSeen = [s \in NatSessions |-> {}]
    /\ natLost = {} /\ natEvents = 0

Adding(s) == natPc[s] \in {"addNat", "addMark"}
Removing(s) == natPc[s] \in {"delMark", "delNat"}
FirstOf(todo) == CHOOSE r \in todo : TRUE
NatCurrent(s) == FirstOf(natTodo[s])                  \* the next rule of the loop
NatPresent(s) == {r \in RulesOf(s) : natRules[r] > 0}
-----------------------------------------------------------------------------
\* Each loop of add_nat_rules and remove_nat_rules begins when the one before
\* it has no rules left; the default interfaces are read at that moment.
nat_next_loop(s) ==
    /\ natTodo[s] = {}
    /\ \/ /\ natPc[s] = "idle"
          /\ natPc' = [natPc EXCEPT ![s] = "addNat"]
          /\ natTodo' = [natTodo EXCEPT ![s] = NatRules(s, natRoutes)]
          /\ natSeen' = [natSeen EXCEPT ![s] = natRoutes]
          /\ UNCHANGED natLost
       \/ /\ natPc[s] = "addNat"
          /\ natPc' = [natPc EXCEPT ![s] = "addMark"]
          /\ natTodo' = [natTodo EXCEPT ![s] = MarkRules(s)]
          /\ UNCHANGED <<natSeen, natLost>>
       \/ /\ natPc[s] = "addMark"
          /\ natPc' = [natPc EXCEPT ![s] = "up"]
          /\ UNCHANGED <<natTodo, natSeen, natLost>>
       \/ /\ natPc[s] = "up"
          /\ natPc' = [natPc EXCEPT ![s] = "delMark"]
          /\ natTodo' = [natTodo EXCEPT ![s] = MarkRules(s)]
          /\ UNCHANGED <<natSeen, natLost>>
       \/ /\ natPc[s] = "delMark"
          /\ natPc' = [natPc EXCEPT ![s] = "delNat"]
          /\ natTodo' = [natTodo EXCEPT ![s] = NatRules(s, natRoutes)]
          /\ natLost' = natLost \cup NatRules(s, NatOutputs \ natRoutes)
          /\ UNCHANGED natSeen
       \/ /\ natPc[s] = "delNat"
          /\ natPc' = [natPc EXCEPT ![s] = "idle"]
          /\ UNCHANGED <<natTodo, natSeen, natLost>>
    /\ UNCHANGED <<natRules, natRoutes, natChecked, natEvents>>

\* iptables --check, for the next rule of the loop.  Whatever its exit code, a
\* check that fails says that the rule is not there.
does_rule_exist(s) ==
    /\ natTodo[s] # {} /\ natChecked[s] = "no"
    /\ \/ /\ natChecked' = [natChecked EXCEPT ![s] =
                              IF natRules[NatCurrent(s)] > 0 THEN "present" ELSE "absent"]
          /\ UNCHANGED <<natLost, natEvents>>
       \/ /\ natRules[NatCurrent(s)] > 0
          /\ natEvents < MaxNatEvents /\ natEvents' = natEvents + 1
          /\ natChecked' = [natChecked EXCEPT ![s] = "absent"]
          /\ natLost' = natLost \cup {NatCurrent(s)}
    /\ UNCHANGED <<natRules, natRoutes, natPc, natTodo, natSeen>>

\* _add_rule: iptables --insert, if the rule was not there.
insert_rule(s) ==
    /\ Adding(s) /\ natChecked[s] # "no"
    /\ natRules' = [natRules EXCEPT ![NatCurrent(s)] = IF natChecked[s] = "absent" THEN @ + 1 ELSE @]
    /\ natTodo' = [natTodo EXCEPT ![s] = @ \ {NatCurrent(s)}]
    /\ natChecked' = [natChecked EXCEPT ![s] = "no"]
    /\ UNCHANGED <<natRoutes, natPc, natSeen, natLost, natEvents>>

\* _remove_rule: iptables --delete removes one copy, if the rule was there.
delete_rule(s) ==
    /\ Removing(s) /\ natChecked[s] # "no"
    /\ natRules' = [natRules EXCEPT ![NatCurrent(s)] =
                      IF natChecked[s] = "present" /\ @ > 0 THEN @ - 1 ELSE @]
    /\ natTodo' = [natTodo EXCEPT ![s] = @ \ {NatCurrent(s)}]
    /\ natChecked' = [natChecked EXCEPT ![s] = "no"]
    /\ UNCHANGED <<natRoutes, natPc, natSeen, natLost, natEvents>>

\* A session is killed, or its teardown is switched off: its rules stay.
nat_killed(s) ==
    /\ natPc[s] # "idle"
    /\ natEvents < MaxNatEvents /\ natEvents' = natEvents + 1
    /\ natPc' = [natPc EXCEPT ![s] = "idle"]
    /\ natTodo' = [natTodo EXCEPT ![s] = {}]
    /\ natChecked' = [natChecked EXCEPT ![s] = "no"]
    /\ natLost' = natLost \cup NatPresent(s)
    /\ UNCHANGED <<natRules, natRoutes, natSeen>>

\* The default routes of the machine change.
routes_change ==
    /\ natEvents < MaxNatEvents /\ natEvents' = natEvents + 1
    /\ natRoutes' \in (SUBSET NatOutputs) \ {{}}
    /\ natRoutes' # natRoutes
    /\ UNCHANGED <<natRules, natPc, natTodo, natChecked, natSeen, natLost>>

NatNext ==
    \/ \E s \in NatSessions :
          \/ nat_next_loop(s) \/ does_rule_exist(s) \/ insert_rule(s) \/ delete_rule(s)
          \/ nat_killed(s)
    \/ routes_change
-----------------------------------------------------------------------------
\* A session that is up has all its rules, for the default interfaces it saw,
\* whatever the teardown of another session removes meanwhile.
NatUpIsComplete ==
    \A s \in NatSessions : natPc[s] = "up" =>
        \A r \in MarkRules(s) \cup NatRules(s, natSeen[s]) : natRules[r] > 0

\* After the teardown nothing of a session is left but the rules of a killed
\* run of it, those of an interface that lost its default route meanwhile, and
\* those whose check failed, which are inserted twice or not removed: no other
\* rule is ever in the table twice, so that one removal is enough.
NatLeftIsExplained ==
    \A s \in NatSessions : natPc[s] = "idle" => NatPresent(s) \subseteq natLost
-----------------------------------------------------------------------------
\* The rules that the loop of a session is about.
LoopRules(s) ==
    CASE natPc[s] = "addNat" -> NatRules(s, natSeen[s])
      [] natPc[s] = "delNat" -> NatRules(s, NatOutputs)
      [] natPc[s] \in {"addMark", "delMark"} -> MarkRules(s)
      [] OTHER -> {}

\* What a session has to have in the table, at its place in the loops, and what
\* it may have.
Needed(s) ==
    CASE natPc[s] = "addNat" -> NatRules(s, natSeen[s]) \ natTodo[s]
      [] natPc[s] \in {"addMark", "up"} -> (NatRules(s, natSeen[s]) \cup MarkRules(s)) \ natTodo[s]
      [] OTHER -> {}
Tolerated(s) ==
    CASE natPc[s] = "idle" -> natLost
      [] natPc[s] = "delMark" -> NatRules(s, NatOutputs) \cup natTodo[s] \cup natLost
      [] natPc[s] = "delNat" -> natLost \cup natTodo[s]
      [] OTHER -> RulesOf(s)

\* Nobody but the session itself touches its rules: the answer of --check holds
\* until it is acted on, and no rule is inserted twice unless a check failed.
NatSessionInv(s) ==
    /\ natTodo[s] \subseteq LoopRules(s)
    /\ natChecked[s] # "no" =>
         /\ natTodo[s] # {}
         /\ IF natChecked[s] = "present" THEN natRules[NatCurrent(s)] > 0
            ELSE natRules[NatCurrent(s)] = 0 \/ NatCurrent(s) \in natLost
    /\ \A r \in Needed(s) : natRules[r] > 0
    /\ NatPresent(s) \subseteq Tolerated(s)
NatIInv ==
    /\ NatTypeOK
    /\ \A r \in NatRule \ natLost : natRules[r] <= 1
    /\ \A s \in NatSessions : NatSessionInv(s)
=============================================================================
