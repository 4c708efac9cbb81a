------------------------- MODULE CaseServiceProofs --------------------------
(***************************************************************************)
(* Proofs about CaseService: its type invariant, the invariants that hold  *)
(* however requests, sweep and re-evaluation interleave, and the choice of *)
(* a rule.                                                                 *)
(*                                                                         *)
(* Rows are written from copies that may be arbitrarily old.  The argument *)
(* is that nothing a copy was checked against is ever taken back: items    *)
(* keep their reference and registration instant, rules their content, and *)
(* the referral and escalation logs only get longer (Grown).  So a copy    *)
(* that agreed with the tables when it was read agrees when it is written. *)
(*                                                                         *)
(* The lemmas about steps are about a request of anyone (AnyonesStep), for *)
(* the modules that add requests of their own.                             *)
(***************************************************************************)
EXTENDS CaseService, WellFoundedInduction, TLAPS

-----------------------------------------------------------------------------
(* Tables as partial functions.                                            *)

(* Removing a key keeps a table well typed and leaves the other rows.      *)
LEMMA WithoutPartial ==
  ASSUME NEW f, NEW D, NEW R, IsPartial(f, D, R), NEW k
  PROVE  /\ IsPartial(Without(f, k), D, R)
         /\ DOMAIN Without(f, k) = DOMAIN f \ {k}
         /\ \A x \in DOMAIN f \ {k} : Without(f, k)[x] = f[x]
BY DEF IsPartial, Without

(* The highest number of 1 .. n is n, and 0 when there is none.            *)
LEMMA HighestOfInterval ==
  ASSUME NEW n \in Nat PROVE HighestOf(1 .. n) = n
<1>1. CASE n = 0
  BY <1>1 DEF HighestOf
<1>2. CASE n # 0
  <2>1. n \in 1 .. n /\ \A w \in 1 .. n : w <= n
    BY <1>2
  <2>2. \A v \in 1 .. n : (\A w \in 1 .. n : w <= v) => v = n
    BY <2>1
  <2> QED
    BY <2>1, <2>2, <1>2 DEF HighestOf
<1> QED
  BY <1>1, <1>2

(* The adjudicator only names versions it was given.                       *)
LEMMA AdjudicateGiven ==
  ASSUME NEW table, NEW vs, NEW subject, NEW t,
         NEW v \in Adjudicate(table, vs, subject, t)
  PROVE  v \in vs /\ table[v].from <= t
BY DEF Adjudicate

(* Appending one referral after superseding the old ones.                  *)
LEMMA SupersedeAppend ==
  ASSUME NEW log \in Seq(Referral), NEW r \in Referral
  PROVE  LET new == Append(Supersede(log), r)
         IN  /\ new \in Seq(Referral)
             /\ Len(new) = Len(log) + 1
             /\ new[Len(new)] = r
             /\ \A i \in 1 .. Len(log) :
                  new[i] = [log[i] EXCEPT !.current = FALSE]
<1>1. DOMAIN log = 1 .. Len(log)
  OBVIOUS
<1>2. ASSUME NEW i \in 1 .. Len(log)
      PROVE  /\ Supersede(log)[i] = [log[i] EXCEPT !.current = FALSE]
             /\ Supersede(log)[i] \in Referral
  <2>1. Supersede(log)[i] = [log[i] EXCEPT !.current = FALSE]
    BY <1>1, Zenon DEF Supersede
  <2>2. log[i] \in Referral
    OBVIOUS
  <2> QED
    BY <2>1, <2>2 DEF Referral
<1>3. Supersede(log) \in Seq(Referral) /\ Len(Supersede(log)) = Len(log)
  <2>1. Supersede(log) \in [1 .. Len(log) -> Referral]
    BY <1>1, <1>2 DEF Supersede
  <2> QED
    BY <2>1
<1> QED
  BY <1>2, <1>3

-----------------------------------------------------------------------------
(* Rows.                                                                   *)

(* The department of a stored rule is a lead.                              *)
LEMMA RuleLeadType ==
  ASSUME RulesOK, NEW v \in DOMAIN rules
  PROVE  RuleLead(rules[v].body.lead) \in Leads /\ v \in Nat
<1>1. rules[v].body \in RuleBodies
  BY DEF RulesOK, RuleRow
<1>2. rules[v].body.lead \in Depts
  BY <1>1, ServiceAssumption DEF AllBodies
<1>3. v \in Nat
  BY DEF RulesOK
<1>4. <<>> \in Seq(Nat)
  OBVIOUS
<1> QED
  BY <1>2, <1>3, <1>4 DEF RuleLead, Leads

(* The lead after an escalation is a lead.                                 *)
LEMMA EscalationLeadType ==
  ASSUME NEW lead \in Leads, NEW level \in Nat
  PROVE  EscalationDepartmentName(lead, level) \in Leads
<1>1. lead[1] \in Depts /\ lead[2] \in Seq(Nat)
  BY DEF Leads
<1>2. Append(lead[2], level) \in Seq(Nat)
  BY <1>1
<1> QED
  BY <1>1, <1>2 DEF EscalationDepartmentName, Leads

-----------------------------------------------------------------------------
(* The type invariant.                                                     *)

(* The tables start empty but for the initial rules.                       *)
LEMMA InitStateOK == Init => StateOK
<1> SUFFICES ASSUME Init PROVE StateOK
  OBVIOUS
<1>1. RulesOK
  <2>1. DOMAIN rules = 1 .. Len(InitialRules) /\ Len(InitialRules) \in Nat
    BY ServiceAssumption DEF Init
  <2>2. \A v \in DOMAIN rules : rules[v] \in RuleRow
    BY <2>1, ServiceAssumption DEF Init, RuleRow, RuleStatuses
  <2> QED
    BY <2>1, <2>2, ServiceAssumption DEF RulesOK
<1>2. TablesOK
  BY DEF Init, Empty, TablesOK, IsPartial
<1>3. RequestOK
  BY DEF Init, Empty, RequestOK, IsPartial
<1>4. SweepOK
  BY DEF Init, NoSweep, SweepOK
<1>5. ReevalOK
  BY DEF Init, Idle, ReevalOK
<1> QED
  BY <1>1, <1>2, <1>3, <1>4, <1>5 DEF Init, StateOK

(* Items and rules are never deleted, so what a copy in flight refers to   *)
(* stays there while the tables grow.                                      *)
LEMMA GrowingTables ==
  ASSUME StateOK, DOMAIN items \subseteq DOMAIN items',
         DOMAIN rules \subseteq DOMAIN rules'
  PROVE  /\ request' = request => RequestOK'
         /\ sweep' = sweep => SweepOK'
         /\ reeval' = reeval => ReevalOK'
<1>1. request' = request => RequestOK'
  BY DEF StateOK, RequestOK, IsPartial
<1>2. sweep' = sweep => SweepOK'
  BY DEF StateOK, SweepOK
<1>3. reeval' = reeval => ReevalOK'
  BY DEF StateOK, ReevalOK
<1> QED
  BY <1>1, <1>2, <1>3

(* A request that ends leaves the other requests as they are.              *)
LEMMA RequestEnds ==
  ASSUME StateOK, NEW c, request' = Without(request, c),
         DOMAIN items \subseteq DOMAIN items',
         DOMAIN rules \subseteq DOMAIN rules'
  PROVE  RequestOK'
BY WithoutPartial DEF StateOK, RequestOK, Without, IsPartial

(* A request that begins is added to the others.                           *)
LEMMA RequestBegins ==
  ASSUME StateOK, NEW c, NEW new \in Request,
         new.kind = "update" => new.id \in DOMAIN items,
         new.kind = "rule" => new.version = 1 \/ new.version - 1 \in DOMAIN rules,
         request' = Put(request, c, new), UNCHANGED <<items, rules>>
  PROVE  RequestOK'
<1>1. /\ DOMAIN request' = DOMAIN request \cup {c}
      /\ \A x \in DOMAIN request' :
           request'[x] = IF x = c THEN new ELSE request[x]
  BY DEF Put
<1> SUFFICES ASSUME NEW x \in DOMAIN request', NEW r, r = request'[x]
             PROVE  /\ r \in Request
                    /\ r.kind = "update" => r.id \in DOMAIN items
                    /\ r.kind = "rule" =>
                         r.version = 1 \/ r.version - 1 \in DOMAIN rules
  BY DEF RequestOK
<1>2. CASE x = c
  BY <1>1, <1>2
<1>3. CASE x # c
  BY <1>1, <1>3 DEF StateOK, RequestOK
<1> QED
  BY <1>2, <1>3

(* Register: the new row holds the department of an existing rule.         *)
LEMMA RegisterType ==
  ASSUME StateOK, NEW c, NEW ref \in Refs, NEW subject \in Subjects,
         Register(c, ref, subject)
  PROVE  StateOK'
<1>1. PICK v \in Adjudicate(rules, ActiveRules(now), subject, now) :
        request' = Put(request, c,
         [kind |-> "register",
          row |-> [ref |-> ref, subject |-> subject, status |-> "adjudicated",
                   lead |-> RuleLead(rules[v].body.lead), version |-> v,
                   registeredAt |-> now, deadline |-> now + DeadlineTicks,
                   level |-> 0, completedAt |-> Never,
                   cancelledAt |-> Never]])
  BY DEF Register
<1> DEFINE row == [ref |-> ref, subject |-> subject, status |-> "adjudicated",
                   lead |-> RuleLead(rules[v].body.lead), version |-> v,
                   registeredAt |-> now, deadline |-> now + DeadlineTicks,
                   level |-> 0, completedAt |-> Never, cancelledAt |-> Never]
           new == [kind |-> "register", row |-> row]
<1>2. v \in DOMAIN rules
  BY AdjudicateGiven DEF ActiveRules
<1>3. RuleLead(rules[v].body.lead) \in Leads /\ v \in Nat
  BY <1>2, RuleLeadType DEF StateOK
<1>4. row \in ItemRow
  BY <1>3, ServiceAssumption DEF StateOK, ItemRow, Statuses
<1>5. new \in Request
  BY <1>4 DEF Request
<1> HIDE DEF new
<1>6. new.kind = "register"
  BY DEF new
<1>7. request' = Put(request, c, new) /\ UNCHANGED <<items, rules>>
  BY <1>1 DEF new, Register
<1>8. RequestOK'
  BY <1>5, <1>6, <1>7, RequestBegins
<1> QED
  BY <1>8 DEF StateOK, Register, RulesOK, TablesOK, SweepOK, ReevalOK

(* A copy of an existing item is taken.                                    *)
LEMMA PrepareType ==
  ASSUME StateOK, NEW c, NEW id \in DOMAIN items, NEW row \in ItemRow,
         Prepare(c, id, row)
  PROVE  StateOK'
<1> DEFINE new == [kind |-> "update", id |-> id, row |-> row]
<1>1. new \in Request
  BY DEF Request, StateOK, TablesOK, IsPartial
<1>2. new.kind = "update" /\ new.id \in DOMAIN items
  OBVIOUS
<1>3. request' = Put(request, c, new) /\ UNCHANGED <<items, rules>>
  BY DEF Prepare
<1>4. new.kind # "rule"
  OBVIOUS
<1> HIDE DEF new
<1>5. RequestOK'
  BY <1>1, <1>2, <1>3, <1>4, RequestBegins
<1> QED
  BY <1>5 DEF StateOK, Prepare, RulesOK, TablesOK, SweepOK, ReevalOK

(* CreateRule: the number after the highest, within MaxVersion.            *)
LEMMA CreateRuleType ==
  ASSUME StateOK, NEW c, NEW body \in RuleBodies,
         NEW v \in 0 .. MaxVersion, CreateRule(c, body, v)
  PROVE  StateOK'
<1> DEFINE new == [kind |-> "rule", version |-> CurrentRuleVersion + 1,
                   row |-> [body |-> body, from |-> now, status |-> "active"],
                   supersede |-> v]
<1>1. PICK n \in 0 .. MaxVersion : DOMAIN rules = 1 .. n
  BY DEF StateOK, RulesOK
<1>2. CurrentRuleVersion = n
  BY <1>1, HighestOfInterval, ServiceAssumption DEF CurrentRuleVersion
<1>3. new \in Request
  <2>1. n + 1 \in 1 .. MaxVersion
    BY <1>2, ServiceAssumption DEF CreateRule
  <2>2. new.row \in RuleRow
    BY DEF StateOK, RuleRow, RuleStatuses
  <2> QED
    BY <1>2, <2>1, <2>2 DEF Request
<1>4. new.kind = "rule" /\ (new.version = 1 \/ new.version - 1 \in DOMAIN rules)
  BY <1>1, <1>2, ServiceAssumption
<1>5. request' = Put(request, c, new) /\ UNCHANGED <<items, rules>>
  BY DEF CreateRule
<1>6. new.kind # "update"
  OBVIOUS
<1> HIDE DEF new
<1>7. RequestOK'
  BY <1>3, <1>4, <1>5, <1>6, RequestBegins
<1> QED
  BY <1>7 DEF StateOK, CreateRule, RulesOK, TablesOK, SweepOK, ReevalOK

(* The requests that read an item all go through Prepare.                  *)
LEMMA UpdateReadType ==
  ASSUME StateOK, NEW c, NEW id \in DOMAIN items,
         \/ StartProcessing(c, id)
         \/ \E s \in Subjects : Modify(c, id, s)
         \/ ReturnForCorrection(c, id)
         \/ Resubmit(c, id)
         \/ Cancel(c, id)
         \/ Complete(c, id)
  PROVE  StateOK'
<1>1. items[id] \in ItemRow /\ now \in Nat
  BY DEF StateOK, TablesOK, IsPartial
<1>2. \A s \in Statuses :
        /\ [items[id] EXCEPT !.status = s] \in ItemRow
        /\ [items[id] EXCEPT !.status = s, !.cancelledAt = now] \in ItemRow
        /\ [items[id] EXCEPT !.status = s, !.completedAt = now] \in ItemRow
  BY <1>1 DEF ItemRow
<1>3. \A s \in Subjects : [items[id] EXCEPT !.subject = s] \in ItemRow
  BY <1>1 DEF ItemRow
<1>4. \E row \in ItemRow : Prepare(c, id, row)
  <2>1. CASE StartProcessing(c, id)
    BY <2>1, <1>2 DEF StartProcessing, Statuses
  <2>2. CASE \E s \in Subjects : Modify(c, id, s)
    BY <2>2, <1>3 DEF Modify
  <2>3. CASE ReturnForCorrection(c, id)
    BY <2>3, <1>2 DEF ReturnForCorrection, Statuses
  <2>4. CASE Resubmit(c, id)
    BY <2>4, <1>2 DEF Resubmit, Statuses
  <2>5. CASE Cancel(c, id)
    BY <2>5, <1>2 DEF Cancel, Statuses
  <2>6. CASE Complete(c, id)
    BY <2>6, <1>2 DEF Complete, Statuses
  <2> QED
    BY <2>1, <2>2, <2>3, <2>4, <2>5, <2>6
<1> QED
  BY <1>4, PrepareType

(* CommitRegister: one item with its first referral.                       *)
LEMMA CommitRegisterType ==
  ASSUME StateOK, NEW c, CommitRegister(c)
  PROVE  StateOK'
<1> DEFINE row == request[c].row
           first == <<[lead |-> row.lead, version |-> row.version,
                       by |-> "system", current |-> TRUE]>>
<1>1. row \in ItemRow
  BY DEF CommitRegister, InFlight, StateOK, RequestOK, IsPartial, Request
<1>2. first \in Seq(Referral)
  BY <1>1 DEF ItemRow, Referral
<1>3. PICK id \in ItemIds \ DOMAIN items :
        /\ items' = Put(items, id, row)
        /\ referrals' = Put(referrals, id, first)
        /\ escalations' = Put(escalations, id, <<>>)
  BY DEF CommitRegister
<1> HIDE DEF row, first
<1>4. TablesOK'
  <2>1. <<>> \in Seq(Escalation)
    OBVIOUS
  <2> QED
    BY <1>1, <1>2, <1>3, <2>1 DEF StateOK, TablesOK, IsPartial, Put
<1>5. DOMAIN items \subseteq DOMAIN items' /\ rules' = rules
  BY <1>3 DEF Put, CommitRegister
<1>6. RequestOK'
  BY <1>5, RequestEnds DEF CommitRegister
<1> QED
  BY <1>4, <1>5, <1>6, GrowingTables DEF StateOK, CommitRegister, RulesOK

(* CommitUpdate: the copy of an existing item.                             *)
LEMMA CommitUpdateType ==
  ASSUME StateOK, NEW c, CommitUpdate(c)
  PROVE  StateOK'
<1>1. request[c].row \in ItemRow /\ request[c].id \in DOMAIN items
  BY DEF CommitUpdate, InFlight, StateOK, RequestOK, IsPartial, Request
<1>2. items' = Put(items, request[c].id, request[c].row)
  BY DEF CommitUpdate
<1>3. TablesOK'
  BY <1>1, <1>2 DEF StateOK, TablesOK, IsPartial, Put, CommitUpdate
<1>4. DOMAIN items' = DOMAIN items /\ rules' = rules
  BY <1>1, <1>2 DEF Put, CommitUpdate
<1>5. RequestOK'
  BY <1>4, RequestEnds DEF CommitUpdate
<1> QED
  BY <1>3, <1>4, <1>5, GrowingTables DEF StateOK, CommitUpdate, RulesOK

(* CommitRule: a free number that is at most the next one is the next      *)
(* one.                                                                    *)
LEMMA CommitRuleType ==
  ASSUME StateOK, NEW c, CommitRule(c)
  PROVE  StateOK'
<1> DEFINE r == request[c]
           Done == SupersedeRule(r.supersede)
<1>1. /\ r.version \in 1 .. MaxVersion
      /\ r.row \in RuleRow
      /\ r.version = 1 \/ r.version - 1 \in DOMAIN rules
  BY DEF CommitRule, InFlight, StateOK, RequestOK, IsPartial, Request
<1>2. r.version \notin DOMAIN rules /\ rules' = Put(Done, r.version, r.row)
  BY DEF CommitRule, VersionIsFree
<1>3. DOMAIN Done = DOMAIN rules /\ \A v \in DOMAIN rules : Done[v] \in RuleRow
  <2> SUFFICES ASSUME NEW v \in DOMAIN rules PROVE Done[v] \in RuleRow
    BY DEF SupersedeRule
  <2>1. rules[v] \in RuleRow
    BY DEF StateOK, RulesOK
  <2>2. [rules[v] EXCEPT !.status = "superseded"] \in RuleRow
    BY <2>1 DEF RuleRow, RuleStatuses
  <2> QED
    BY <2>1, <2>2 DEF SupersedeRule
<1> HIDE DEF Done
<1>4. RulesOK'
  <2>1. PICK n \in 0 .. MaxVersion : DOMAIN rules = 1 .. n
    BY DEF StateOK, RulesOK
  <2>2. r.version = n + 1
    BY <1>1, <1>2, <2>1, ServiceAssumption
  <2>3. DOMAIN rules' = 1 .. (n + 1) /\ n + 1 \in 0 .. MaxVersion
    BY <1>1, <1>2, <1>3, <2>1, <2>2, ServiceAssumption DEF Put
  <2>4. \A v \in DOMAIN rules' : rules'[v] \in RuleRow
    BY <1>1, <1>2, <1>3 DEF Put
  <2> QED
    BY <2>3, <2>4 DEF RulesOK
<1>5. DOMAIN rules \subseteq DOMAIN rules' /\ items' = items
  BY <1>2, <1>3 DEF Put, CommitRule
<1>6. RequestOK'
  BY <1>5, RequestEnds DEF CommitRule
<1> QED
  BY <1>4, <1>5, <1>6, GrowingTables DEF StateOK, CommitRule, TablesOK

(* Rerouting appends one referral of the right type.                       *)
LEMMA RerouteType ==
  ASSUME StateOK, NEW id \in DOMAIN items, NEW lead \in Leads, NEW v \in Nat,
         NEW by \in {"system", "system_escalation"},
         Reroute(id, lead, v, by)
  PROVE  /\ DOMAIN referrals' = DOMAIN items
         /\ IsPartial(referrals', ItemIds, Seq(Referral))
<1>1. [lead |-> lead, version |-> v, by |-> by, current |-> TRUE] \in Referral
  BY DEF Referral
<1>2. referrals[id] \in Seq(Referral)
  BY DEF StateOK, TablesOK, IsPartial
<1>3. Append(Supersede(referrals[id]),
             [lead |-> lead, version |-> v, by |-> by, current |-> TRUE])
        \in Seq(Referral)
  BY <1>1, <1>2, SupersedeAppend
<1> QED
  BY <1>3 DEF Reroute, Put, StateOK, TablesOK, IsPartial

(* Escalate: referral, escalation record and copy are written.             *)
LEMMA EscalateType ==
  ASSUME StateOK, NEW e \in sweep.todo, Escalate(e)
  PROVE  StateOK'
<1> DEFINE level == e.row.level + 1
           lead == EscalationDepartmentName(e.row.lead, level)
           row == EscalatedRow(e.row, level, lead, sweep.at + ExtensionTicks)
           esc == [from |-> e.row.level, to |-> level,
                   oldLead |-> e.row.lead, newLead |-> lead]
<1>1. e.row \in ItemRow /\ e.id \in DOMAIN items /\ sweep.at \in Nat
  BY DEF StateOK, SweepOK, Copy
<1>2. /\ level \in Nat /\ e.row.level \in Nat /\ e.row.lead \in Leads
      /\ e.row.version \in Nat
  BY <1>1 DEF ItemRow
<1>3. lead \in Leads
  BY <1>2, EscalationLeadType
<1> HIDE DEF lead, level
<1>4. row \in ItemRow
  <2>1. sweep.at + ExtensionTicks \in Nat
    BY <1>1, ServiceAssumption
  <2> QED
    BY <1>1, <1>2, <1>3, <2>1 DEF EscalatedRow, ItemRow, Statuses
<1>5. Append(escalations[e.id], esc) \in Seq(Escalation)
  <2>1. esc \in Escalation
    BY <1>2, <1>3 DEF Escalation
  <2>2. escalations[e.id] \in Seq(Escalation)
    BY <1>1 DEF StateOK, TablesOK, IsPartial
  <2> QED
    BY <2>1, <2>2
<1>6. /\ Reroute(e.id, lead, e.row.version, "system_escalation")
      /\ items' = Put(items, e.id, row)
      /\ escalations' = Put(escalations, e.id,
                            Append(escalations[e.id], esc))
  BY DEF Escalate, lead, level
<1> HIDE DEF row, esc
<1>7. DOMAIN items' = DOMAIN items
  BY <1>1, <1>6 DEF Put
<1>8. TablesOK'
  <2>1. IsPartial(items', ItemIds, ItemRow)
    BY <1>1, <1>4, <1>6 DEF StateOK, TablesOK, IsPartial, Put
  <2>2. DOMAIN escalations' = DOMAIN items
          /\ IsPartial(escalations', ItemIds, Seq(Escalation))
    BY <1>1, <1>5, <1>6 DEF StateOK, TablesOK, IsPartial, Put
  <2>3. DOMAIN referrals' = DOMAIN items
          /\ IsPartial(referrals', ItemIds, Seq(Referral))
    BY <1>1, <1>2, <1>3, <1>6, RerouteType
  <2> QED
    BY <1>7, <2>1, <2>2, <2>3 DEF TablesOK
<1>9. SweepOK'
  BY <1>7 DEF StateOK, SweepOK, Escalate, AfterItem, NoSweep
<1> QED
  BY <1>7, <1>8, <1>9, GrowingTables DEF StateOK, Escalate, RulesOK

(* The steps of the sweep that write no table.                             *)
LEMMA SweepType ==
  ASSUME StateOK,
         \/ SweepBegin
         \/ \E e \in sweep.todo : SweepRefused(e)
         \/ SweepFails
  PROVE  StateOK'
<1>1. SweepOK'
  <2>1. CASE SweepBegin
    BY <2>1 DEF StateOK, TablesOK, IsPartial, SweepOK, SweepBegin, NoSweep,
                FindOverdueItems, Copy
  <2>2. CASE \E e \in sweep.todo : SweepRefused(e)
    BY <2>2 DEF SweepRefused, SweepOK, NoSweep
  <2>3. CASE SweepFails
    BY <2>3 DEF SweepFails, SweepOK, NoSweep
  <2> QED
    BY <2>1, <2>2, <2>3
<1>2. UNCHANGED <<now, rules, items, referrals, escalations, request, reeval>>
  BY DEF SweepBegin, SweepRefused, SweepFails
<1> QED
  BY <1>1, <1>2 DEF StateOK, RulesOK, TablesOK, RequestOK, ReevalOK

(* The worker goes on to its next item.                                    *)
LEMMA NextItemType ==
  ASSUME StateOK, NEW id, reeval' = NextItem(id), items' = items, rules' = rules
  PROVE  ReevalOK'
BY DEF StateOK, ReevalOK, NextItem, Idle

(* ReevalRead: a copy rerouted by an existing rule.                        *)
LEMMA ReevalReadType ==
  ASSUME StateOK, NEW id \in reeval.todo, ReevalRead(id)
  PROVE  StateOK'
<1>1. PICK v \in Rerouting(id) :
        reeval' = [reeval EXCEPT !.pending =
          {[id |-> id,
            row |-> [items[id] EXCEPT !.status = "adjudicated",
                                      !.lead = RuleLead(rules[v].body.lead),
                                      !.version = v]]}]
  BY DEF ReevalRead
<1>2. id \in DOMAIN items /\ items[id] \in ItemRow /\ id \in ItemIds
  BY DEF StateOK, ReevalOK, TablesOK, IsPartial
<1>3. v \in DOMAIN rules
  BY AdjudicateGiven DEF Rerouting, StateOK, ReevalOK
<1>4. RuleLead(rules[v].body.lead) \in Leads /\ v \in Nat
  BY <1>3, RuleLeadType DEF StateOK
<1> DEFINE row == [items[id] EXCEPT !.status = "adjudicated",
                                   !.lead = RuleLead(rules[v].body.lead),
                                   !.version = v]
<1>5. row \in ItemRow
  BY <1>2, <1>4 DEF ItemRow, Statuses
<1>6. reeval' = [reeval EXCEPT !.pending = {[id |-> id, row |-> row]}]
  BY <1>1
<1> HIDE DEF row
<1>7. ReevalOK'
  <2>1. [id |-> id, row |-> row] \in Copy
    BY <1>2, <1>5 DEF Copy
  <2>2. reeval'.pending = {[id |-> id, row |-> row]}
    BY <1>6 DEF StateOK, ReevalOK
  <2>3. \A p \in reeval'.pending : p \in Copy /\ p.id \in DOMAIN items
    BY <1>2, <2>1, <2>2
  <2>4. reeval' \in [phase : {"idle", "version", "rules", "items"}, current : Nat,
                     rules : SUBSET DOMAIN rules, todo : SUBSET DOMAIN items,
                     pending : SUBSET Copy]
    BY <1>6, <2>2, <2>3 DEF StateOK, ReevalOK
  <2> QED
    BY <2>3, <2>4 DEF ReevalRead, ReevalOK
<1> QED
  BY <1>7 DEF StateOK, ReevalRead, RulesOK, TablesOK, RequestOK, SweepOK

(* ReevalCommit: one referral and the copy.                                *)
LEMMA ReevalCommitType ==
  ASSUME StateOK, NEW p \in reeval.pending, ReevalCommit(p)
  PROVE  StateOK'
<1>1. p.row \in ItemRow /\ p.id \in DOMAIN items
  BY DEF StateOK, ReevalOK, Copy
<1>2. p.row.lead \in Leads /\ p.row.version \in Nat
  BY <1>1 DEF ItemRow
<1>3. DOMAIN items' = DOMAIN items /\ IsPartial(items', ItemIds, ItemRow)
  BY <1>1 DEF ReevalCommit, StateOK, TablesOK, IsPartial, Put
<1>4. TablesOK'
  BY <1>1, <1>2, <1>3, RerouteType DEF ReevalCommit, StateOK, TablesOK
<1>5. ReevalOK'
  BY <1>3 DEF StateOK, ReevalOK, ReevalCommit, NextItem, Idle
<1> QED
  BY <1>3, <1>4, <1>5, GrowingTables DEF StateOK, ReevalCommit, RulesOK

(* The steps of the cycle that write no table and take no copy.            *)
LEMMA ReevalType ==
  ASSUME StateOK,
         \/ ReevalBegin
         \/ ReevalRules
         \/ ReevalCollect
         \/ \E id \in reeval.todo : ReevalSkip(id)
         \/ \E p \in reeval.pending : ReevalFails(p)
         \/ ReevalStops
  PROVE  StateOK'
<1>1. ReevalOK'
  <2>1. CASE ReevalBegin
    <3>1. CurrentRuleVersion \in Nat
      BY HighestOfInterval, ServiceAssumption
         DEF StateOK, RulesOK, CurrentRuleVersion
    <3> QED
      BY <2>1, <3>1 DEF ReevalBegin, Idle, ReevalOK
  <2>2. CASE ReevalCollect
    BY <2>2 DEF StateOK, ReevalOK, ReevalCollect, Idle, StaleItems
  <2>6. CASE ReevalRules
    BY <2>6 DEF StateOK, ReevalOK, ReevalRules, ActiveRules
  <2>3. CASE \E id \in reeval.todo : ReevalSkip(id)
    BY <2>3, NextItemType DEF ReevalSkip
  <2>4. CASE \E p \in reeval.pending : ReevalFails(p)
    BY <2>4, NextItemType DEF ReevalFails
  <2>5. CASE ReevalStops
    BY <2>5 DEF ReevalStops, ReevalOK, Idle
  <2> QED
    BY <2>1, <2>2, <2>3, <2>4, <2>5, <2>6
<1>2. UNCHANGED <<now, rules, items, referrals, escalations, request, sweep>>
  BY DEF ReevalBegin, ReevalRules, ReevalCollect, ReevalSkip, ReevalFails, ReevalStops
<1> QED
  BY <1>1, <1>2 DEF StateOK, RulesOK, TablesOK, RequestOK, SweepOK

(* A step of the service, whoever sends the requests and ends them.        *)
Ended(c) ==
  /\ request' = Without(request, c)
  /\ UNCHANGED <<now, rules, items, referrals, escalations, sweep, reeval>>

AnyonesStep ==
  \/ Tick
  \/ \E c : ReadSteps(c)
  \/ \E c : WriteSteps(c)
  \/ SweepSteps
  \/ ReevalSteps
  \/ \E c : Ended(c)
  \/ SweepFails
  \/ \E p \in reeval.pending : ReevalFails(p)
  \/ ReevalStops

(* A request ends, and nothing else happens.                               *)
LEMMA EndedType ==
  ASSUME StateOK, NEW c, Ended(c)
  PROVE  StateOK'
<1>1. RequestOK'
  BY RequestEnds DEF Ended
<1> QED
  BY <1>1 DEF StateOK, Ended, RulesOK, TablesOK, SweepOK, ReevalOK

(* The steps of Clients are such steps.                                    *)
LEMMA NextIsAnyonesStep == Next => AnyonesStep
BY DEF Next, Failures, RequestFails, Ended, AnyonesStep

(* Every step keeps the types, and adds no requests but those of its       *)
(* client.                                                                 *)
LEMMA NextStateOK == StateOK /\ [AnyonesStep]_vars => StateOK'
<1> SUFFICES ASSUME StateOK, [AnyonesStep]_vars PROVE StateOK'
  OBVIOUS
<1>1. CASE Tick
  BY <1>1 DEF Tick, StateOK, RulesOK, TablesOK, RequestOK, SweepOK, ReevalOK
<1>2. CASE \E c : ReadSteps(c)
  BY <1>2, RegisterType, UpdateReadType, CreateRuleType DEF ReadSteps
<1>3. CASE \E c : WriteSteps(c)
  BY <1>3, CommitRegisterType, CommitUpdateType, CommitRuleType DEF WriteSteps
<1>4. CASE SweepSteps \/ SweepFails
  BY <1>4, EscalateType, SweepType DEF SweepSteps
<1>5. CASE \/ ReevalSteps
           \/ \E p \in reeval.pending : ReevalFails(p)
           \/ ReevalStops
  BY <1>5, ReevalType, ReevalReadType, ReevalCommitType DEF ReevalSteps
<1>6. CASE \E c : Ended(c)
  BY <1>6, EndedType
<1>7. CASE UNCHANGED vars
  BY <1>7 DEF vars, StateOK, RulesOK, TablesOK, RequestOK, SweepOK, ReevalOK
<1> QED
  BY <1>1, <1>2, <1>3, <1>4, <1>5, <1>6, <1>7 DEF AnyonesStep

(* A step of Clients leaves the requests of all others as they are.        *)
LEMMA NextOthers ==
  ASSUME [Next]_vars, NEW c, c \notin Clients
  PROVE  /\ c \in DOMAIN request' <=> c \in DOMAIN request
         /\ c \in DOMAIN request => request'[c] = request[c]
<1>1. ASSUME NEW d \in Clients, ReadSteps(d)
      PROVE  \E new : request' = Put(request, d, new)
  BY <1>1, Zenon
     DEF ReadSteps, Register, Prepare, StartProcessing, Modify,
         ReturnForCorrection, Resubmit, Cancel, Complete, CreateRule
<1>2. ASSUME NEW d \in Clients, NEW new, request' = Put(request, d, new)
      PROVE  /\ c \in DOMAIN request' <=> c \in DOMAIN request
             /\ c \in DOMAIN request => request'[c] = request[c]
  BY <1>2 DEF Put
<1>3. ASSUME NEW d \in Clients, WriteSteps(d) \/ RequestFails(d)
      PROVE  /\ c \in DOMAIN request' <=> c \in DOMAIN request
             /\ c \in DOMAIN request => request'[c] = request[c]
  BY <1>3 DEF WriteSteps, CommitRegister, CommitUpdate, CommitRule, RequestFails,
              Without
<1>4. CASE request' = request
  BY <1>4
<1> QED
  BY <1>1, <1>2, <1>3, <1>4
     DEF Next, vars, Tick, SweepSteps, SweepBegin, Escalate, SweepRefused,
         ReevalSteps, ReevalBegin, ReevalRules, ReevalCollect, ReevalSkip,
         ReevalRead, ReevalCommit, Failures, SweepFails, ReevalFails, ReevalStops

(* The tables and every copy in flight stay well typed, and rule versions  *)
(* are numbered 1, 2, ... without a gap whatever CreateRule requests race. *)
THEOREM TypeCorrect == Spec => []TypeOK
<1>1. Init => TypeOK
  BY InitStateOK DEF Init, Empty, TypeOK
<1>2. TypeOK /\ [Next]_vars => TypeOK'
  <2> SUFFICES ASSUME TypeOK, [Next]_vars, NEW c \in DOMAIN request'
               PROVE  c \in Clients
    BY NextStateOK, NextIsAnyonesStep DEF TypeOK
  <2> QED
    BY NextOthers DEF TypeOK
<1> QED
  BY <1>1, <1>2, PTL DEF Spec

-----------------------------------------------------------------------------
(* The inductive invariant.                                                *)
TablesSafe ==
  /\ OneCurrentReferral
  /\ RefsUnique
  /\ RoutingWasReferred
  /\ ReferralInForce
  /\ ClosedStamped
  /\ LevelBacked

SafeInv == StateOK /\ TablesSafe /\ CopiesAgree

-----------------------------------------------------------------------------
(* What a step never takes back.                                           *)

RulesGrown ==
  \A v \in DOMAIN rules :
    /\ v \in DOMAIN rules'
    /\ rules'[v].body = rules[v].body
    /\ rules'[v].from = rules[v].from

ItemsGrown ==
  \A id \in DOMAIN items :
    /\ id \in DOMAIN items'
    /\ items'[id].ref = items[id].ref
    /\ items'[id].registeredAt = items[id].registeredAt

ReferralsGrown ==
  \A id \in DOMAIN items : \A i \in DOMAIN referrals[id] :
    /\ i \in DOMAIN referrals'[id]
    /\ referrals'[id][i].lead = referrals[id][i].lead
    /\ referrals'[id][i].version = referrals[id][i].version
    /\ referrals'[id][i].by = referrals[id][i].by

EscalationsGrown ==
  \A id \in DOMAIN items : \A k \in DOMAIN escalations[id] :
    /\ k \in DOMAIN escalations'[id]
    /\ escalations'[id][k] = escalations[id][k]

Grown == RulesGrown /\ ItemsGrown /\ ReferralsGrown /\ EscalationsGrown

(* A routing once referred stays in the log.                               *)
LEMMA StaysReferred ==
  ASSUME Grown, NEW id \in DOMAIN items, NEW row, WasReferred(id, row)
  PROVE  WasReferred(id, row)'
BY DEF Grown, ReferralsGrown, WasReferred

(* A rule in force at an instant stays so.                                 *)
LEMMA StaysInForce ==
  ASSUME Grown, NEW lead, NEW v, NEW t, InForce(lead, v, t)
  PROVE  InForce(lead, v, t)'
BY DEF Grown, RulesGrown, InForce

(* A level accounted for stays so.                                         *)
LEMMA StaysAccounted ==
  ASSUME Grown, NEW id \in DOMAIN items, NEW row, LevelAccounted(id, row)
  PROVE  LevelAccounted(id, row)'
BY DEF Grown, EscalationsGrown, LevelAccounted

(* A copy that agrees with its item keeps agreeing.                        *)
LEMMA StaysAgreed ==
  ASSUME Grown, NEW id \in DOMAIN items, NEW row, CopyAgrees(id, row)
  PROVE  CopyAgrees(id, row)'
BY StaysAccounted DEF Grown, ItemsGrown, CopyAgrees, StampsAgree

(* So does a request in flight.                                            *)
LEMMA RequestStaysAgreed ==
  ASSUME Grown, NEW r, RequestAgrees(r),
         r.kind = "update" => r.id \in DOMAIN items
  PROVE  RequestAgrees(r)'
BY StaysAgreed, StaysReferred, StaysInForce DEF RequestAgrees, StampsAgree

(* The requests a step leaves in flight.                                   *)
LEMMA RequestsKept ==
  ASSUME Grown, StateOK, RequestsAgree,
         \A c \in DOMAIN request' :
           c \in DOMAIN request /\ request'[c] = request[c]
  PROVE  RequestsAgree'
<1> SUFFICES ASSUME NEW c \in DOMAIN request', NEW r, r = request'[c]
             PROVE  RequestAgrees(r)'
  BY DEF RequestsAgree
<1>1. c \in DOMAIN request /\ r = request[c]
  OBVIOUS
<1>2. RequestAgrees(r)
  BY <1>1 DEF RequestsAgree
<1>3. r.kind = "update" => r.id \in DOMAIN items
  BY <1>1 DEF StateOK, RequestOK
<1> QED
  BY <1>2, <1>3, RequestStaysAgreed

(* The items a step leaves to the sweep.                                   *)
LEMMA SweepKept ==
  ASSUME Grown, StateOK, SweepAgrees, sweep'.todo \subseteq sweep.todo
  PROVE  SweepAgrees'
BY StaysAgreed, StaysReferred DEF SweepAgrees, StateOK, SweepOK

(* The copy a step leaves to the worker.                                   *)
LEMMA ReevalKept ==
  ASSUME Grown, StateOK, ReevalAgrees, reeval'.pending \subseteq reeval.pending
  PROVE  ReevalAgrees'
BY StaysAgreed, StaysInForce DEF ReevalAgrees, StateOK, ReevalOK

-----------------------------------------------------------------------------
(* Writing the tables.                                                     *)

(* A step that writes no table takes nothing back and breaks nothing.      *)
LEMMA QuietTables ==
  ASSUME TablesSafe, UNCHANGED <<rules, items, referrals, escalations>>
  PROVE  TablesSafe' /\ Grown
<1>1. Grown
  BY DEF Grown, RulesGrown, ItemsGrown, ReferralsGrown, EscalationsGrown
<1>2. TablesSafe'
  BY DEF TablesSafe, OneCurrentReferral, RefsUnique, RoutingWasReferred,
         ReferralInForce, ClosedStamped, LevelBacked, WasReferred, InForce,
         LevelAccounted
<1> QED
  BY <1>1, <1>2

(* A row that agrees with its item may be written over it, once the logs   *)
(* are in order.                                                           *)
LEMMA OverwriteSafe ==
  ASSUME StateOK, TablesSafe, Grown, NEW id \in DOMAIN items, NEW row,
         items' = Put(items, id, row),
         row.ref = items[id].ref, StampsAgree(row),
         LevelAccounted(id, row)', WasReferred(id, row)',
         \A j \in DOMAIN items : LastIsCurrent(referrals'[j]),
         ReferralInForce'
  PROVE  TablesSafe'
<1>1. /\ DOMAIN items' = DOMAIN items
      /\ \A j \in DOMAIN items : items'[j] = IF j = id THEN row ELSE items[j]
  BY DEF Put
<1>2. OneCurrentReferral'
  BY <1>1 DEF OneCurrentReferral
<1>3. RefsUnique'
  BY <1>1 DEF TablesSafe, RefsUnique
<1>4. RoutingWasReferred'
  <2> SUFFICES ASSUME NEW j \in DOMAIN items, NEW r, r = items'[j]
               PROVE  WasReferred(j, r)'
    BY <1>1 DEF RoutingWasReferred
  <2>1. CASE j = id
    BY <2>1, <1>1
  <2>2. CASE j # id
    BY <2>2, <1>1, StaysReferred DEF TablesSafe, RoutingWasReferred
  <2> QED
    BY <2>1, <2>2
<1>5. ClosedStamped'
  BY <1>1 DEF TablesSafe, ClosedStamped
<1>6. LevelBacked'
  <2> SUFFICES ASSUME NEW j \in DOMAIN items, NEW r, r = items'[j]
               PROVE  LevelAccounted(j, r)'
    BY <1>1 DEF LevelBacked
  <2>1. CASE j = id
    BY <2>1, <1>1
  <2>2. CASE j # id
    BY <2>2, <1>1, StaysAccounted DEF TablesSafe, LevelBacked
  <2> QED
    BY <2>1, <2>2
<1> QED
  BY <1>2, <1>3, <1>4, <1>5, <1>6 DEF TablesSafe

(* Rerouting keeps the old referrals, superseded, and adds the current one.*)
LEMMA RerouteLog ==
  ASSUME StateOK, OneCurrentReferral, NEW id \in DOMAIN items,
         NEW lead \in Leads, NEW v \in Nat,
         NEW by \in {"system", "system_escalation"},
         Reroute(id, lead, v, by)
  PROVE  /\ ReferralsGrown
         /\ \A j \in DOMAIN items : LastIsCurrent(referrals'[j])
         /\ \E i \in DOMAIN referrals'[id] :
              referrals'[id][i].lead = lead /\ referrals'[id][i].version = v
         /\ \A j \in DOMAIN items : \A i \in DOMAIN referrals'[j] :
              \/ /\ i \in DOMAIN referrals[j]
                 /\ referrals'[j][i].lead = referrals[j][i].lead
                 /\ referrals'[j][i].version = referrals[j][i].version
                 /\ referrals'[j][i].by = referrals[j][i].by
              \/ /\ j = id
                 /\ referrals'[j][i].lead = lead
                 /\ referrals'[j][i].version = v
                 /\ referrals'[j][i].by = by
<1> DEFINE log == referrals[id]
           r == [lead |-> lead, version |-> v, by |-> by, current |-> TRUE]
           new == Append(Supersede(log), r)
<1>1. log \in Seq(Referral) /\ DOMAIN referrals = DOMAIN items
  BY DEF StateOK, TablesOK, IsPartial
<1>2. r \in Referral
  BY DEF Referral
<1>3. /\ new \in Seq(Referral)
      /\ Len(new) = Len(log) + 1
      /\ new[Len(new)] = r
      /\ \A i \in 1 .. Len(log) : new[i] = [log[i] EXCEPT !.current = FALSE]
  BY <1>1, <1>2, SupersedeAppend
<1>5. r.lead = lead /\ r.version = v /\ r.by = by /\ r.current = TRUE
  OBVIOUS
<1>7. \A j \in DOMAIN items :
        referrals'[j] = IF j = id THEN new ELSE referrals[j]
  BY <1>1 DEF Reroute, Put
<1> HIDE DEF new, r
<1>4. ASSUME NEW i \in 1 .. Len(log)
      PROVE  /\ new[i].lead = log[i].lead
             /\ new[i].version = log[i].version
             /\ new[i].by = log[i].by
  <2>1. log[i] \in Referral
    BY <1>1
  <2>2. new[i] = [log[i] EXCEPT !.current = FALSE]
    BY <1>3
  <2> QED
    BY <2>1, <2>2 DEF Referral
<1>6. /\ DOMAIN new = 1 .. (Len(log) + 1)
      /\ DOMAIN log = 1 .. Len(log)
      /\ Len(log) \in Nat
      /\ new[Len(log) + 1] = r
      /\ Len(new) = Len(log) + 1
  BY <1>1, <1>3
<1>8. LastIsCurrent(new)
  <2>1. new # <<>>
    BY <1>6
  <2>2. \A i \in DOMAIN new : new[i].current = (i = Len(new))
    <3> SUFFICES ASSUME NEW i \in DOMAIN new
                 PROVE  new[i].current = (i = Len(new))
      OBVIOUS
    <3>1. CASE i \in 1 .. Len(log)
      <4>1. new[i] = [log[i] EXCEPT !.current = FALSE]
        BY <3>1, <1>3, Zenon
      <4>2. new[i].current = FALSE
        <5>1. log[i] \in Referral
          BY <3>1, <1>1
        <5> QED
          BY <4>1, <5>1 DEF Referral
      <4>3. (i = Len(new)) = FALSE
        BY <3>1, <1>6
      <4> QED
        BY <4>2, <4>3, Zenon
    <3>2. CASE i = Len(new)
      <4>1. new[i].current = TRUE
        BY <3>2, <1>5, <1>6
      <4> QED
        BY <4>1, <3>2
    <3> QED
      BY <3>1, <3>2, <1>6
  <2> QED
    BY <2>1, <2>2, Zenon DEF LastIsCurrent
<1>9. ReferralsGrown
  <2> SUFFICES ASSUME NEW j \in DOMAIN items, NEW i \in DOMAIN referrals[j]
               PROVE  /\ i \in DOMAIN referrals'[j]
                      /\ referrals'[j][i].lead = referrals[j][i].lead
                      /\ referrals'[j][i].version = referrals[j][i].version
                      /\ referrals'[j][i].by = referrals[j][i].by
    BY DEF ReferralsGrown
  <2>1. CASE j = id
    BY <2>1, <1>4, <1>6, <1>7
  <2>2. CASE j # id
    BY <2>2, <1>7
  <2> QED
    BY <2>1, <2>2
<1>10. ASSUME NEW j \in DOMAIN items PROVE LastIsCurrent(referrals'[j])
  <2>1. CASE j = id
    <3>1. referrals'[j] = new
      BY <2>1, <1>7
    <3> QED
      BY <3>1, <1>8, Zenon
  <2>2. CASE j # id
    <3>1. referrals'[j] = referrals[j]
      BY <2>2, <1>7
    <3> QED
      BY <3>1, Zenon DEF OneCurrentReferral
  <2> QED
    BY <2>1, <2>2
<1>11. \E i \in DOMAIN referrals'[id] :
         referrals'[id][i].lead = lead /\ referrals'[id][i].version = v
  BY <1>5, <1>6, <1>7
<1>12. ASSUME NEW j \in DOMAIN items, NEW i \in DOMAIN referrals'[j]
       PROVE  \/ /\ i \in DOMAIN referrals[j]
                 /\ referrals'[j][i].lead = referrals[j][i].lead
                 /\ referrals'[j][i].version = referrals[j][i].version
                 /\ referrals'[j][i].by = referrals[j][i].by
              \/ /\ j = id
                 /\ referrals'[j][i].lead = lead
                 /\ referrals'[j][i].version = v
                 /\ referrals'[j][i].by = by
  <2>1. CASE j # id
    BY <2>1, <1>7
  <2>2. CASE j = id /\ i \in DOMAIN log
    BY <2>2, <1>4, <1>6, <1>7
  <2>3. CASE j = id /\ i = Len(log) + 1
    BY <2>3, <1>5, <1>6, <1>7
  <2> QED
    BY <2>1, <2>2, <2>3, <1>6, <1>7
<1> QED
  BY <1>9, <1>10, <1>11, <1>12

-----------------------------------------------------------------------------
(* The five transactions that write tables.                                *)

(* CommitRegister: a new item, with one referral and no escalation.        *)
LEMMA CommitRegisterSafe ==
  ASSUME SafeInv, NEW c, CommitRegister(c)
  PROVE  TablesSafe' /\ Grown
<1> DEFINE row == request[c].row
           first == [lead |-> row.lead, version |-> row.version,
                     by |-> "system", current |-> TRUE]
<1>1. /\ row \in ItemRow
      /\ StampsAgree(row)
      /\ row.level = 0
      /\ row.lead[2] = <<>>
      /\ InForce(row.lead, row.version, row.registeredAt)
  BY DEF CommitRegister, InFlight, SafeInv, StateOK, RequestOK, IsPartial, Request,
         CopiesAgree, RequestsAgree, RequestAgrees
<1>2. PICK id \in ItemIds \ DOMAIN items :
        /\ items' = Put(items, id, row)
        /\ referrals' = Put(referrals, id, <<first>>)
        /\ escalations' = Put(escalations, id, <<>>)
  BY DEF CommitRegister
<1>3. RefIsFree(row.ref) /\ rules' = rules
  BY DEF CommitRegister
<1>4. /\ first.lead = row.lead /\ first.version = row.version
      /\ first.by = "system" /\ first.current = TRUE
  OBVIOUS
<1> HIDE DEF row, first
<1>5. /\ DOMAIN items' = DOMAIN items \cup {id}
      /\ items'[id] = row
      /\ referrals'[id] = <<first>>
      /\ \A j \in DOMAIN items : /\ items'[j] = items[j]
                                 /\ referrals'[j] = referrals[j]
                                 /\ escalations'[j] = escalations[j]
  BY <1>2 DEF Put, SafeInv, StateOK, TablesOK
<1>6. /\ DOMAIN referrals'[id] = {1} /\ referrals'[id][1] = first
      /\ Len(referrals'[id]) = 1 /\ referrals'[id] # <<>>
  BY <1>5
<1>7. Grown
  BY <1>3, <1>5 DEF Grown, RulesGrown, ItemsGrown, ReferralsGrown, EscalationsGrown
<1>8. OneCurrentReferral'
  <2>1. LastIsCurrent(referrals'[id])
    BY <1>4, <1>6 DEF LastIsCurrent
  <2>2. ASSUME NEW j \in DOMAIN items PROVE LastIsCurrent(referrals'[j])
    <3>1. referrals'[j] = referrals[j]
      BY <1>5
    <3> QED
      BY <3>1, Zenon DEF SafeInv, TablesSafe, OneCurrentReferral
  <2> QED
    BY <2>1, <2>2, <1>5 DEF OneCurrentReferral
<1>9. RefsUnique'
  BY <1>3, <1>5 DEF SafeInv, TablesSafe, RefsUnique, RefIsFree
<1>10. RoutingWasReferred'
  <2>1. ASSUME NEW r, r = items'[id] PROVE WasReferred(id, r)'
    BY <2>1, <1>4, <1>5, <1>6 DEF WasReferred
  <2>2. ASSUME NEW j \in DOMAIN items, NEW r, r = items'[j]
        PROVE  WasReferred(j, r)'
    BY <2>2, <1>5, <1>7, StaysReferred
       DEF SafeInv, TablesSafe, RoutingWasReferred
  <2> QED
    BY <2>1, <2>2, <1>5 DEF RoutingWasReferred
<1>11. ReferralInForce'
  <2>1. ASSUME NEW i \in DOMAIN referrals'[id]
        PROVE  InForce(referrals'[id][i].lead, referrals'[id][i].version,
                       items'[id].registeredAt)
    BY <1>1, <1>4, <1>5, <1>6
  <2>2. ASSUME NEW j \in DOMAIN items, NEW i \in DOMAIN referrals'[j],
               referrals'[j][i].by = "system"
        PROVE  InForce(referrals'[j][i].lead, referrals'[j][i].version,
                       items'[j].registeredAt)
    BY <2>2, <1>5 DEF SafeInv, TablesSafe, ReferralInForce
  <2> QED
    BY <2>1, <2>2, <1>3, <1>5 DEF ReferralInForce, InForce
<1>12. ClosedStamped'
  BY <1>1, <1>5 DEF SafeInv, TablesSafe, ClosedStamped
<1>13. LevelBacked'
  <2>1. ASSUME NEW r, r = items'[id] PROVE LevelAccounted(id, r)'
    BY <2>1, <1>1, <1>5, ServiceAssumption DEF LevelAccounted
  <2>2. ASSUME NEW j \in DOMAIN items, NEW r, r = items'[j]
        PROVE  LevelAccounted(j, r)'
    BY <2>2, <1>5, <1>7, StaysAccounted DEF SafeInv, TablesSafe, LevelBacked
  <2> QED
    BY <2>1, <2>2, <1>5 DEF LevelBacked
<1> QED
  BY <1>7, <1>8, <1>9, <1>10, <1>11, <1>12, <1>13 DEF TablesSafe

(* CommitUpdate: a copy that agrees, over its item.                        *)
LEMMA CommitUpdateSafe ==
  ASSUME SafeInv, NEW c, CommitUpdate(c)
  PROVE  TablesSafe' /\ Grown
<1>1. PICK id, row :
        /\ id \in DOMAIN items
        /\ items' = Put(items, id, row)
        /\ CopyAgrees(id, row) /\ WasReferred(id, row)
  BY DEF CommitUpdate, InFlight, SafeInv, StateOK, RequestOK, CopiesAgree,
         RequestsAgree, RequestAgrees
<1>2. UNCHANGED <<rules, referrals, escalations>>
  BY DEF CommitUpdate
<1>3. Grown
  BY <1>1, <1>2 DEF Grown, RulesGrown, ItemsGrown, ReferralsGrown,
                    EscalationsGrown, Put, CopyAgrees
<1>4. \A j \in DOMAIN items : LastIsCurrent(referrals'[j])
  BY <1>2, Zenon DEF SafeInv, TablesSafe, OneCurrentReferral
<1>5. ReferralInForce'
  <2>1. /\ DOMAIN items' = DOMAIN items
        /\ \A j \in DOMAIN items : items'[j].registeredAt = items[j].registeredAt
    BY <1>1, <1>2 DEF Put, CopyAgrees
  <2> QED
    BY <1>2, <2>1 DEF SafeInv, TablesSafe, ReferralInForce, InForce
<1>6. LevelAccounted(id, row)' /\ WasReferred(id, row)'
  BY <1>1, <1>3, StaysAccounted, StaysReferred DEF CopyAgrees
<1> QED
  BY <1>1, <1>2, <1>3, <1>4, <1>5, <1>6, OverwriteSafe DEF SafeInv, CopyAgrees

(* CommitRule: no rule loses its content.                                  *)
LEMMA CommitRuleSafe ==
  ASSUME SafeInv, NEW c, CommitRule(c)
  PROVE  TablesSafe' /\ Grown
<1>1. PICK r :
        /\ r.version \notin DOMAIN rules
        /\ rules' = Put(SupersedeRule(r.supersede), r.version, r.row)
  BY Zenon DEF CommitRule, VersionIsFree
<1>2. UNCHANGED <<items, referrals, escalations>>
  BY DEF CommitRule
<1>3. RulesGrown
  <2> SUFFICES ASSUME NEW v \in DOMAIN rules
               PROVE  /\ v \in DOMAIN rules'
                      /\ rules'[v].body = rules[v].body
                      /\ rules'[v].from = rules[v].from
    BY DEF RulesGrown
  <2>1. rules[v] \in RuleRow
    BY DEF SafeInv, StateOK, RulesOK
  <2>2. /\ v \in DOMAIN rules'
        /\ rules'[v] = IF v = r.supersede
                       THEN [rules[v] EXCEPT !.status = "superseded"]
                       ELSE rules[v]
    BY <1>1 DEF Put, SupersedeRule
  <2> QED
    BY <2>1, <2>2 DEF RuleRow
<1>4. Grown
  BY <1>2, <1>3 DEF Grown, ItemsGrown, ReferralsGrown, EscalationsGrown
<1>5. ReferralInForce'
  BY <1>2, <1>4, StaysInForce DEF SafeInv, TablesSafe, ReferralInForce, InForce
<1>6. /\ OneCurrentReferral' /\ RefsUnique' /\ RoutingWasReferred'
      /\ ClosedStamped' /\ LevelBacked'
  BY <1>2 DEF SafeInv, TablesSafe, OneCurrentReferral, RefsUnique,
              RoutingWasReferred, ClosedStamped, LevelBacked, WasReferred,
              LevelAccounted
<1> QED
  BY <1>4, <1>5, <1>6 DEF TablesSafe

(* An escalation raises the level of the listed copy by one, records it,   *)
(* and reroutes to the lead it writes.                                     *)
LEMMA EscalateSafe ==
  ASSUME SafeInv, NEW e \in sweep.todo, Escalate(e)
  PROVE  TablesSafe' /\ Grown
<1>1. /\ e.row \in ItemRow /\ e.id \in DOMAIN items
      /\ CopyAgrees(e.id, e.row)
      /\ ValidTransition(e.row.status, "escalated")
  BY DEF SafeInv, StateOK, SweepOK, Copy, CopiesAgree, SweepAgrees, Escalate
<1>2. PICK level, lead, row, esc :
        /\ level = e.row.level + 1
        /\ lead = EscalationDepartmentName(e.row.lead, level)
        /\ row = EscalatedRow(e.row, level, lead, sweep.at + ExtensionTicks)
        /\ esc = [from |-> e.row.level, to |-> level,
                  oldLead |-> e.row.lead, newLead |-> lead]
  OBVIOUS
<1>3. /\ level <= MaxLevel
      /\ Reroute(e.id, lead, e.row.version, "system_escalation")
      /\ items' = Put(items, e.id, row)
      /\ escalations' = Put(escalations, e.id, Append(escalations[e.id], esc))
      /\ rules' = rules
  BY <1>2, Zenon DEF Escalate
<1>4. /\ level \in Nat /\ e.row.level \in Nat /\ e.row.version \in Nat
      /\ e.row.lead \in Leads /\ lead \in Leads /\ level > 0
  BY <1>1, <1>2, EscalationLeadType DEF ItemRow
<1>5. /\ row.ref = e.row.ref /\ row.registeredAt = e.row.registeredAt
      /\ row.lead = lead /\ row.version = e.row.version /\ row.level = level
      /\ row.status = "escalated"
      /\ row.completedAt = e.row.completedAt /\ row.cancelledAt = e.row.cancelledAt
  BY <1>1, <1>2 DEF EscalatedRow, ItemRow
<1>6. StampsAgree(row)
  BY <1>1, <1>5 DEF CopyAgrees, StampsAgree, ValidTransition, CanTransition,
                    TransitionTable, ItemRow, Statuses
<1>7. Len(lead[2]) <= level
  <2>1. e.row.lead[2] \in Seq(Nat) /\ Len(e.row.lead[2]) <= e.row.level
    BY <1>1, <1>4 DEF Leads, CopyAgrees, LevelAccounted
  <2>2. lead[2] = Append(e.row.lead[2], level)
    <3>1. lead = <<e.row.lead[1], Append(e.row.lead[2], level)>>
      <4>1. ~(level <= 0)
        BY <1>4
      <4> QED
        BY <1>2, <4>1, Zenon DEF EscalationDepartmentName
    <3> QED
      BY <3>1
  <2> QED
    BY <1>2, <1>4, <2>1, <2>2
<1>8. PICK records \in Seq(Escalation) : records = escalations[e.id]
  BY <1>1 DEF SafeInv, StateOK, TablesOK, IsPartial
<1>9. /\ escalations'[e.id] = Append(records, esc)
      /\ \A j \in DOMAIN items : j # e.id => escalations'[j] = escalations[j]
  BY <1>1, <1>3, <1>8 DEF Put, SafeInv, StateOK, TablesOK
<1>10. esc \in Escalation /\ esc.to = level
  BY <1>2, <1>4 DEF Escalation
<1>11. /\ DOMAIN records = 1 .. Len(records) /\ Len(records) \in Nat
       /\ DOMAIN Append(records, esc) = 1 .. (Len(records) + 1)
       /\ \A k \in 1 .. Len(records) : Append(records, esc)[k] = records[k]
       /\ Append(records, esc)[Len(records) + 1] = esc
  BY <1>8, <1>10
<1>12. EscalationsGrown
  <2> SUFFICES ASSUME NEW j \in DOMAIN items, NEW k \in DOMAIN escalations[j]
               PROVE  /\ k \in DOMAIN escalations'[j]
                      /\ escalations'[j][k] = escalations[j][k]
    BY DEF EscalationsGrown
  <2>1. CASE j = e.id
    BY <2>1, <1>8, <1>9, <1>11
  <2>2. CASE j # e.id
    BY <2>2, <1>9
  <2> QED
    BY <2>1, <2>2
<1>13. /\ DOMAIN items' = DOMAIN items
       /\ \A j \in DOMAIN items : items'[j] = IF j = e.id THEN row ELSE items[j]
       /\ row.ref = items[e.id].ref
       /\ row.registeredAt = items[e.id].registeredAt
  BY <1>1, <1>3, <1>5 DEF Put, CopyAgrees
<1>14. /\ ReferralsGrown
       /\ \A j \in DOMAIN items : LastIsCurrent(referrals'[j])
       /\ \E i \in DOMAIN referrals'[e.id] :
            /\ referrals'[e.id][i].lead = lead
            /\ referrals'[e.id][i].version = e.row.version
       /\ \A j \in DOMAIN items : \A i \in DOMAIN referrals'[j] :
            \/ /\ i \in DOMAIN referrals[j]
               /\ referrals'[j][i].lead = referrals[j][i].lead
               /\ referrals'[j][i].version = referrals[j][i].version
               /\ referrals'[j][i].by = referrals[j][i].by
            \/ referrals'[j][i].by = "system_escalation"
  BY <1>1, <1>3, <1>4, RerouteLog DEF SafeInv, TablesSafe
<1>15. Grown
  BY <1>3, <1>12, <1>13, <1>14 DEF Grown, RulesGrown, ItemsGrown
<1>16. ReferralInForce'
  <2> SUFFICES ASSUME NEW j \in DOMAIN items, NEW i \in DOMAIN referrals'[j],
                      referrals'[j][i].by = "system"
               PROVE  InForce(referrals'[j][i].lead, referrals'[j][i].version,
                              items'[j].registeredAt)
    BY <1>3, <1>13 DEF ReferralInForce, InForce
  <2>1. items'[j].registeredAt = items[j].registeredAt
    BY <1>13
  <2> QED
    BY <2>1, <1>14 DEF SafeInv, TablesSafe, ReferralInForce
<1>17. WasReferred(e.id, row)'
  BY <1>5, <1>14 DEF WasReferred
<1>18. LevelAccounted(e.id, row)'
  <2>1. \E k \in DOMAIN escalations'[e.id] : escalations'[e.id][k].to = level
    BY <1>9, <1>10, <1>11
  <2> QED
    BY <2>1, <1>3, <1>5, <1>7 DEF LevelAccounted
<1> QED
  BY <1>1, <1>3, <1>6, <1>13, <1>14, <1>15, <1>16, <1>17, <1>18, OverwriteSafe
     DEF SafeInv

(* ReevalCommit: the copy and the referral it was routed by.               *)
LEMMA ReevalCommitSafe ==
  ASSUME SafeInv, NEW p \in reeval.pending, ReevalCommit(p)
  PROVE  TablesSafe' /\ Grown
<1>1. /\ p.row \in ItemRow /\ p.id \in DOMAIN items
      /\ CopyAgrees(p.id, p.row)
      /\ InForce(p.row.lead, p.row.version, p.row.registeredAt)
  BY DEF SafeInv, StateOK, ReevalOK, Copy, CopiesAgree, ReevalAgrees
<1>2. /\ Reroute(p.id, p.row.lead, p.row.version, "system")
      /\ items' = Put(items, p.id, p.row)
      /\ UNCHANGED <<rules, escalations>>
  BY DEF ReevalCommit
<1>3. p.row.lead \in Leads /\ p.row.version \in Nat
  BY <1>1 DEF ItemRow
<1>4. /\ DOMAIN items' = DOMAIN items
      /\ \A j \in DOMAIN items : items'[j] = IF j = p.id THEN p.row ELSE items[j]
      /\ p.row.ref = items[p.id].ref /\ StampsAgree(p.row)
      /\ p.row.registeredAt = items[p.id].registeredAt
  BY <1>1, <1>2 DEF Put, CopyAgrees
<1>5. /\ ReferralsGrown
      /\ \A j \in DOMAIN items : LastIsCurrent(referrals'[j])
      /\ \E i \in DOMAIN referrals'[p.id] :
           /\ referrals'[p.id][i].lead = p.row.lead
           /\ referrals'[p.id][i].version = p.row.version
      /\ \A j \in DOMAIN items : \A i \in DOMAIN referrals'[j] :
           \/ /\ i \in DOMAIN referrals[j]
              /\ referrals'[j][i].lead = referrals[j][i].lead
              /\ referrals'[j][i].version = referrals[j][i].version
              /\ referrals'[j][i].by = referrals[j][i].by
           \/ /\ j = p.id
              /\ referrals'[j][i].lead = p.row.lead
              /\ referrals'[j][i].version = p.row.version
  BY <1>1, <1>2, <1>3, RerouteLog DEF SafeInv, TablesSafe
<1>6. Grown
  BY <1>2, <1>4, <1>5 DEF Grown, RulesGrown, ItemsGrown, EscalationsGrown
<1>7. ReferralInForce'
  <2> SUFFICES ASSUME NEW j \in DOMAIN items, NEW i \in DOMAIN referrals'[j],
                      referrals'[j][i].by = "system"
               PROVE  InForce(referrals'[j][i].lead, referrals'[j][i].version,
                              items'[j].registeredAt)
    BY <1>2, <1>4 DEF ReferralInForce, InForce
  <2>1. items'[j].registeredAt = items[j].registeredAt
    BY <1>4
  <2>2. j = p.id => items'[j].registeredAt = p.row.registeredAt
    BY <1>4
  <2> QED
    BY <2>1, <2>2, <1>1, <1>5 DEF SafeInv, TablesSafe, ReferralInForce
<1>8. WasReferred(p.id, p.row)'
  BY <1>5 DEF WasReferred
<1>9. LevelAccounted(p.id, p.row)'
  BY <1>1, <1>6, StaysAccounted DEF CopyAgrees
<1> QED
  BY <1>1, <1>2, <1>4, <1>5, <1>6, <1>7, <1>8, <1>9, OverwriteSafe DEF SafeInv

-----------------------------------------------------------------------------
(* The steps that take copies.                                             *)

(* A request that begins with a copy that agrees.                          *)
LEMMA RequestTaken ==
  ASSUME SafeInv, NEW c, NEW new, RequestAgrees(new),
         new.kind = "update" => new.id \in DOMAIN items,
         request' = Put(request, c, new),
         UNCHANGED <<rules, items, referrals, escalations, sweep, reeval>>
  PROVE  TablesSafe' /\ CopiesAgree'
<1>1. TablesSafe' /\ Grown
  BY QuietTables DEF SafeInv
<1>2. RequestsAgree'
  <2> SUFFICES ASSUME NEW d \in DOMAIN request', NEW r, r = request'[d]
               PROVE  RequestAgrees(r)'
    BY DEF RequestsAgree
  <2>1. CASE d = c
    <3>1. r = new
      BY <2>1 DEF Put
    <3> QED
      BY <3>1, <1>1, RequestStaysAgreed
  <2>2. CASE d # c
    <3>1. d \in DOMAIN request /\ r = request[d]
      BY <2>2 DEF Put
    <3>2. RequestAgrees(r) /\ (r.kind = "update" => r.id \in DOMAIN items)
      BY <3>1 DEF SafeInv, CopiesAgree, RequestsAgree, StateOK, RequestOK
    <3> QED
      BY <3>2, <1>1, RequestStaysAgreed
  <2> QED
    BY <2>1, <2>2
<1>3. SweepAgrees'
  BY <1>1, SweepKept DEF SafeInv, CopiesAgree
<1>4. ReevalAgrees'
  BY <1>1, ReevalKept DEF SafeInv, CopiesAgree
<1> QED
  BY <1>1, <1>2, <1>3, <1>4 DEF CopiesAgree

(* Register: a row routed by a rule active now.                            *)
LEMMA RegisterSafe ==
  ASSUME SafeInv, NEW c, NEW ref \in Refs, NEW subject \in Subjects,
         Register(c, ref, subject)
  PROVE  TablesSafe' /\ CopiesAgree'
<1>1. PICK v, new :
        /\ v \in Adjudicate(rules, ActiveRules(now), subject, now)
        /\ request' = Put(request, c, new)
        /\ new = [kind |-> "register",
          row |-> [ref |-> ref, subject |-> subject, status |-> "adjudicated",
                   lead |-> RuleLead(rules[v].body.lead), version |-> v,
                   registeredAt |-> now, deadline |-> now + DeadlineTicks,
                   level |-> 0, completedAt |-> Never, cancelledAt |-> Never]]
  BY Zenon DEF Register
<1>2. v \in DOMAIN rules /\ rules[v].from <= now
  BY <1>1, AdjudicateGiven DEF ActiveRules
<1>3. RuleLead(rules[v].body.lead)[2] = <<>>
  BY DEF RuleLead
<1>4. new.kind = "register" /\ RequestAgrees(new)
  BY <1>1, <1>2, <1>3 DEF RequestAgrees, StampsAgree, InForce
<1>5. UNCHANGED <<rules, items, referrals, escalations, sweep, reeval>>
  BY DEF Register
<1> QED
  BY <1>1, <1>4, <1>5, RequestTaken

(* Prepare: a copy that agrees.                                            *)
LEMMA PrepareSafe ==
  ASSUME SafeInv, NEW c, NEW id \in DOMAIN items, NEW row,
         CopyAgrees(id, row), WasReferred(id, row), Prepare(c, id, row)
  PROVE  TablesSafe' /\ CopiesAgree'
<1>1. PICK new : new = [kind |-> "update", id |-> id, row |-> row]
  OBVIOUS
<1>2. new.kind = "update" /\ new.id = id /\ new.row = row
  BY <1>1
<1>3. RequestAgrees(new)
  BY <1>2 DEF RequestAgrees
<1>4. /\ request' = Put(request, c, new)
      /\ UNCHANGED <<rules, items, referrals, escalations, sweep, reeval>>
  BY <1>1 DEF Prepare
<1> QED
  BY <1>2, <1>3, <1>4, RequestTaken

(* A changed copy still agrees with its item when the change keeps the     *)
(* stamps right.                                                           *)
LEMMA ChangeAgrees ==
  ASSUME SafeInv, NEW id \in DOMAIN items, NEW row,
         row.ref = items[id].ref, row.registeredAt = items[id].registeredAt,
         row.lead = items[id].lead, row.version = items[id].version,
         row.level = items[id].level, StampsAgree(row)
  PROVE  CopyAgrees(id, row) /\ WasReferred(id, row)
BY DEF SafeInv, TablesSafe, LevelBacked, RoutingWasReferred, LevelAccounted,
       WasReferred, CopyAgrees

(* Every update request changes the copy along the transition table and    *)
(* stamps a closing one.                                                   *)
LEMMA UpdateReadSafe ==
  ASSUME SafeInv, NEW c, NEW id \in DOMAIN items,
         \/ StartProcessing(c, id)
         \/ \E s \in Subjects : Modify(c, id, s)
         \/ ReturnForCorrection(c, id)
         \/ Resubmit(c, id)
         \/ Cancel(c, id)
         \/ Complete(c, id)
  PROVE  TablesSafe' /\ CopiesAgree'
<1>1. items[id] \in ItemRow /\ StampsAgree(items[id]) /\ now \in Nat
  BY DEF SafeInv, StateOK, TablesOK, IsPartial, TablesSafe, ClosedStamped
<1>2. ASSUME NEW s \in Statuses, ValidTransition(items[id].status, s),
             s \notin {"completed", "cancelled"},
             Prepare(c, id, [items[id] EXCEPT !.status = s])
      PROVE  TablesSafe' /\ CopiesAgree'
  <2>1. PICK row : row = [items[id] EXCEPT !.status = s]
    OBVIOUS
  <2>2. StampsAgree(row)
    BY <1>1, <1>2, <2>1
       DEF ItemRow, StampsAgree, ValidTransition, CanTransition,
           TransitionTable, Statuses
  <2>3. CopyAgrees(id, row) /\ WasReferred(id, row)
    <3>1. /\ row.ref = items[id].ref /\ row.registeredAt = items[id].registeredAt
          /\ row.lead = items[id].lead /\ row.version = items[id].version
          /\ row.level = items[id].level
      BY <1>1, <2>1 DEF ItemRow
    <3> QED
      BY <2>2, <3>1, ChangeAgrees
  <2> QED
    BY <1>2, <2>1, <2>3, PrepareSafe
<1>3. CASE StartProcessing(c, id)
  BY <1>2, <1>3 DEF StartProcessing, Statuses
<1>4. CASE ReturnForCorrection(c, id)
  BY <1>2, <1>4 DEF ReturnForCorrection, Statuses
<1>5. CASE Resubmit(c, id)
  <2>1. PICK row : row = [items[id] EXCEPT !.status = "adjudicated"]
    OBVIOUS
  <2>2. /\ row.ref = items[id].ref /\ row.registeredAt = items[id].registeredAt
        /\ row.lead = items[id].lead /\ row.version = items[id].version
        /\ row.level = items[id].level /\ StampsAgree(row)
    BY <1>1, <1>5, <2>1
       DEF Resubmit, ItemRow, StampsAgree, ValidTransition, CanTransition,
           TransitionTable, Statuses
  <2> QED
    BY <1>5, <2>1, <2>2, ChangeAgrees, PrepareSafe DEF Resubmit
<1>6. CASE \E s \in Subjects : Modify(c, id, s)
  <2>1. PICK s, row :
          /\ s \in Subjects
          /\ row = [items[id] EXCEPT !.subject = s]
          /\ Prepare(c, id, row)
    BY <1>6, Zenon DEF Modify
  <2>2. /\ row.ref = items[id].ref /\ row.registeredAt = items[id].registeredAt
        /\ row.lead = items[id].lead /\ row.version = items[id].version
        /\ row.level = items[id].level /\ StampsAgree(row)
    BY <1>1, <2>1 DEF ItemRow, StampsAgree
  <2> QED
    BY <2>1, <2>2, ChangeAgrees, PrepareSafe
<1>7. CASE Cancel(c, id)
  <2>1. PICK row :
          row = [items[id] EXCEPT !.status = "cancelled", !.cancelledAt = now]
    OBVIOUS
  <2>2. /\ row.ref = items[id].ref /\ row.registeredAt = items[id].registeredAt
        /\ row.lead = items[id].lead /\ row.version = items[id].version
        /\ row.level = items[id].level
    BY <1>1, <2>1 DEF ItemRow
  <2>3. StampsAgree(row)
    BY <1>1, <1>7, <2>1
       DEF Cancel, ItemRow, StampsAgree, ValidTransition, CanTransition,
           TransitionTable, Statuses, Never
  <2> QED
    BY <1>7, <2>1, <2>2, <2>3, ChangeAgrees, PrepareSafe DEF Cancel
<1>8. CASE Complete(c, id)
  <2>1. PICK row :
          row = [items[id] EXCEPT !.status = "completed", !.completedAt = now]
    OBVIOUS
  <2>2. /\ row.ref = items[id].ref /\ row.registeredAt = items[id].registeredAt
        /\ row.lead = items[id].lead /\ row.version = items[id].version
        /\ row.level = items[id].level
    BY <1>1, <2>1 DEF ItemRow
  <2>3. StampsAgree(row)
    BY <1>1, <1>8, <2>1
       DEF Complete, ItemRow, StampsAgree, ValidTransition, CanTransition,
           TransitionTable, Statuses, Never
  <2> QED
    BY <1>8, <2>1, <2>2, <2>3, ChangeAgrees, PrepareSafe DEF Complete
<1> QED
  BY <1>3, <1>4, <1>5, <1>6, <1>7, <1>8

(* CreateRule holds no copy of an item.                                    *)
LEMMA CreateRuleSafe ==
  ASSUME SafeInv, NEW c, NEW body, NEW v, CreateRule(c, body, v)
  PROVE  TablesSafe' /\ CopiesAgree'
<1>1. PICK new : request' = Put(request, c, new) /\ new.kind = "rule"
  BY DEF CreateRule
<1>2. RequestAgrees(new)
  BY <1>1 DEF RequestAgrees
<1> QED
  BY <1>1, <1>2, RequestTaken DEF CreateRule

(* The sweep lists open items below the highest level.                     *)
LEMMA SweepBeginSafe ==
  ASSUME SafeInv, SweepBegin
  PROVE  TablesSafe' /\ CopiesAgree'
<1>1. TablesSafe' /\ Grown
  BY QuietTables DEF SafeInv, SweepBegin
<1>2. SweepAgrees'
  <2> SUFFICES ASSUME NEW e \in sweep'.todo
               PROVE  /\ CopyAgrees(e.id, e.row)'
                      /\ WasReferred(e.id, e.row)'
                      /\ e.row.level < MaxLevel
    BY DEF SweepAgrees
  <2>1. e.id \in DOMAIN items /\ e.row = items[e.id] /\ Overdue(e.id)
    BY DEF SweepBegin, NoSweep, FindOverdueItems
  <2>2. CopyAgrees(e.id, e.row) /\ WasReferred(e.id, e.row)
    BY <2>1 DEF SafeInv, TablesSafe, LevelBacked, ClosedStamped,
                RoutingWasReferred, CopyAgrees
  <2> QED
    BY <1>1, <2>1, <2>2, StaysAgreed, StaysReferred DEF Overdue
<1>3. RequestsAgree' /\ ReevalAgrees'
  BY <1>1, RequestsKept, ReevalKept DEF SafeInv, CopiesAgree, SweepBegin
<1> QED
  BY <1>1, <1>2, <1>3 DEF CopiesAgree

(* The worker reroutes an open item by a rule in force at its registration.*)
LEMMA ReevalReadSafe ==
  ASSUME SafeInv, NEW id \in reeval.todo, ReevalRead(id)
  PROVE  TablesSafe' /\ CopiesAgree'
<1>1. PICK v, row, p :
        /\ v \in Rerouting(id)
        /\ row = [items[id] EXCEPT !.status = "adjudicated",
                                   !.lead = RuleLead(rules[v].body.lead),
                                   !.version = v]
        /\ p = [id |-> id, row |-> row]
        /\ reeval' = [reeval EXCEPT !.pending = {p}]
  BY Zenon DEF ReevalRead
<1>2. id \in DOMAIN items /\ items[id] \in ItemRow
  BY DEF SafeInv, StateOK, ReevalOK, TablesOK, IsPartial
<1>3. /\ Reevaluable(items[id].status)
      /\ v \in DOMAIN rules /\ rules[v].from <= items[id].registeredAt
  BY <1>1, AdjudicateGiven DEF Rerouting, SafeInv, StateOK, ReevalOK
<1>4. /\ row.ref = items[id].ref /\ row.registeredAt = items[id].registeredAt
      /\ row.lead = RuleLead(rules[v].body.lead) /\ row.version = v
      /\ row.level = items[id].level /\ row.status = "adjudicated"
      /\ row.completedAt = items[id].completedAt
      /\ row.cancelledAt = items[id].cancelledAt
  BY <1>1, <1>2 DEF ItemRow
<1>5. StampsAgree(row)
  BY <1>2, <1>3, <1>4 DEF SafeInv, TablesSafe, ClosedStamped, StampsAgree,
                          Reevaluable
<1>6. Len(row.lead[2]) = 0
  BY <1>4 DEF RuleLead
<1>7. LevelAccounted(id, row)
  <2>1. items[id].level \in Nat
    BY <1>2 DEF ItemRow
  <2> QED
    BY <1>2, <1>4, <1>6, <2>1 DEF SafeInv, TablesSafe, LevelBacked, LevelAccounted
<1>8. CopyAgrees(id, row) /\ InForce(row.lead, row.version, row.registeredAt)
  BY <1>3, <1>4, <1>5, <1>7 DEF CopyAgrees, InForce
<1>9. TablesSafe' /\ Grown
  BY QuietTables DEF SafeInv, ReevalRead
<1>10. ReevalAgrees'
  <2>1. reeval'.pending = {p} /\ p.id = id /\ p.row = row
    BY <1>1 DEF SafeInv, StateOK, ReevalOK
  <2>2. CopyAgrees(id, row)' /\ InForce(row.lead, row.version, row.registeredAt)'
    BY <1>2, <1>8, <1>9, StaysAgreed, StaysInForce
  <2> SUFFICES ASSUME NEW q \in reeval'.pending
               PROVE  /\ CopyAgrees(q.id, q.row)'
                      /\ InForce(q.row.lead, q.row.version, q.row.registeredAt)'
    BY DEF ReevalAgrees
  <2> QED
    BY <2>1, <2>2
<1>11. RequestsAgree' /\ SweepAgrees'
  BY <1>9, RequestsKept, SweepKept DEF SafeInv, CopiesAgree, ReevalRead
<1> QED
  BY <1>9, <1>10, <1>11 DEF CopiesAgree

(* Every other step writes no table and takes no copy.                     *)
LEMMA QuietSafe ==
  ASSUME SafeInv,
         UNCHANGED <<rules, items, referrals, escalations>>,
         \A c \in DOMAIN request' :
           c \in DOMAIN request /\ request'[c] = request[c],
         sweep'.todo \subseteq sweep.todo,
         reeval'.pending \subseteq reeval.pending
  PROVE  TablesSafe' /\ CopiesAgree'
<1>1. TablesSafe' /\ Grown
  BY QuietTables DEF SafeInv
<1> QED
  BY <1>1, RequestsKept, SweepKept, ReevalKept DEF SafeInv, CopiesAgree

-----------------------------------------------------------------------------
(* The invariant.                                                          *)

(* No items, nothing in flight.                                            *)
LEMMA InitSafe == Init => SafeInv
<1> SUFFICES ASSUME Init PROVE SafeInv
  OBVIOUS
<1>1. DOMAIN items = {} /\ DOMAIN request = {}
      /\ sweep.todo = {} /\ reeval.pending = {}
  BY DEF Init, Empty, NoSweep, Idle
<1>2. StateOK
  BY InitStateOK
<1> QED
  BY <1>1, <1>2
     DEF SafeInv, TablesSafe, OneCurrentReferral, RefsUnique, RoutingWasReferred,
         ReferralInForce, ClosedStamped, LevelBacked, CopiesAgree,
         RequestsAgree, SweepAgrees, ReevalAgrees

(* A transaction ends its request, or drops one pending copy.              *)
LEMMA WriteSafe ==
  ASSUME SafeInv, NEW c, WriteSteps(c)
  PROVE  TablesSafe' /\ CopiesAgree'
<1>1. TablesSafe' /\ Grown
  BY CommitRegisterSafe, CommitUpdateSafe, CommitRuleSafe DEF WriteSteps
<1>2. /\ request' = Without(request, c)
      /\ UNCHANGED <<sweep, reeval>>
  BY DEF WriteSteps, CommitRegister, CommitUpdate, CommitRule
<1>3. \A d \in DOMAIN request' :
        d \in DOMAIN request /\ request'[d] = request[d]
  BY <1>2 DEF Without
<1> QED
  BY <1>1, <1>2, <1>3, RequestsKept, SweepKept, ReevalKept
     DEF SafeInv, CopiesAgree

(* The cycle holds no copy when it goes on to its next item.               *)
LEMMA NextItemEmpty ==
  ASSUME StateOK, NEW id
  PROVE  NextItem(id).pending = {}
BY DEF NextItem, Idle, StateOK, ReevalOK

(* Every step keeps the tables safe and the copies agreeing.               *)
LEMMA NextSafe == SafeInv /\ [AnyonesStep]_vars => SafeInv'
<1> SUFFICES ASSUME SafeInv, [AnyonesStep]_vars
             PROVE  TablesSafe' /\ CopiesAgree'
  BY NextStateOK DEF SafeInv
<1>1. CASE Tick
  BY <1>1, QuietSafe DEF Tick
<1>2. CASE \E c : ReadSteps(c)
  BY <1>2, RegisterSafe, UpdateReadSafe, CreateRuleSafe DEF ReadSteps
<1>3. CASE \E c : WriteSteps(c)
  BY <1>3, WriteSafe
<1>4. CASE SweepSteps
  <2>1. CASE SweepBegin
    BY <2>1, SweepBeginSafe
  <2>2. ASSUME NEW e \in sweep.todo, Escalate(e)
        PROVE  TablesSafe' /\ CopiesAgree'
    <3>1. TablesSafe' /\ Grown
      BY <2>2, EscalateSafe
    <3>2. sweep'.todo \subseteq sweep.todo /\ UNCHANGED <<request, reeval>>
      BY <2>2 DEF Escalate, AfterItem, NoSweep, SafeInv, StateOK, SweepOK
    <3> QED
      BY <3>1, <3>2, RequestsKept, SweepKept, ReevalKept DEF SafeInv, CopiesAgree
  <2>3. ASSUME NEW e \in sweep.todo, SweepRefused(e)
        PROVE  TablesSafe' /\ CopiesAgree'
    BY <2>3, QuietSafe DEF SweepRefused, NoSweep
  <2> QED
    BY <1>4, <2>1, <2>2, <2>3 DEF SweepSteps
<1>5. CASE ReevalSteps
  <2>1. CASE \/ ReevalBegin \/ ReevalRules \/ ReevalCollect
             \/ \E id \in reeval.todo : ReevalSkip(id)
    <3>1. reeval'.pending \subseteq reeval.pending
      <4>1. CASE ReevalBegin
        BY <4>1 DEF ReevalBegin, Idle
      <4>3. CASE ReevalCollect
        BY <4>3 DEF ReevalCollect, Idle, SafeInv, StateOK, ReevalOK
      <4>4. CASE ReevalRules
        BY <4>4 DEF ReevalRules, SafeInv, StateOK, ReevalOK
      <4>2. CASE \E id \in reeval.todo : ReevalSkip(id)
        BY <4>2, NextItemEmpty DEF ReevalSkip, SafeInv
      <4> QED
        BY <2>1, <4>1, <4>2, <4>3, <4>4
    <3> QED
      BY <2>1, <3>1, QuietSafe
         DEF ReevalBegin, ReevalRules, ReevalCollect, ReevalSkip
  <2>2. CASE \E id \in reeval.todo : ReevalRead(id)
    BY <2>2, ReevalReadSafe
  <2>3. ASSUME NEW p \in reeval.pending, ReevalCommit(p)
        PROVE  TablesSafe' /\ CopiesAgree'
    <3>1. TablesSafe' /\ Grown
      BY <2>3, ReevalCommitSafe
    <3>2. reeval' = NextItem(p.id) /\ UNCHANGED <<request, sweep>>
      BY <2>3, Zenon DEF ReevalCommit
    <3>3. reeval'.pending \subseteq reeval.pending
      BY <3>2, NextItemEmpty DEF SafeInv
    <3> QED
      BY <3>1, <3>2, <3>3, RequestsKept, SweepKept, ReevalKept
         DEF SafeInv, CopiesAgree
  <2> QED
    BY <1>5, <2>1, <2>2, <2>3 DEF ReevalSteps
<1>6. CASE \E c : Ended(c)
  BY <1>6, QuietSafe DEF Ended, Without
<1>7. CASE SweepFails
  BY <1>7, QuietSafe DEF SweepFails, NoSweep
<1>8. CASE (\E p \in reeval.pending : ReevalFails(p)) \/ ReevalStops
  <2>1. reeval'.pending = {}
    BY <1>8, NextItemEmpty DEF ReevalFails, ReevalStops, Idle, SafeInv
  <2> QED
    BY <1>8, <2>1, QuietSafe DEF ReevalFails, ReevalStops
<1>9. CASE UNCHANGED vars
  BY <1>9, QuietSafe DEF vars
<1> QED
  BY <1>1, <1>2, <1>3, <1>4, <1>5, <1>6, <1>7, <1>8, <1>9 DEF AnyonesStep

(* Every step, whoever takes it, takes nothing back.                       *)
LEMMA NextGrown == SafeInv /\ [AnyonesStep]_vars => Grown
<1> SUFFICES ASSUME SafeInv, [AnyonesStep]_vars PROVE Grown
  OBVIOUS
<1>1. CASE \E c : WriteSteps(c)
  BY <1>1, CommitRegisterSafe, CommitUpdateSafe, CommitRuleSafe DEF WriteSteps
<1>2. CASE \E e \in sweep.todo : Escalate(e)
  BY <1>2, EscalateSafe
<1>3. CASE \E p \in reeval.pending : ReevalCommit(p)
  BY <1>3, ReevalCommitSafe
<1>4. CASE \E c : ReadSteps(c)
  <2>1. UNCHANGED <<rules, items, referrals, escalations>>
    BY <1>4, Zenon
       DEF ReadSteps, Register, Prepare, StartProcessing, Modify,
           ReturnForCorrection, Resubmit, Cancel, Complete, CreateRule
  <2> QED
    BY <2>1, QuietTables DEF SafeInv
<1>5. CASE UNCHANGED <<rules, items, referrals, escalations>>
  BY <1>5, QuietTables DEF SafeInv
<1> QED
  BY <1>1, <1>2, <1>3, <1>4, <1>5
     DEF AnyonesStep, vars, Tick, SweepSteps, SweepBegin, SweepRefused,
         ReevalSteps, ReevalBegin, ReevalRules, ReevalCollect, ReevalSkip,
         ReevalRead, Ended, SweepFails, ReevalFails, ReevalStops

(* SafeInv is an invariant.                                                *)
THEOREM SafeInvariant == Spec => []SafeInv
<1>1. SafeInv /\ [Next]_vars => SafeInv'
  BY NextSafe, NextIsAnyonesStep
<1> QED
  BY <1>1, InitSafe, PTL DEF Spec

(* However sweeps, re-evaluation cycles and requests interleave, an item   *)
(* has exactly one current referral, the last one.                         *)
THEOREM CurrentReferralUnique == Spec => []OneCurrentReferral
<1>1. SafeInv => OneCurrentReferral
  BY DEF SafeInv, TablesSafe
<1> QED
  BY <1>1, SafeInvariant, PTL

(* One external reference names one item, however registrations race.      *)
THEOREM RegisteredOnce == Spec => []RefsUnique
<1>1. SafeInv => RefsUnique
  BY DEF SafeInv, TablesSafe
<1> QED
  BY <1>1, SafeInvariant, PTL

(* The lead and the rule version of an item are always those of one of its *)
(* own referrals, also after an old copy is written over it.               *)
THEOREM RoutingFromReferral == Spec => []RoutingWasReferred
<1>1. SafeInv => RoutingWasReferred
  BY DEF SafeInv, TablesSafe
<1> QED
  BY <1>1, SafeInvariant, PTL

(* What the adjudicator referred was in force when the item was registered.*)
THEOREM AdjudicatedByRulesInForce == Spec => []ReferralInForce
<1>1. SafeInv => ReferralInForce
  BY DEF SafeInv, TablesSafe
<1> QED
  BY <1>1, SafeInvariant, PTL

(* An item carries a closing instant exactly while it is closed.           *)
THEOREM ClosingInstants == Spec => []ClosedStamped
<1>1. SafeInv => ClosedStamped
  BY DEF SafeInv, TablesSafe
<1> QED
  BY <1>1, SafeInvariant, PTL

(* A level never passes the maximum and an escalation record backs it.     *)
THEOREM LevelsAccounted == Spec => []LevelBacked
<1>1. SafeInv => LevelBacked
  BY DEF SafeInv, TablesSafe
<1> QED
  BY <1>1, SafeInvariant, PTL

(* Whatever interleaves, the copies in flight keep agreeing with the items *)
(* they will be written to.                                                *)
THEOREM CopiesStayAgreed == Spec => []CopiesAgree
<1>1. SafeInv => CopiesAgree
  BY DEF SafeInv
<1> QED
  BY <1>1, SafeInvariant, PTL

(* A rule version keeps its content and never comes back from superseded.  *)
THEOREM RulesNeverRewritten == Spec => RulesImmutable
<1>1. TypeOK /\ [Next]_vars =>
        [\A v \in DOMAIN rules :
           /\ v \in DOMAIN rules'
           /\ rules'[v].body = rules[v].body
           /\ rules'[v].from = rules[v].from
           /\ rules[v].status = "superseded" =>
                rules'[v].status = "superseded"]_rules
  <2> SUFFICES ASSUME TypeOK, [Next]_vars, rules' # rules, NEW v \in DOMAIN rules
               PROVE  /\ v \in DOMAIN rules'
                      /\ rules'[v].body = rules[v].body
                      /\ rules'[v].from = rules[v].from
                      /\ rules[v].status = "superseded" =>
                           rules'[v].status = "superseded"
    OBVIOUS
  <2>1. PICK c \in Clients : CommitRule(c)
    BY DEF Next, vars, Tick, ReadSteps, Register, Prepare, StartProcessing, Modify,
           ReturnForCorrection, Resubmit, Cancel, Complete, CreateRule,
           WriteSteps, CommitRegister, CommitUpdate, SweepSteps, SweepBegin,
           Escalate, SweepRefused, ReevalSteps, ReevalBegin, ReevalRules,
           ReevalCollect, ReevalSkip, ReevalRead, ReevalCommit, Failures, RequestFails,
           SweepFails, ReevalFails, ReevalStops
  <2>2. PICK r :
          /\ r.version \notin DOMAIN rules
          /\ rules' = Put(SupersedeRule(r.supersede), r.version, r.row)
    BY <2>1, Zenon DEF CommitRule, VersionIsFree
  <2>3. rules[v] \in RuleRow
    BY DEF TypeOK, StateOK, RulesOK
  <2>4. /\ v \in DOMAIN rules'
        /\ rules'[v] = IF v = r.supersede
                       THEN [rules[v] EXCEPT !.status = "superseded"]
                       ELSE rules[v]
    BY <2>2 DEF Put, SupersedeRule
  <2> QED
    BY <2>3, <2>4 DEF RuleRow
<1> QED
  BY <1>1, TypeCorrect, PTL DEF Spec, RulesImmutable

-----------------------------------------------------------------------------
(* The routing shown on an item, when fewer writers overlap.               *)

(* No request but registrations and new rules; or no loop.                 *)
NoUpdates == Requests \subseteq {"register", "rule"}
NoLoops == Background = {}

(* The copies of requests show the routing of their item: there are none   *)
(* beside a loop.                                                          *)
UpdatesAgree ==
  \A c \in DOMAIN request :
    request[c].kind = "update" =>
      /\ NoLoops
      /\ request[c].row.lead = items[request[c].id].lead
      /\ request[c].row.version = items[request[c].id].version

LoopsRest == sweep.todo = {} /\ reeval = Idle

RoutingInv == RoutingAgrees /\ UpdatesAgree /\ (NoLoops => LoopsRest)

(* After a rerouting the last referral is the new one.                     *)
LEMMA RerouteLast ==
  ASSUME StateOK, NEW id \in DOMAIN items,
         NEW lead \in Leads, NEW v \in Nat,
         NEW by \in {"system", "system_escalation"},
         Reroute(id, lead, v, by)
  PROVE  /\ referrals'[id][Len(referrals'[id])].lead = lead
         /\ referrals'[id][Len(referrals'[id])].version = v
         /\ \A j \in DOMAIN items \ {id} : referrals'[j] = referrals[j]
<1> DEFINE r == [lead |-> lead, version |-> v, by |-> by, current |-> TRUE]
           new == Append(Supersede(referrals[id]), r)
<1>1. referrals[id] \in Seq(Referral) /\ DOMAIN referrals = DOMAIN items
  BY DEF StateOK, TablesOK, IsPartial
<1>2. r \in Referral
  BY DEF Referral
<1>3. new[Len(new)] = r
  BY <1>1, <1>2, SupersedeAppend
<1>4. r.lead = lead /\ r.version = v
  OBVIOUS
<1> HIDE DEF new, r
<1>5. \A j \in DOMAIN items :
        referrals'[j] = IF j = id THEN new ELSE referrals[j]
  BY <1>1 DEF Reroute, Put, new, r
<1> QED
  BY <1>3, <1>4, <1>5

(* A step that writes no routing leaves it to agree.                       *)
LEMMA RoutingKept ==
  ASSUME StateOK, RoutingInv, DOMAIN items' = DOMAIN items,
         \A id \in DOMAIN items : /\ items'[id].lead = items[id].lead
                                  /\ items'[id].version = items[id].version
                                  /\ referrals'[id] = referrals[id],
         \A c \in DOMAIN request' :
           c \in DOMAIN request /\ request'[c] = request[c]
  PROVE  RoutingAgrees' /\ UpdatesAgree'
<1>1. RoutingAgrees'
  BY DEF RoutingInv, RoutingAgrees
<1>2. UpdatesAgree'
  <2> SUFFICES ASSUME NEW c \in DOMAIN request', NEW r, r = request'[c],
                      r.kind = "update"
               PROVE  /\ NoLoops
                      /\ r.row.lead = items'[r.id].lead
                      /\ r.row.version = items'[r.id].version
    BY DEF UpdatesAgree
  <2>1. c \in DOMAIN request /\ r = request[c]
    OBVIOUS
  <2>2. r.id \in DOMAIN items
    BY <2>1 DEF StateOK, RequestOK
  <2> QED
    BY <2>1, <2>2 DEF RoutingInv, UpdatesAgree
<1> QED
  BY <1>1, <1>2

(* A loop writes routing and referral together, where there are no updates.*)
LEMMA RoutingRewritten ==
  ASSUME StateOK, RoutingInv, ~ NoLoops, NEW id \in DOMAIN items,
         NEW row \in ItemRow, NEW by \in {"system", "system_escalation"},
         Reroute(id, row.lead, row.version, by), items' = Put(items, id, row),
         request' = request
  PROVE  RoutingAgrees' /\ UpdatesAgree'
<1>1. row.lead \in Leads /\ row.version \in Nat
  BY DEF ItemRow
<1>2. /\ referrals'[id][Len(referrals'[id])].lead = row.lead
      /\ referrals'[id][Len(referrals'[id])].version = row.version
      /\ \A j \in DOMAIN items \ {id} : referrals'[j] = referrals[j]
  BY <1>1, RerouteLast
<1>3. /\ DOMAIN items' = DOMAIN items
      /\ \A j \in DOMAIN items : items'[j] = IF j = id THEN row ELSE items[j]
  BY DEF Put
<1>4. RoutingAgrees'
  BY <1>2, <1>3 DEF RoutingInv, RoutingAgrees
<1> QED
  BY <1>4 DEF RoutingInv, UpdatesAgree

(* A registration writes both; a request writes the routing it has read.   *)
LEMMA WriteRouting ==
  ASSUME StateOK, RoutingInv, NEW c, WriteSteps(c)
  PROVE  RoutingAgrees' /\ UpdatesAgree'
<1>1. CASE CommitRule(c)
  BY <1>1, RoutingKept DEF CommitRule, Without
<1>2. CASE CommitUpdate(c)
  <2>1. PICK r :
          /\ r = request[c] /\ r.kind = "update" /\ c \in DOMAIN request
          /\ items' = Put(items, r.id, r.row)
    BY <1>2 DEF CommitUpdate, InFlight
  <2>2. /\ r.id \in DOMAIN items
        /\ r.row.lead = items[r.id].lead
        /\ r.row.version = items[r.id].version
    BY <2>1 DEF StateOK, RequestOK, RoutingInv, UpdatesAgree
  <2>3. /\ DOMAIN items' = DOMAIN items
        /\ \A id \in DOMAIN items : /\ items'[id].lead = items[id].lead
                                    /\ items'[id].version = items[id].version
    BY <2>1, <2>2 DEF Put
  <2> QED
    BY <1>2, <2>3, RoutingKept DEF CommitUpdate, Without
<1>3. CASE CommitRegister(c)
  <2>1. PICK row, first, id :
          /\ first = [lead |-> row.lead, version |-> row.version,
                      by |-> "system", current |-> TRUE]
          /\ id \notin DOMAIN items
          /\ items' = Put(items, id, row)
          /\ referrals' = Put(referrals, id, <<first>>)
    BY <1>3, Zenon DEF CommitRegister
  <2>2. /\ first.lead = row.lead /\ first.version = row.version
        /\ <<first>>[Len(<<first>>)] = first
    BY <2>1
  <2>3. /\ DOMAIN items' = DOMAIN items \cup {id}
        /\ \A j \in DOMAIN items' :
             /\ items'[j] = IF j = id THEN row ELSE items[j]
             /\ referrals'[j] = IF j = id THEN <<first>> ELSE referrals[j]
    BY <2>1 DEF Put, StateOK, TablesOK
  <2>4. RoutingAgrees'
    BY <2>2, <2>3 DEF RoutingInv, RoutingAgrees
  <2>5. UpdatesAgree'
    <3> SUFFICES ASSUME NEW d \in DOMAIN request', NEW r, r = request'[d],
                        r.kind = "update"
                 PROVE  /\ NoLoops
                        /\ r.row.lead = items'[r.id].lead
                        /\ r.row.version = items'[r.id].version
      BY DEF UpdatesAgree
    <3>1. d \in DOMAIN request /\ r = request[d]
      BY <1>3 DEF CommitRegister, Without
    <3>2. r.id \in DOMAIN items
      BY <3>1 DEF StateOK, RequestOK
    <3> QED
      BY <2>1, <2>3, <3>1, <3>2 DEF RoutingInv, UpdatesAgree
  <2> QED
    BY <2>4, <2>5
<1> QED
  BY <1>1, <1>2, <1>3 DEF WriteSteps

(* Every step keeps the routing where one kind of writer is left out.      *)
LEMMA NextRouting ==
  ASSUME NoUpdates \/ NoLoops
  PROVE  StateOK /\ RoutingInv /\ [AnyonesStep]_vars => RoutingInv'
<1> SUFFICES ASSUME StateOK, RoutingInv, [AnyonesStep]_vars PROVE RoutingInv'
  OBVIOUS
<1>1. NoLoops => LoopsRest'
  <2> SUFFICES ASSUME NoLoops PROVE LoopsRest'
    OBVIOUS
  <2>1. LoopsRest
    BY DEF RoutingInv
  <2>2. UNCHANGED <<sweep, reeval>>
    BY <2>1 DEF NoLoops, LoopsRest, Idle, AnyonesStep, vars, Tick, ReadSteps,
        Register, Prepare, StartProcessing, Modify, ReturnForCorrection,
        Resubmit, Cancel, Complete, CreateRule, WriteSteps, CommitRegister,
        CommitUpdate, CommitRule, SweepSteps, SweepBegin, Escalate,
        SweepRefused, ReevalSteps, ReevalBegin, ReevalRules, ReevalCollect,
        ReevalSkip, ReevalRead, ReevalCommit, Ended, SweepFails,
        ReevalFails, ReevalStops
  <2> QED
    BY <2>1, <2>2 DEF LoopsRest
<1> SUFFICES RoutingAgrees' /\ UpdatesAgree'
  BY <1>1 DEF RoutingInv
<1>2. ASSUME NEW c, ReadSteps(c) PROVE RoutingAgrees' /\ UpdatesAgree'
  <2>1. UNCHANGED <<items, referrals>>
    BY <1>2, Zenon
       DEF ReadSteps, Register, Prepare, StartProcessing, Modify,
           ReturnForCorrection, Resubmit, Cancel, Complete, CreateRule
  <2>2. RoutingAgrees'
    BY <2>1 DEF RoutingInv, RoutingAgrees
  <2>3. PICK new :
          /\ request' = Put(request, c, new)
          /\ new.kind = "update" =>
               /\ NoLoops
               /\ new.row.lead = items[new.id].lead
               /\ new.row.version = items[new.id].version
    <3> DEFINE Fits(new) ==
                 /\ request' = Put(request, c, new)
                 /\ new.kind = "update" =>
                      /\ NoLoops
                      /\ new.row.lead = items[new.id].lead
                      /\ new.row.version = items[new.id].version
    <3>1. ASSUME \E ref \in Refs, s \in Subjects : Register(c, ref, s)
          PROVE  \E new : Fits(new)
      BY <3>1 DEF Register
    <3>2. ASSUME \E body \in RuleBodies, v \in 0 .. MaxVersion :
                   CreateRule(c, body, v)
          PROVE  \E new : Fits(new)
      BY <3>2 DEF CreateRule
    <3>3. ASSUME NEW id \in DOMAIN items,
                 \/ StartProcessing(c, id)
                 \/ \E s \in Subjects : Modify(c, id, s)
                 \/ ReturnForCorrection(c, id)
                 \/ Resubmit(c, id)
                 \/ Cancel(c, id)
                 \/ Complete(c, id)
          PROVE  \E new : Fits(new)
      <4>1. items[id] \in ItemRow
        BY DEF StateOK, TablesOK, IsPartial
      <4>2. ~ NoUpdates
        BY <3>3 DEF NoUpdates, StartProcessing, Modify, ReturnForCorrection,
                    Resubmit, Cancel, Complete, Free
      <4>3. \E row : /\ row.lead = items[id].lead
                     /\ row.version = items[id].version
                     /\ Prepare(c, id, row)
        BY <3>3, <4>1 DEF ItemRow, StartProcessing, Modify, ReturnForCorrection,
                          Resubmit, Cancel, Complete
      <4>4. PICK row, new : /\ row.lead = items[id].lead
                            /\ row.version = items[id].version
                            /\ new = [kind |-> "update", id |-> id, row |-> row]
                            /\ request' = Put(request, c, new)
        BY <4>3 DEF Prepare
      <4>5. new.id = id /\ new.row = row
        BY <4>4
      <4> QED
        BY <4>2, <4>4, <4>5
    <3> HIDE DEF Fits
    <3>4. \E new : Fits(new)
      BY <1>2, <3>1, <3>2, <3>3 DEF ReadSteps
    <3> QED
      BY <3>4 DEF Fits
  <2>4. UpdatesAgree'
    BY <2>1, <2>3 DEF RoutingInv, UpdatesAgree, Put
  <2> QED
    BY <2>2, <2>4
<1>3. ASSUME NEW e \in sweep.todo, Escalate(e)
      PROVE  RoutingAgrees' /\ UpdatesAgree'
  <2>1. ~ NoLoops
    BY DEF RoutingInv, LoopsRest
  <2>2. e.row \in ItemRow /\ e.id \in DOMAIN items /\ sweep.at \in Nat
    BY DEF StateOK, SweepOK, Copy
  <2>3. PICK level, lead, row :
          /\ level = e.row.level + 1
          /\ lead = EscalationDepartmentName(e.row.lead, level)
          /\ row = EscalatedRow(e.row, level, lead, sweep.at + ExtensionTicks)
    OBVIOUS
  <2>4. level \in Nat /\ lead \in Leads /\ sweep.at + ExtensionTicks \in Nat
    <3>1. level \in Nat /\ e.row.lead \in Leads
      BY <2>2, <2>3 DEF ItemRow
    <3>2. sweep.at + ExtensionTicks \in Nat
      BY <2>2, ServiceAssumption
    <3> QED
      BY <2>3, <3>1, <3>2, EscalationLeadType
  <2>5. row \in ItemRow /\ row.lead = lead /\ row.version = e.row.version
    BY <2>2, <2>3, <2>4 DEF EscalatedRow, ItemRow, Statuses
  <2>6. /\ Reroute(e.id, lead, e.row.version, "system_escalation")
        /\ items' = Put(items, e.id, row)
        /\ request' = request
    BY <1>3, <2>3, Zenon DEF Escalate
  <2> QED
    BY <2>1, <2>2, <2>5, <2>6, RoutingRewritten
<1>4. ASSUME NEW p \in reeval.pending, ReevalCommit(p)
      PROVE  RoutingAgrees' /\ UpdatesAgree'
  <2>1. ~ NoLoops
    BY DEF RoutingInv, LoopsRest, Idle
  <2>2. p.row \in ItemRow /\ p.id \in DOMAIN items
    BY DEF StateOK, ReevalOK, Copy
  <2> QED
    BY <1>4, <2>1, <2>2, RoutingRewritten DEF ReevalCommit
<1>5. CASE /\ UNCHANGED <<items, referrals>>
           /\ \A c \in DOMAIN request' :
                c \in DOMAIN request /\ request'[c] = request[c]
  <2>1. items' = items /\ referrals' = referrals
    BY <1>5
  <2>2. \A id \in DOMAIN items : /\ items'[id].lead = items[id].lead
                                 /\ items'[id].version = items[id].version
                                 /\ referrals'[id] = referrals[id]
    BY <2>1
  <2>3. \A c \in DOMAIN request' :
          c \in DOMAIN request /\ request'[c] = request[c]
    BY <1>5
  <2>4. DOMAIN items' = DOMAIN items
    BY <2>1
  <2> QED
    BY <2>2, <2>3, <2>4, RoutingKept
<1>6. CASE /\ UNCHANGED <<items, referrals>>
           /\ request' = request \/ \E c : request' = Without(request, c)
  BY <1>5, <1>6 DEF Without
<1> QED
  BY <1>2, <1>3, <1>4, <1>6, WriteRouting
     DEF AnyonesStep, vars, Tick, SweepSteps, SweepBegin, SweepRefused,
         ReevalSteps, ReevalBegin, ReevalRules, ReevalCollect, ReevalSkip,
         ReevalRead, Ended, SweepFails, ReevalFails, ReevalStops

(* Beside the loops and registrations alone, or beside requests alone, the *)
(* lead department and rule version shown on an item are those of its      *)
(* current referral.                                                       *)
THEOREM RoutingShownIsCurrent ==
  ASSUME NoUpdates \/ NoLoops
  PROVE  Spec => []RoutingAgrees
<1>1. Init => StateOK /\ RoutingInv
  BY InitStateOK
     DEF Init, Empty, NoSweep, RoutingInv, RoutingAgrees, UpdatesAgree, LoopsRest
<1>2. (StateOK /\ RoutingInv) /\ [Next]_vars => (StateOK /\ RoutingInv)'
  BY NextStateOK, NextRouting, NextIsAnyonesStep
<1>3. RoutingInv => RoutingAgrees
  BY DEF RoutingInv
<1> QED
  BY <1>1, <1>2, <1>3, PTL DEF Spec

-----------------------------------------------------------------------------
(* The choice of a rule.                                                   *)

(* The least of some naturals.                                             *)
LEMMA LeastNatural ==
  ASSUME NEW T \in SUBSET Nat, T # {}
  PROVE  \E n \in T : \A m \in T : n <= m
<1>1. PICK n \in T : \A m \in T : ~ (<<m, n>> \in OpToRel(<, Nat))
  BY NatLessThanWellFounded, WFMin
<1>2. ASSUME NEW m \in T
      PROVE  n <= m
  <2>1. ~ (m < n)
    BY <1>1 DEF OpToRel
  <2>2. m \in Nat /\ n \in Nat
    OBVIOUS
  <2> QED
    BY <2>1, <2>2
<1> QED
  BY <1>2

OutranksAll(table, S, v) == \A w \in S \ {v} : Outranks(table, v, w)

(* Among versions up to n, one outranks all others: a least n for which    *)
(* some versions had no first would have one without n, and whichever of   *)
(* that one and n has the higher priority is the first of all.             *)
LEMMA OneIsFirst ==
  ASSUME NEW table, NEW k \in Nat, NEW S \in SUBSET (1 .. k), S # {},
         \A v \in S : table[v].body.priority \in Int
  PROVE  \E v \in S : OutranksAll(table, S, v)
<1> DEFINE Headless(T) == T # {} /\ ~ \E v \in T : OutranksAll(table, T, v)
           Bad == {n \in Nat : \E T \in SUBSET S :
                     T \in SUBSET (1 .. n) /\ Headless(T)}
<1>1. Bad = {}
  <2> SUFFICES ASSUME Bad # {}
               PROVE  FALSE
    OBVIOUS
  <2>1. PICK n \in Bad : \A m \in Bad : n <= m
    <3>1. Bad \in SUBSET Nat
      OBVIOUS
    <3> HIDE DEF Bad
    <3> QED
      BY <3>1, LeastNatural
  <2>2. PICK T \in SUBSET S : T \in SUBSET (1 .. n) /\ Headless(T)
    OBVIOUS
  <2>3. n \in Nat /\ n # 0 /\ n - 1 \in Nat
    <3>1. n \in Nat
      OBVIOUS
    <3>2. n # 0
      <4>1. PICK v \in T : v \in 1 .. n
        BY <2>2
      <4>2. v \in Nat /\ 1 <= v /\ v <= n
        BY <3>1, <4>1
      <4> QED
        BY <3>1, <4>2
    <3> HIDE DEF Bad
    <3> QED
      BY <3>1, <3>2
  <2>4. n - 1 \notin Bad
    <3> HIDE DEF Bad
    <3> QED
      BY <2>1, <2>3
  <2> PICK U : U = T \ {n}
    OBVIOUS
  <2>5. U \in SUBSET S /\ U \in SUBSET (1 .. n - 1) /\ ~ Headless(U)
    <3>1. U \in SUBSET S
      OBVIOUS
    <3>2. ASSUME NEW v \in U
          PROVE  v \in 1 .. n - 1
      <4>1. v \in 1 .. n /\ v # n
        BY <2>2
      <4> HIDE DEF Bad
      <4> QED
        BY <2>3, <4>1
    <3>3. U \in SUBSET (1 .. n - 1)
      BY <3>2
    <3>4. ~ Headless(U)
      <4>1. Headless(U) => n - 1 \in Bad
        <5> HIDE DEF Headless
        <5> QED
          BY <2>3, <3>1, <3>3
      <4> QED
        BY <2>4, <4>1
    <3> QED
      BY <3>1, <3>3, <3>4
  <2>6. n \in T
    <3>1. ASSUME n \notin T
          PROVE  U = T
      BY <3>1
    <3> QED
      BY <3>1, <2>2, <2>5
  <2>7. U # {}
    <3>1. ASSUME U = {}
          PROVE  OutranksAll(table, T, n)
      BY <3>1 DEF OutranksAll
    <3> QED
      BY <3>1, <2>2, <2>6
  <2>8. PICK v \in U : OutranksAll(table, U, v)
    BY <2>5, <2>7
  <2>9. /\ v \in T /\ v \in Nat /\ v < n
        /\ table[v].body.priority \in Int
        /\ table[n].body.priority \in Int
    BY <2>2, <2>3, <2>5, <2>6
  <2>10. CASE table[v].body.priority > table[n].body.priority
    <3>1. OutranksAll(table, T, v)
      BY <2>8, <2>10 DEF OutranksAll, Outranks
    <3> QED
      BY <2>2, <2>9, <3>1
  <2>11. CASE ~ (table[v].body.priority > table[n].body.priority)
    <3>1. ASSUME NEW w \in T \ {n}
          PROVE  Outranks(table, n, w)
      <4>1. /\ w \in U /\ w \in Nat /\ w < n
            /\ table[w].body.priority \in Int
        BY <2>2, <2>3, <2>5
      <4>2. w = v \/ Outranks(table, v, w)
        BY <2>8, <4>1 DEF OutranksAll
      <4> QED
        BY <2>9, <2>11, <4>1, <4>2 DEF Outranks
    <3>2. OutranksAll(table, T, n)
      BY <3>1 DEF OutranksAll
    <3> QED
      BY <2>2, <2>6, <3>2
  <2> QED
    BY <2>10, <2>11
<1>2. ~ Headless(S)
  BY <1>1
<1> QED
  BY <1>2

(* No two outrank each other.                                              *)
LEMMA OneAtMost ==
  ASSUME NEW table, NEW S \in SUBSET Nat,
         \A v \in S : table[v].body.priority \in Int,
         NEW v \in S, NEW w \in S,
         OutranksAll(table, S, v), OutranksAll(table, S, w)
  PROVE  v = w
<1> SUFFICES ASSUME v # w
             PROVE  FALSE
  OBVIOUS
<1>1. Outranks(table, v, w) /\ Outranks(table, w, v)
  BY DEF OutranksAll
<1> QED
  BY <1>1 DEF Outranks

(* Whatever rules were read, in whatever order, and whatever they say of   *)
(* an item: if one of them that was in force matches it, exactly one       *)
(* routes it, and it is one of those that do (Adjudicator.Adjudicate).     *)
THEOREM AdjudicationDecides ==
  ASSUME NEW table, NEW vs \in SUBSET (1 .. MaxVersion),
         \A v \in vs : table[v].body.priority \in Int,
         NEW subject, NEW t,
         \E v \in vs : table[v].from <= t /\ Matches(table[v].body, subject)
  PROVE  \E v \in vs : /\ Adjudicate(table, vs, subject, t) = {v}
                       /\ table[v].from <= t
                       /\ Matches(table[v].body, subject)
<1> PICK matched : matched = {v \in vs : /\ table[v].from <= t
                                        /\ Matches(table[v].body, subject)}
  OBVIOUS
<1>1. /\ matched # {} /\ matched \in SUBSET (1 .. MaxVersion)
      /\ matched \in SUBSET Nat
      /\ \A v \in matched : table[v].body.priority \in Int
  <2>1. matched # {}
    OBVIOUS
  <2>2. matched \in SUBSET vs
    OBVIOUS
  <2>3. vs \in SUBSET Nat
    BY ServiceAssumption
  <2> QED
    BY <2>1, <2>2, <2>3
<1>2. PICK v \in matched : OutranksAll(table, matched, v)
  BY <1>1, OneIsFirst, ServiceAssumption
<1>3. \A w \in matched : OutranksAll(table, matched, w) => w = v
  BY <1>1, <1>2, OneAtMost
<1>4. Adjudicate(table, vs, subject, t)
        = {w \in matched : OutranksAll(table, matched, w)}
  BY DEF Adjudicate, OutranksAll
<1>5. Adjudicate(table, vs, subject, t) = {v}
  BY <1>2, <1>3, <1>4
<1> QED
  BY <1>5

(* While a default rule is active, no item goes without a rule: whatever   *)
(* else is active and whatever rules are created beside it, a registration *)
(* is routed, by exactly one rule in force (hubctl init, Adjudicate).      *)
DefaultRoutesAll ==
  \A subject \in Subjects, d \in ActiveRules(now) :
    rules[d].body.isDefault =>
      \E v \in ActiveRules(now) :
        Adjudicate(rules, ActiveRules(now), subject, now) = {v}

THEOREM DefaultRuleRoutesAll == Spec => []DefaultRoutesAll
<1>1. StateOK => DefaultRoutesAll
  <2> SUFFICES ASSUME StateOK, NEW subject \in Subjects,
                      NEW d \in ActiveRules(now), rules[d].body.isDefault
               PROVE  \E v \in ActiveRules(now) :
                        Adjudicate(rules, ActiveRules(now), subject, now) = {v}
    BY DEF DefaultRoutesAll
  <2>1. /\ ActiveRules(now) \in SUBSET (1 .. MaxVersion)
        /\ \A v \in ActiveRules(now) : rules[v].body.priority \in Int
        /\ rules[d].from <= now
    <3>1. PICK n \in 0 .. MaxVersion : DOMAIN rules = 1 .. n
      BY DEF StateOK, RulesOK
    <3>2. DOMAIN rules \in SUBSET (1 .. MaxVersion)
      BY <3>1, ServiceAssumption
    <3>3. ActiveRules(now) \in SUBSET DOMAIN rules
      BY DEF ActiveRules
    <3>4. ASSUME NEW v \in DOMAIN rules
          PROVE  rules[v].body.priority \in Int
      <4>1. rules[v].body \in AllBodies
        BY ServiceAssumption DEF StateOK, RulesOK, RuleRow
      <4> QED
        BY <4>1 DEF AllBodies
    <3>5. rules[d].from <= now
      BY DEF ActiveRules, IsActiveAt
    <3> QED
      BY <3>2, <3>3, <3>4, <3>5
  <2>2. Matches(rules[d].body, subject)
    BY DEF Matches
  <2> QED
    BY <2>1, <2>2, AdjudicationDecides
<1>2. SafeInv => StateOK
  BY DEF SafeInv
<1> QED
  BY <1>1, <1>2, SafeInvariant, PTL

(* Nothing the copies in flight were checked against is ever taken back,   *)
(* by any step of anyone: rules keep what they say, items keep their       *)
(* reference and registration instant, referrals and escalations are only  *)
(* added to (case_service.go, escalation_service.go, reeval.go).           *)
THEOREM HistoryOnlyGrows == Spec => [][Grown]_vars
<1>1. SafeInv /\ [Next]_vars => [Grown]_vars
  BY NextGrown, NextIsAnyonesStep
<1> QED
  BY <1>1, SafeInvariant, PTL DEF Spec
=============================================================================
