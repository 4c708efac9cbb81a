---------------------------- MODULE CaseService -----------------------------
(***************************************************************************)
(* The services that move a compliance case (internal/service), the        *)
(* escalation sweep and the re-evaluation worker, over the SQLite index.   *)
(*                                                                         *)
(* The index has a single connection, so each query and each transaction   *)
(* is one atomic step.  Every operation is two such steps with nothing     *)
(* held in between: it reads a row, checks and changes its copy, and later *)
(* writes all columns of the copy back in one transaction.  Between the    *)
(* two any other operation may run: HTTP requests (Clients), one           *)
(* escalation sweep and one re-evaluation cycle.                           *)
(*                                                                         *)
(* Each transaction also appends one audit entry; no decision here reads   *)
(* the audit trail, and it is left out.                                    *)
(***************************************************************************)
EXTENDS CaseDomain, FiniteSets

CONSTANTS
  ItemIds,         (* ids the service may give to items                    *)
  Refs,            (* external references clients register                 *)
  Subjects,        (* what clients say of an item (category, keywords)     *)
  RuleBodies,      (* what clients say of a new rule                       *)
  InitialRules,    (* the rules in the index when the process starts       *)
  Clients,         (* HTTP requests served concurrently                    *)
  Requests,        (* the kinds of requests the clients send               *)
  Background,      (* the loops running: "escalation", "reeval"            *)
  DeadlineTicks,   (* business.default_deadline                            *)
  ExtensionTicks,  (* business.escalation_deadline_extension               *)
  MaxLevel,        (* business.max_escalation_level                        *)
  MaxTime,         (* bound: the clock stops there                         *)
  MaxVersion,      (* bound: rules ever created                            *)
  MaxReferrals     (* bound: referrals of one item                         *)

RequestKinds == {"register", "start", "modify", "return", "resubmit",
                 "cancel", "complete", "rule"}

ASSUME ServiceAssumption ==
  /\ Subjects \subseteq AllSubjects
  /\ RuleBodies \subseteq AllBodies
  /\ InitialRules \in Seq(RuleBodies)
  /\ Len(InitialRules) <= MaxVersion
  /\ Requests \subseteq RequestKinds
  /\ Background \subseteq {"escalation", "reeval"}
  /\ DeadlineTicks \in Nat \ {0}
  /\ ExtensionTicks \in Nat \ {0}
  /\ MaxLevel \in Nat \ {0}
  /\ MaxTime \in Nat
  /\ MaxVersion \in Nat
  /\ MaxReferrals \in Nat

VARIABLES
  now,          (* the injected clock, in ticks                            *)
  rules,        (* table rules: version -> row                             *)
  items,        (* table items: id -> row                                  *)
  referrals,    (* table assignments: id -> referrals, oldest first        *)
  escalations,  (* table escalations: id -> records, oldest first          *)
  request,      (* client -> the request between its read and its write    *)
  sweep,        (* the overdue items the escalation sweep has still to do  *)
  reeval        (* the re-evaluation cycle in progress                     *)

vars == <<now, rules, items, referrals, escalations, request, sweep, reeval>>

-----------------------------------------------------------------------------
(* Rows.                                                                   *)

Never == -1

ItemRow ==
  [ref : Refs, subject : Subjects, status : Statuses, lead : Leads,
   version : Nat, registeredAt : Nat, deadline : Nat, level : Nat,
   completedAt : Nat \cup {Never}, cancelledAt : Nat \cup {Never}]

RuleRow == [body : RuleBodies, from : Nat, status : RuleStatuses]

Referral == [lead : Leads, version : Nat,
             by : {"system", "system_escalation"}, current : BOOLEAN]

Escalation == [from : Nat, to : Nat, oldLead : Leads, newLead : Leads]

(* f with k mapped to v, f without k.                                      *)
Put(f, k, v) == [x \in DOMAIN f \cup {k} |-> IF x = k THEN v ELSE f[x]]
Without(f, k) == [x \in DOMAIN f \ {k} |-> f[x]]

HighestOf(S) == IF S = {} THEN 0 ELSE CHOOSE v \in S : \A w \in S : w <= v

CurrentRuleVersion == HighestOf(DOMAIN rules)

ActiveRules(t) == {v \in DOMAIN rules : IsActiveAt(rules[v], t)}

-----------------------------------------------------------------------------
Idle == [phase |-> "idle", current |-> 0, rules |-> {}, todo |-> {},
         pending |-> {}]

NoSweep == [at |-> 0, todo |-> {}]

Empty == [x \in {} |-> {}]

Init ==
  /\ now = 0
  /\ rules = [v \in DOMAIN InitialRules |->
                [body |-> InitialRules[v], from |-> 0, status |-> "active"]]
  /\ items = Empty
  /\ referrals = Empty
  /\ escalations = Empty
  /\ request = Empty
  /\ sweep = NoSweep
  /\ reeval = Idle

Tick ==
  /\ now < MaxTime
  /\ now' = now + 1
  /\ UNCHANGED <<rules, items, referrals, escalations, request, sweep, reeval>>

-----------------------------------------------------------------------------
(* Requests: the step that reads and validates.  A request that fails a    *)
(* check answers with an error and changes nothing, so it is no step.      *)

Free(c, kind) == kind \in Requests /\ c \notin DOMAIN request

(* Register: a known external_ref answers with the stored item.  The new   *)
(* item is routed by the rules active now; without one it is refused.      *)
Register(c, ref, subject) ==
  /\ Free(c, "register")
  /\ \A id \in DOMAIN items : items[id].ref # ref
  /\ \E v \in Adjudicate(rules, ActiveRules(now), subject, now) :
       request' = Put(request, c,
         [kind |-> "register",
          row |-> [ref |-> ref, subject |-> subject, status |-> "adjudicated",
                   lead |-> RuleLead(rules[v].body.lead), version |-> v,
                   registeredAt |-> now, deadline |-> now + DeadlineTicks,
                   level |-> 0, completedAt |-> Never,
                   cancelledAt |-> Never]])
  /\ UNCHANGED <<now, rules, items, referrals, escalations, sweep, reeval>>

(* The copy an update request holds until it writes it back.               *)
Prepare(c, id, row) ==
  /\ request' = Put(request, c, [kind |-> "update", id |-> id, row |-> row])
  /\ UNCHANGED <<now, rules, items, referrals, escalations, sweep, reeval>>

StartProcessing(c, id) ==
  /\ Free(c, "start")
  /\ ValidTransition(items[id].status, "in_progress")
  /\ Prepare(c, id, [items[id] EXCEPT !.status = "in_progress"])

Modify(c, id, subject) ==
  /\ Free(c, "modify")
  /\ ~IsTerminal(items[id].status)
  /\ Prepare(c, id, [items[id] EXCEPT !.subject = subject])

ReturnForCorrection(c, id) ==
  /\ Free(c, "return")
  /\ ValidTransition(items[id].status, "returned")
  /\ Prepare(c, id, [items[id] EXCEPT !.status = "returned"])

(* Resubmit goes through registered to adjudicated; the routing and the    *)
(* deadline stay what they were.                                           *)
Resubmit(c, id) ==
  /\ Free(c, "resubmit")
  /\ ValidTransition(items[id].status, "registered")
  /\ ValidTransition("registered", "adjudicated")
  /\ Prepare(c, id, [items[id] EXCEPT !.status = "adjudicated"])

Cancel(c, id) ==
  /\ Free(c, "cancel")
  /\ ValidTransition(items[id].status, "cancelled")
  /\ Prepare(c, id, [items[id] EXCEPT !.status = "cancelled", !.cancelledAt = now])

Complete(c, id) ==
  /\ Free(c, "complete")
  /\ ValidTransition(items[id].status, "completed")
  /\ Prepare(c, id, [items[id] EXCEPT !.status = "completed", !.completedAt = now])

(* CreateRule numbers the rule from the highest version it reads; supersede *)
(* is the version the client asks to supersede, 0 for none.                *)
CreateRule(c, body, supersede) ==
  /\ Free(c, "rule")
  /\ CurrentRuleVersion < MaxVersion
  /\ request' = Put(request, c,
       [kind |-> "rule", version |-> CurrentRuleVersion + 1,
        row |-> [body |-> body, from |-> now, status |-> "active"],
        supersede |-> supersede])
  /\ UNCHANGED <<now, rules, items, referrals, escalations, sweep, reeval>>

-----------------------------------------------------------------------------
(* Requests: the transaction that writes.                                  *)

InFlight(c, kind) == c \in DOMAIN request /\ request[c].kind = kind

(* Seeded faults: no UNIQUE constraint, no PRIMARY KEY (a rule inserted    *)
(* over another of the same version).                                      *)
RefUnchecked(ref) == TRUE
VersionUnchecked(v) == TRUE

(* The UNIQUE constraint on items.external_ref, the primary key of rules.  *)
RefIsFree(ref) == \A id \in DOMAIN items : items[id].ref # ref
VersionIsFree(v) == v \notin DOMAIN rules

(* Seeded fault: superseding deletes.                                      *)
SupersedeRuleDeletes(s) == [v \in DOMAIN rules \ {s} |-> rules[v]]

SupersedeRule(s) ==
  [v \in DOMAIN rules |-> IF v = s THEN [rules[v] EXCEPT !.status = "superseded"]
                          ELSE rules[v]]

CommitRegister(c) ==
  /\ InFlight(c, "register")
  /\ LET row == request[c].row
     IN  /\ RefIsFree(row.ref)
         /\ \E id \in ItemIds \ DOMAIN items :
              /\ items' = Put(items, id, row)
              /\ referrals' = Put(referrals, id,
                   <<[lead |-> row.lead, version |-> row.version,
                      by |-> "system", current |-> TRUE]>>)
              /\ escalations' = Put(escalations, id, <<>>)
  /\ request' = Without(request, c)
  /\ UNCHANGED <<now, rules, sweep, reeval>>

(* UpdateItem overwrites every mutable column, whatever the row holds now. *)
CommitUpdate(c) ==
  /\ InFlight(c, "update")
  /\ LET r == request[c]
     IN  items' = Put(items, r.id, r.row)
  /\ request' = Without(request, c)
  /\ UNCHANGED <<now, rules, referrals, escalations, sweep, reeval>>

(* Superseding a version that is not there is no error; a version that is  *)
(* already there violates the primary key and rolls everything back.       *)
CommitRule(c) ==
  /\ InFlight(c, "rule")
  /\ LET r == request[c]
     IN  /\ VersionIsFree(r.version)
         /\ rules' = Put(SupersedeRule(r.supersede), r.version, r.row)
  /\ request' = Without(request, c)
  /\ UNCHANGED <<now, items, referrals, escalations, sweep, reeval>>

(* The transaction fails (a constraint, the disk, the request's context)   *)
(* and is rolled back: the client gets an error.                           *)
RequestFails(c) ==
  /\ c \in DOMAIN request
  /\ request' = Without(request, c)
  /\ UNCHANGED <<now, rules, items, referrals, escalations, sweep, reeval>>

-----------------------------------------------------------------------------
(* The escalation sweep: one query lists the overdue items, then each is   *)
(* escalated from the listed copy, the earliest deadline first.            *)

Overdue(id) ==
  /\ ~IsTerminal(items[id].status)
  /\ items[id].deadline < now
  /\ items[id].level < MaxLevel

(* Seeded fault: only work in progress is listed.                          *)
FindOverdueInProgress ==
  {[id |-> id, row |-> items[id]] :
     id \in {i \in DOMAIN items : Overdue(i) /\ items[i].status = "in_progress"}}

FindOverdueItems ==
  {[id |-> id, row |-> items[id]] : id \in {i \in DOMAIN items : Overdue(i)}}

SweepBegin ==
  /\ "escalation" \in Background
  /\ sweep.todo = {}
  /\ sweep' = IF FindOverdueItems = {} THEN NoSweep
              ELSE [at |-> now, todo |-> FindOverdueItems]
  /\ UNCHANGED <<now, rules, items, referrals, escalations, request, reeval>>

(* Equal deadlines come in any order.                                      *)
IsNext(e) == \A f \in sweep.todo : e.row.deadline <= f.row.deadline

AfterItem(e) == IF sweep.todo = {e} THEN NoSweep
                ELSE [sweep EXCEPT !.todo = @ \ {e}]

Supersede(log) == [i \in DOMAIN log |-> [log[i] EXCEPT !.current = FALSE]]

(* Seeded faults: the old referrals stay current, or are deleted.          *)
RerouteKeepsOld(id, lead, version, by) ==
  /\ Len(referrals[id]) < MaxReferrals
  /\ referrals' = Put(referrals, id,
       Append(referrals[id], [lead |-> lead, version |-> version, by |-> by,
                              current |-> TRUE]))

RerouteDeletesOld(id, lead, version, by) ==
  /\ Len(referrals[id]) < MaxReferrals
  /\ referrals' = Put(referrals, id,
       <<[lead |-> lead, version |-> version, by |-> by, current |-> TRUE]>>)

Reroute(id, lead, version, by) ==
  /\ Len(referrals[id]) < MaxReferrals
  /\ referrals' = Put(referrals, id,
       Append(Supersede(referrals[id]),
              [lead |-> lead, version |-> version, by |-> by,
               current |-> TRUE]))

(* Seeded faults: the level, or the lead, of the item is not raised.       *)
EscalatedRowOldLevel(row, level, lead, deadline) ==
  [row EXCEPT !.status = "escalated", !.lead = lead, !.deadline = deadline]

EscalatedRowOldLead(row, level, lead, deadline) ==
  [row EXCEPT !.status = "escalated", !.level = level, !.deadline = deadline]

EscalatedRow(row, level, lead, deadline) ==
  [row EXCEPT !.status = "escalated", !.lead = lead, !.level = level,
              !.deadline = deadline]

(* escalateItem: escalation record, old referrals superseded, new referral *)
(* and the listed copy written over the row, in one transaction.  The      *)
(* query already leaves out items at the highest level, so the branch that *)
(* records a permanent failure for them is never taken.                    *)
Escalate(e) ==
  /\ e \in sweep.todo
  /\ IsNext(e)
  /\ ValidTransition(e.row.status, "escalated")
  /\ LET level == e.row.level + 1
         lead  == EscalationDepartmentName(e.row.lead, level)
     IN  /\ level <= MaxLevel
         /\ Reroute(e.id, lead, e.row.version, "system_escalation")
         /\ escalations' = Put(escalations, e.id,
              Append(escalations[e.id],
                     [from |-> e.row.level, to |-> level,
                      oldLead |-> e.row.lead, newLead |-> lead]))
         /\ items' = Put(items, e.id,
              EscalatedRow(e.row, level, lead, sweep.at + ExtensionTicks))
  /\ sweep' = AfterItem(e)
  /\ UNCHANGED <<now, rules, request, reeval>>

(* A status from which nothing escalates (returned, registered) is an      *)
(* error, and the first error ends the sweep for all items behind it.      *)
SweepRefused(e) ==
  /\ e \in sweep.todo
  /\ IsNext(e)
  /\ ~ValidTransition(e.row.status, "escalated")
  /\ sweep' = NoSweep
  /\ UNCHANGED <<now, rules, items, referrals, escalations, request, reeval>>

(* A transaction of the sweep fails, or the task's context expires.        *)
SweepFails ==
  /\ sweep.todo # {}
  /\ sweep' = NoSweep
  /\ UNCHANGED <<now, rules, items, referrals, escalations, request, reeval>>

-----------------------------------------------------------------------------
(* The re-evaluation cycle.                                                *)

Reevaluable(status) == status \in {"registered", "adjudicated"}

(* Reads the current version; without rules the cycle ends here.           *)
ReevalBegin ==
  /\ "reeval" \in Background
  /\ reeval.phase = "idle"
  /\ CurrentRuleVersion # 0
  /\ reeval' = [Idle EXCEPT !.phase = "version", !.current = CurrentRuleVersion]
  /\ UNCHANGED <<now, rules, items, referrals, escalations, request, sweep>>

(* Seeded fault: adjudicated items are not listed.                         *)
StaleRegistered(current) ==
  {id \in DOMAIN items : /\ items[id].status = "registered"
                         /\ items[id].version < current}

StaleItems(current) ==
  {id \in DOMAIN items : /\ Reevaluable(items[id].status)
                         /\ items[id].version < current}

(* Reads the active rules.                                                 *)
ReevalRules ==
  /\ reeval.phase = "version"
  /\ reeval' = [reeval EXCEPT !.phase = "rules", !.rules = ActiveRules(now)]
  /\ UNCHANGED <<now, rules, items, referrals, escalations, request, sweep>>

(* Lists the items of older versions.  No step stores the status           *)
(* registered, so the one list that matters is that of the adjudicated     *)
(* items; its pages are one step, with at most sweepPageSize items.        *)
ReevalCollect ==
  /\ reeval.phase = "rules"
  /\ reeval' = IF StaleItems(reeval.current) = {} THEN Idle
               ELSE [reeval EXCEPT !.phase = "items",
                                   !.todo = StaleItems(reeval.current)]
  /\ UNCHANGED <<now, rules, items, referrals, escalations, request, sweep>>

NextItem(id) == IF reeval.todo = {id} THEN Idle
                ELSE [reeval EXCEPT !.todo = @ \ {id}, !.pending = {}]

(* Reloads one item: nothing to do when it moved on, or no rule matches.   *)
Rerouting(id) ==
  IF items[id].version < reeval.current /\ Reevaluable(items[id].status)
  THEN Adjudicate(rules, reeval.rules, items[id].subject,
                  items[id].registeredAt)
  ELSE {}

ReevalSkip(id) ==
  /\ id \in reeval.todo
  /\ reeval.pending = {}
  /\ Rerouting(id) = {}
  /\ reeval' = NextItem(id)
  /\ UNCHANGED <<now, rules, items, referrals, escalations, request, sweep>>

ReevalRead(id) ==
  /\ id \in reeval.todo
  /\ reeval.pending = {}
  /\ \E v \in Rerouting(id) :
       reeval' = [reeval EXCEPT !.pending =
         {[id |-> id,
           row |-> [items[id] EXCEPT !.status = "adjudicated",
                                     !.lead = RuleLead(rules[v].body.lead),
                                     !.version = v]]}]
  /\ UNCHANGED <<now, rules, items, referrals, escalations, request, sweep>>

(* Old referrals superseded, new referral and the reloaded copy written.   *)
ReevalCommit(p) ==
  /\ p \in reeval.pending
  /\ Reroute(p.id, p.row.lead, p.row.version, "system")
  /\ items' = Put(items, p.id, p.row)
  /\ reeval' = NextItem(p.id)
  /\ UNCHANGED <<now, rules, escalations, request, sweep>>

(* A failed transaction is logged and the cycle goes on with the rest.     *)
ReevalFails(p) ==
  /\ p \in reeval.pending
  /\ reeval' = NextItem(p.id)
  /\ UNCHANGED <<now, rules, items, referrals, escalations, request, sweep>>

(* The cycle ends early: an error of a query, or the worker is stopped.    *)
ReevalStops ==
  /\ reeval.phase # "idle"
  /\ reeval' = Idle
  /\ UNCHANGED <<now, rules, items, referrals, escalations, request, sweep>>

-----------------------------------------------------------------------------
ReadSteps(c) ==
  \/ \E ref \in Refs, s \in Subjects : Register(c, ref, s)
  \/ \E id \in DOMAIN items :
       \/ StartProcessing(c, id)
       \/ \E s \in Subjects : Modify(c, id, s)
       \/ ReturnForCorrection(c, id)
       \/ Resubmit(c, id)
       \/ Cancel(c, id)
       \/ Complete(c, id)
  \/ \E body \in RuleBodies, v \in 0 .. MaxVersion : CreateRule(c, body, v)

WriteSteps(c) ==
  \/ CommitRegister(c)
  \/ CommitUpdate(c)
  \/ CommitRule(c)

SweepSteps ==
  \/ SweepBegin
  \/ \E e \in sweep.todo : Escalate(e)
  \/ \E e \in sweep.todo : SweepRefused(e)

ReevalSteps ==
  \/ ReevalBegin
  \/ ReevalRules
  \/ ReevalCollect
  \/ \E id \in reeval.todo : ReevalSkip(id)
  \/ \E id \in reeval.todo : ReevalRead(id)
  \/ \E p \in reeval.pending : ReevalCommit(p)

Failures ==
  \/ \E c \in Clients : RequestFails(c)
  \/ SweepFails
  \/ \E p \in reeval.pending : ReevalFails(p)
  \/ ReevalStops

Next ==
  \/ Tick
  \/ \E c \in Clients : ReadSteps(c)
  \/ \E c \in Clients : WriteSteps(c)
  \/ SweepSteps
  \/ ReevalSteps
  \/ Failures

Spec == Init /\ [][Next]_vars

-----------------------------------------------------------------------------
(* Fairness.  The clock advances and the tickers of the two loops keep     *)
(* firing; a handler that has read goes on to its transaction or fails.    *)
(* Nothing is assumed of the clients.  A query or a transaction of a loop  *)
(* may fail, but not every time it is tried again: strong fairness of each *)
(* step that a failure can cut off.                                        *)
Fairness ==
  /\ WF_vars(Tick)
  /\ \A c \in Clients : WF_vars(WriteSteps(c) \/ RequestFails(c))
  /\ WF_vars(SweepSteps)
  /\ \A id \in ItemIds : SF_vars(\E e \in sweep.todo : e.id = id /\ Escalate(e))
  /\ WF_vars(ReevalSteps)
  /\ SF_vars(ReevalRules)
  /\ SF_vars(ReevalCollect)
  /\ \A id \in ItemIds :
       /\ SF_vars(id \in DOMAIN items /\ ReevalRead(id))
       /\ SF_vars(\E p \in reeval.pending : p.id = id /\ ReevalCommit(p))

FairSpec == Spec /\ Fairness

-----------------------------------------------------------------------------
(* Types.                                                                  *)

IsPartial(f, D, R) == DOMAIN f \subseteq D /\ \A x \in DOMAIN f : f[x] \in R

Request ==
  [kind : {"register"}, row : ItemRow]
    \cup [kind : {"update"}, id : ItemIds, row : ItemRow]
    \cup [kind : {"rule"}, version : 1 .. MaxVersion, row : RuleRow,
          supersede : 0 .. MaxVersion]

Copy == [id : ItemIds, row : ItemRow]

RulesOK ==
  /\ \E n \in 0 .. MaxVersion : DOMAIN rules = 1 .. n
  /\ \A v \in DOMAIN rules : rules[v] \in RuleRow

TablesOK ==
  /\ IsPartial(items, ItemIds, ItemRow)
  /\ DOMAIN referrals = DOMAIN items
  /\ IsPartial(referrals, ItemIds, Seq(Referral))
  /\ DOMAIN escalations = DOMAIN items
  /\ IsPartial(escalations, ItemIds, Seq(Escalation))

(* A request writes to an item that exists, and a rule request carries at  *)
(* most the version after the highest one.                                 *)
RequestOK ==
  \A c \in DOMAIN request :
    /\ request[c] \in Request
    /\ request[c].kind = "update" => request[c].id \in DOMAIN items
    /\ request[c].kind = "rule" =>
         request[c].version = 1 \/ request[c].version - 1 \in DOMAIN rules

SweepOK ==
  /\ sweep \in [at : Nat, todo : SUBSET Copy]
  /\ \A e \in sweep.todo : e.id \in DOMAIN items

ReevalOK ==
  /\ reeval \in [phase : {"idle", "version", "rules", "items"}, current : Nat,
                 rules : SUBSET DOMAIN rules, todo : SUBSET DOMAIN items,
                 pending : SUBSET Copy]
  /\ \A p \in reeval.pending : p.id \in DOMAIN items

(* The tables and the copies in flight hold rows of their types, whoever   *)
(* sent the requests.                                                      *)
StateOK ==
  now \in Nat /\ RulesOK /\ TablesOK /\ RequestOK /\ SweepOK /\ ReevalOK

(* The tables and the copies in flight hold rows of their types, and rule  *)
(* versions are numbered without a gap (rule_service.go:52).               *)
TypeOK == StateOK /\ DOMAIN request \subseteq Clients

-----------------------------------------------------------------------------
(* Safety, under every interleaving.                                       *)

LastIsCurrent(log) ==
  /\ log # <<>>
  /\ \A i \in DOMAIN log : log[i].current = (i = Len(log))

(* However sweeps, cycles and requests interleave, an item has exactly one *)
(* current referral and it is the one written last (writes.go:75 marks all *)
(* of them superseded before every insert).                                *)
OneCurrentReferral == \A id \in DOMAIN items : LastIsCurrent(referrals[id])

(* Two concurrent registrations of one external_ref leave one item         *)
(* (README.legacy.md: a repeated report is registered once).               *)
RefsUnique ==
  \A i, j \in DOMAIN items : items[i].ref = items[j].ref => i = j

WasReferred(id, row) ==
  \E i \in DOMAIN referrals[id] :
    /\ referrals[id][i].lead = row.lead
    /\ referrals[id][i].version = row.version

(* A writer with an old copy may bring back an old routing, but the lead   *)
(* and the rule version of an item always belong together: both come from  *)
(* one referral of that item.                                              *)
RoutingWasReferred == \A id \in DOMAIN items : WasReferred(id, items[id])

InForce(lead, version, t) ==
  /\ version \in DOMAIN rules
  /\ rules[version].from <= t
  /\ lead = RuleLead(rules[version].body.lead)

(* An item is adjudicated by the rules in force when it was registered:    *)
(* every referral the adjudicator made names a rule that had taken effect  *)
(* by then, and that rule's department.                                    *)
ReferralInForce ==
  \A id \in DOMAIN items : \A i \in DOMAIN referrals[id] :
    referrals[id][i].by = "system" =>
      InForce(referrals[id][i].lead, referrals[id][i].version,
              items[id].registeredAt)

StampsAgree(row) ==
  /\ row.completedAt # Never <=> row.status = "completed"
  /\ row.cancelledAt # Never <=> row.status = "cancelled"

(* An item carries the completion (cancellation) instant exactly while it  *)
(* is completed (cancelled), also after a stale copy is written over it.   *)
ClosedStamped == \A id \in DOMAIN items : StampsAgree(items[id])

LevelAccounted(id, row) ==
  /\ row.level <= MaxLevel
  /\ Len(row.lead[2]) <= row.level
  /\ row.level > 0 =>
       \E k \in DOMAIN escalations[id] : escalations[id][k].to = row.level

(* The level of an item is one an escalation record accounts for, never    *)
(* above the maximum, and the lead carries no more supervisor suffixes     *)
(* than that level.                                                        *)
LevelBacked == \A id \in DOMAIN items : LevelAccounted(id, items[id])

CopyAgrees(id, row) ==
  /\ row.ref = items[id].ref
  /\ row.registeredAt = items[id].registeredAt
  /\ StampsAgree(row)
  /\ LevelAccounted(id, row)

RequestAgrees(r) ==
  /\ r.kind = "register" =>
       /\ StampsAgree(r.row)
       /\ r.row.level = 0
       /\ r.row.lead[2] = <<>>
       /\ InForce(r.row.lead, r.row.version, r.row.registeredAt)
  /\ r.kind = "update" =>
       CopyAgrees(r.id, r.row) /\ WasReferred(r.id, r.row)

RequestsAgree == \A c \in DOMAIN request : RequestAgrees(request[c])

SweepAgrees ==
  \A e \in sweep.todo :
    /\ CopyAgrees(e.id, e.row)
    /\ WasReferred(e.id, e.row)
    /\ e.row.level < MaxLevel

ReevalAgrees ==
  \A p \in reeval.pending :
    /\ CopyAgrees(p.id, p.row)
    /\ InForce(p.row.lead, p.row.version, p.row.registeredAt)

(* What makes the invariants above survive a write of an old copy: every   *)
(* copy held between a read and its transaction, however old, is of the    *)
(* item it will be written to and satisfies by itself what a row must.     *)
CopiesAgree == RequestsAgree /\ SweepAgrees /\ ReevalAgrees

(* A rule version, once given out, keeps its content for ever and never    *)
(* comes back from superseded: concurrent CreateRule requests that read    *)
(* the same highest version cannot overwrite each other.                   *)
RulesImmutable ==
  [][\A v \in DOMAIN rules :
       /\ v \in DOMAIN rules'
       /\ rules'[v].body = rules[v].body
       /\ rules'[v].from = rules[v].from
       /\ rules[v].status = "superseded" => rules'[v].status = "superseded"]_rules

-----------------------------------------------------------------------------
(* Safety, when fewer writers overlap.                                     *)

(* The lead department and rule version shown on an item are those of its  *)
(* current referral.  Kept by the loops and by registration; any update    *)
(* request that overlaps a loop breaks it, for it writes the routing       *)
(* columns of its old copy and touches no referral.                        *)
RoutingAgrees ==
  \A id \in DOMAIN items :
    LET r == referrals[id][Len(referrals[id])]
    IN  r.lead = items[id].lead /\ r.version = items[id].version

(* A closed item (completed, cancelled) never changes status or routing    *)
(* again.  README.legacy.md:116 promises it; compliance_case.go:62 has no  *)
(* way out of a closed status.                                             *)
ClosedStaysClosed ==
  [][\A id \in DOMAIN items :
       IsTerminal(items[id].status) =>
         /\ items'[id].status = items[id].status
         /\ items'[id].lead = items[id].lead
         /\ items'[id].version = items[id].version]_items

-----------------------------------------------------------------------------
(* Liveness.                                                               *)

(* Overdue, below the highest level, in a status escalation starts from    *)
(* (and the bound on referrals leaves room for one more).                  *)
AwaitsEscalation(id) ==
  /\ id \in DOMAIN items
  /\ Len(referrals[id]) < MaxReferrals
  /\ Overdue(id)
  /\ ValidTransition(items[id].status, "escalated")

(* Such an item does not stay so: the sweep escalates it, or it is closed  *)
(* (README.legacy.md:197: overdue items are escalated automatically).      *)
OverdueIsEscalated ==
  \A id \in ItemIds : AwaitsEscalation(id) ~> ~AwaitsEscalation(id)

(* A pending item that the active rules in force at its registration would *)
(* route otherwise, and that is older than the newest rule.                *)
Misrouted(id) ==
  /\ id \in DOMAIN items
  /\ Reevaluable(items[id].status)
  /\ items[id].version < CurrentRuleVersion
  /\ \E v \in Adjudicate(rules, ActiveRules(now), items[id].subject,
                         items[id].registeredAt) : v # items[id].version

(* A rule committed between a registration's read and its write is applied *)
(* to that item by a later cycle.                                          *)
LateRuleApplied == \A id \in ItemIds : Misrouted(id) ~> ~Misrouted(id)
=============================================================================
