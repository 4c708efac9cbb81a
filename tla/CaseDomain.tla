----------------------------- MODULE CaseDomain -----------------------------
(***************************************************************************)
(* The domain layer of the case service (internal/domain) and the rule     *)
(* adjudicator (internal/dispatch): the status machine of a compliance     *)
(* case and the choice of the dispatch rule that routes it.  No state.     *)
(***************************************************************************)
EXTENDS Integers, Sequences

CONSTANTS
  Categories,    (* values of an item's or a rule's category               *)
  NoCategory,    (* the empty category                                     *)
  Keywords,      (* values of keywords                                     *)
  Depts          (* lead departments named by rules                        *)

-----------------------------------------------------------------------------
(* Status machine.                                                         *)

Statuses == {"registered", "adjudicated", "in_progress", "returned",
             "escalated", "completed", "cancelled"}

IsTerminal(s) == s \in {"completed", "cancelled"}

(* Seeded fault: a completed item may still be cancelled.                  *)
TransitionTableReopens ==
  [registered  |-> {"adjudicated", "cancelled", "returned"},
   adjudicated |-> {"in_progress", "cancelled", "returned", "escalated"},
   in_progress |-> {"completed", "cancelled", "escalated"},
   returned    |-> {"registered", "cancelled"},
   escalated   |-> {"in_progress", "completed", "cancelled"},
   completed   |-> {"cancelled"},
   cancelled   |-> {}]

TransitionTable ==
  [registered  |-> {"adjudicated", "cancelled", "returned"},
   adjudicated |-> {"in_progress", "cancelled", "returned", "escalated"},
   in_progress |-> {"completed", "cancelled", "escalated"},
   returned    |-> {"registered", "cancelled"},
   escalated   |-> {"in_progress", "completed", "cancelled"},
   completed   |-> {},
   cancelled   |-> {}]

CanTransition(from, to) == to \in TransitionTable[from]

(* A transition to the status the item already has is always accepted.     *)
ValidTransition(from, to) == from = to \/ CanTransition(from, to)

-----------------------------------------------------------------------------
(* Dispatch rules.                                                         *)

(* What the rules look at in an item.                                      *)
AllSubjects == [category : Categories \cup {NoCategory},
                keywords : SUBSET Keywords]

(* What a CreateRule request says of a rule; a stored rule adds the        *)
(* instant it takes effect and its status (only SupersedeRule sets        *)
(* effective_to, and a superseded rule is never active again).             *)
AllBodies == [category  : Categories \cup {NoCategory},
              keywords  : SUBSET Keywords,
              isDefault : BOOLEAN,
              priority  : Int,
              lead      : Depts]

(* The third status of the source, "draft", is assigned nowhere.           *)
RuleStatuses == {"active", "superseded"}

Matches(body, subject) ==
  \/ body.isDefault
  \/ /\ body.category # NoCategory \/ body.keywords # {}
     /\ body.category # NoCategory => subject.category = body.category
     /\ body.keywords # {} => subject.keywords \cap body.keywords # {}

IsActiveAt(rule, t) == rule.status = "active" /\ rule.from <= t

(* Order of preference: priority first, then the newer version.            *)
Outranks(table, v, w) ==
  \/ table[v].body.priority > table[w].body.priority
  \/ table[v].body.priority = table[w].body.priority /\ v > w

(* Seeded fault: rules are not judged at the registration instant.         *)
AdjudicateNow(table, vs, subject, registeredAt) ==
  LET matched == {v \in vs : Matches(table[v].body, subject)}
  IN  {v \in matched : \A w \in matched \ {v} : Outranks(table, v, w)}

(* The versions of vs that route an item: none when no rule matches it     *)
(* (ErrNoMatchingRule), otherwise the one that outranks every other.       *)
(* vs holds the versions the caller read as active; they are judged at the *)
(* item's registration instant.                                            *)
Adjudicate(table, vs, subject, registeredAt) ==
  LET matched == {v \in vs : /\ table[v].from <= registeredAt
                             /\ Matches(table[v].body, subject)}
  IN  {v \in matched : \A w \in matched \ {v} : Outranks(table, v, w)}

-----------------------------------------------------------------------------
(* Lead departments: a rule's department and the supervisor suffixes that  *)
(* escalations appended to it ("legal-supervisor-l1-supervisor-l2").       *)

Leads == Depts \X Seq(Nat)

RuleLead(dept) == <<dept, <<>>>>

EscalationDepartmentName(lead, level) ==
  IF level <= 0 THEN lead ELSE <<lead[1], Append(lead[2], level)>>
=============================================================================
