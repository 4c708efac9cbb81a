--------------------------- MODULE DurableTables ---------------------------
(***************************************************************************)
(* What the data directory promises its users (internal/store): committed  *)
(* transactions on the tables of items, rules, escalations and dead        *)
(* letters, each atomic, and nothing else ever changes them: neither a     *)
(* restart, nor the loss of the index database and its reconstruction from *)
(* the shard files.  ShardedStore implements it.                           *)
(***************************************************************************)
EXTENDS Naturals

CONSTANTS ItemIds, Refs, MaxVersion

VARIABLES
  items,         (* rows [id, ref, rev]: rev numbers an item's revisions   *)
  rules,         (* rows [id, status]                                      *)
  escalations,   (* rows [id, item]                                        *)
  failures       (* dead letters, rows [id, rev]                           *)

tables == <<items, rules, escalations, failures>>

Init == /\ items = {}
        /\ rules = {}
        /\ escalations = {}
        /\ failures = {}

Ids(rows) == {row.id : row \in rows}

(* One revision of an item replaces an older one.                          *)
Revised(old, new) == /\ new.id = old.id
                     /\ new.ref = old.ref
                     /\ new.rev > old.rev

(* The reference and the id of a registered item are its own.              *)
Register ==
  /\ \E new \in items' :
       /\ new.id \in ItemIds \ Ids(items)
       /\ new.ref \in Refs
       /\ \A row \in items : row.ref # new.ref
       /\ items' = items \cup {new}
  /\ UNCHANGED <<rules, escalations, failures>>

(* A case moves on, by a request or by a re-evaluation.                    *)
Update ==
  /\ \E old \in items : \E new \in items' :
       /\ Revised(old, new)
       /\ items' = (items \ {old}) \cup {new}
  /\ UNCHANGED <<rules, escalations, failures>>

(* An escalation and the item it changed become visible together.          *)
Escalate ==
  /\ \E old \in items : \E new \in items', esc \in escalations' :
       /\ Revised(old, new)
       /\ items' = (items \ {old}) \cup {new}
       /\ esc.item = old.id
       /\ esc.id \notin Ids(escalations)
       /\ escalations' = escalations \cup {esc}
  /\ UNCHANGED <<rules, failures>>

(* The next version of the rules, and the rule it supersedes if any.       *)
CreateRule ==
  /\ \E v \in 1 .. MaxVersion, old \in SUBSET rules :
       /\ v \notin Ids(rules)
       /\ rules' = {IF row \in old THEN [row EXCEPT !.status = "superseded"]
                                   ELSE row : row \in rules}
                     \cup {[id |-> v, status |-> "active"]}
       /\ \A r, s \in old : r = s
  /\ UNCHANGED <<items, escalations, failures>>

(* A dead letter is recorded, or retried.                                  *)
RecordFailure ==
  /\ \E new \in failures' : /\ new.id \notin Ids(failures)
                            /\ failures' = failures \cup {new}
  /\ UNCHANGED <<items, rules, escalations>>

RetryFailure ==
  /\ \E old \in failures : \E new \in failures' :
       /\ new.id = old.id
       /\ new.rev > old.rev
       /\ failures' = (failures \ {old}) \cup {new}
  /\ UNCHANGED <<items, rules, escalations>>

Next == \/ Register
        \/ Update
        \/ Escalate
        \/ CreateRule
        \/ RecordFailure
        \/ RetryFailure

Spec == Init /\ [][Next]_tables
=============================================================================
