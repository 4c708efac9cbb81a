--------------------------- MODULE MCCaseClients ----------------------------
(***************************************************************************)
(* CaseClients for model checking.  The three clients do not meet: one of  *)
(* them is there in a behaviour.  One item goes through both loops under   *)
(* the eyes of a reader; lists of more items are walked and imports race   *)
(* with the requests alone.                                                *)
(***************************************************************************)
EXTENDS CaseClients, TLC

Body(cat, default, prio, lead) ==
  [category |-> cat, keywords |-> {}, isDefault |-> default,
   priority |-> prio, lead |-> lead]

(* What hubctl init creates, and a more specific rule.                     *)
DefaultBody == Body(NoCategory, TRUE, 0, "office")
FoodBody == Body("food", FALSE, 1, "kitchen")
DefaultOnly == <<DefaultBody>>
AllRules == {DefaultBody, FoodBody}

Food == [category |-> "food", keywords |-> {}]
FoodSubject == {Food}

CONSTANTS r1, r2, r3
Row(r) == [ref |-> r, subject |-> Food]
BatchesDef == {<<Row(r1), Row(r2)>>, <<Row(r1), Row(r1)>>}

(* No loop has written, no rule has been asked for.                        *)
Quiet ==
  /\ now <= 1
  /\ sweep = NoSweep
  /\ reeval = Idle
  /\ DOMAIN rules = {1}
  /\ \A c \in DOMAIN request : request[c].kind # "rule"

Watched == Cardinality(DOMAIN items) <= 1 /\ walk = None /\ import = None

Walked == Quiet /\ detail = None /\ import = None

Imported ==
  /\ Quiet
  /\ Cardinality(DOMAIN items) <= 2
  /\ \A id \in DOMAIN items : items[id].status = "adjudicated"
  /\ \A c \in DOMAIN request : request[c].kind = "register"
  /\ detail = None
  /\ walk = None

Bounds == Watched \/ Walked \/ Imported

Symmetry == Permutations(ItemIds)
=============================================================================
