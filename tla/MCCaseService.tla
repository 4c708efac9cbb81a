--------------------------- MODULE MCCaseService ----------------------------
(* Values of the constants of CaseService for model checking.              *)
EXTENDS CaseService, TLC

Body(cat, kws, default, prio, lead) ==
  [category |-> cat, keywords |-> kws, isDefault |-> default,
   priority |-> prio, lead |-> lead]

Subject(cat, kws) == [category |-> cat, keywords |-> kws]

(* What hubctl init creates, and a more specific rule.                     *)
DefaultBody == Body(NoCategory, {}, TRUE, 0, "office")
FoodBody == Body("food", {}, FALSE, 1, "kitchen")

DefaultOnly == <<DefaultBody>>
FoodSubject == {Subject("food", {})}
TwoSubjects == {Subject("food", {}), Subject(NoCategory, {})}
FoodBodies == {FoodBody}
AllRules == {DefaultBody, FoodBody}

(* Ids, references and clients are interchangeable.                        *)
Symmetry == Permutations(ItemIds) \cup Permutations(Refs)
              \cup Permutations(Clients)
=============================================================================
