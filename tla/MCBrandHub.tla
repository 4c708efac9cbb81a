----------------------------- MODULE MCBrandHub -----------------------------
(***************************************************************************)
(* BrandHub for model checking.  Licences, inspections, catalogues and     *)
(* recalls share nothing but the clock and the callers, so one of them is  *)
(* in use at a time (OneAreaInUse).                                        *)
(***************************************************************************)
EXTENDS BrandHub, TLC

CONSTANTS s1, s2, here, there, sku1, sku2

TermsDef ==
  {[store |-> s1, owner |-> "owner", regions |-> {here}, logo |-> 1,
    from |-> 0, to |-> 2],
   [store |-> s1, owner |-> "owner", regions |-> {here, there}, logo |-> 2,
    from |-> 1, to |-> 4]}

Store == [id |-> s1, owner |-> "owner", city |-> here, threeModels |-> TRUE,
          approvedLogo |-> 1, displayedLogo |-> 1, brandName |-> TRUE]

(* One that is as it should be, one with the second logo, and one of each  *)
(* way to fall short.                                                      *)
ProfilesDef ==
  {Store,
   [Store EXCEPT !.approvedLogo = 2, !.displayedLogo = 2],
   [Store EXCEPT !.displayedLogo = 2],
   [Store EXCEPT !.threeModels = FALSE],
   [Store EXCEPT !.id = s2],
   [Store EXCEPT !.city = there]}

Section(score) == [required |-> TRUE, score |-> score, evidence |-> TRUE]

(* A mean that is met, one that is missed by rounding down, and reports    *)
(* that cannot be scored.                                                  *)
ReportsDef ==
  {<<Section(79), Section(81)>>, <<Section(79), Section(80)>>, <<>>,
   <<[Section(90) EXCEPT !.evidence = FALSE]>>, <<Section(101)>>}

Listing(sku, online, published) ==
  [store |-> s1, sku |-> sku, traced |-> TRUE, online |-> online,
   price |-> 100, published |-> published]

(* Prices at the limit and one beyond it, a SKU listed twice.              *)
ListingListsDef ==
  {<<Listing(sku1, 105, TRUE)>>,
   <<Listing(sku1, 106, TRUE), Listing(sku2, 95, TRUE)>>,
   <<Listing(sku1, 100, TRUE), Listing(sku1, 95, FALSE)>>,
   <<[Listing(sku2, 100, TRUE) EXCEPT !.traced = FALSE]>>,
   <<>>}

LicensesInUse ==
  \/ licenses # Empty
  \/ \E c \in Clients : calls[c].op \in {"activate", "renew", "amend"}
InspectionsInUse ==
  \/ inspections # Empty
  \/ \E c \in Clients : calls[c].op = "complete"
CatalogsInUse ==
  \/ catalogs # Empty
  \/ \E c \in Clients : calls[c].op = "publish"
RecallsInUse == \E c \in Clients : recalls[c] # Issued

InUse(b) == IF b THEN 1 ELSE 0

OneAreaInUse ==
  InUse(LicensesInUse) + InUse(InspectionsInUse) + InUse(CatalogsInUse)
    + InUse(RecallsInUse) <= 1

Symmetry == Permutations(Clients)
=============================================================================
