------------------------------ MODULE MCAIHub ------------------------------
(***************************************************************************)
(* AIHub for model checking: ids are interchangeable.  The resources meet  *)
(* through the applications alone, so a behaviour reviews projects of one  *)
(* tenant with compute and routes of which nothing is in use (Reviews) or  *)
(* with compute alone, in use to any amount (Computing), assigns routes    *)
(* (Routing) or applies for an offer (Offering) to applications nobody     *)
(* reviews, or publishes scenes and seats members beside such applications *)
(* (Places).                                                               *)
(***************************************************************************)
EXTENDS AIHub, TLC

CONSTANTS t1, k1

(* Nobody, one member, and that member twice.                              *)
MemberLists == {<<>>} \cup {<<m>> : m \in MemberIds}
                 \cup {<<m, m>> : m \in MemberIds}

(* Less than nothing, nothing, and more than any capacity.                 *)
AmountsInUse == {-1, 0, Capacity + 1}

OfOneTenant == \A a \in DOMAIN applications : /\ App(a).tenant = t1
                                              /\ App(a).country = k1
WithoutRoute == \A a \in DOMAIN applications : App(a).route = NoRoute
WithoutOffer == \A a \in DOMAIN applications : App(a).offer = NoOffer
Unreviewed == \A a \in DOMAIN applications : App(a).status = "pending"

Reviews ==
  /\ offers = Empty /\ scenes = Empty /\ communities = Empty
  /\ OfOneTenant /\ WithoutOffer
  /\ Cardinality(DOMAIN clusters) <= 1
  /\ Cardinality(DOMAIN applications) + Cardinality(DOMAIN routes) <= 3
  /\ \A c \in DOMAIN clusters : /\ clusters[c].total = Capacity
                                /\ clusters[c].given = 0
  /\ \A a \in DOMAIN reservations : reservations[a].petaops = 1
  /\ \A r \in DOMAIN routes : /\ routes[r].tenant = t1
                              /\ routes[r].country = k1
                              /\ routes[r].capacity = 1
                              /\ routes[r].given = 0

Computing ==
  /\ routes = Empty /\ offers = Empty /\ scenes = Empty /\ communities = Empty
  /\ OfOneTenant /\ WithoutRoute /\ WithoutOffer
  /\ \A a \in DOMAIN applications :
       App(a).status \in {"pending", "returned", "approved"}
  /\ \A c \in DOMAIN clusters : clusters[c].total = Capacity

Routing ==
  /\ clusters = Empty /\ offers = Empty /\ scenes = Empty /\ communities = Empty
  /\ WithoutOffer /\ Unreviewed
  /\ \A r \in DOMAIN routes : routes[r].capacity = Capacity
  /\ \A a \in DOMAIN applications :
       App(a).route # NoRoute => <<a, App(a).route>> \in assigned

Offering ==
  /\ clusters = Empty /\ routes = Empty /\ scenes = Empty /\ communities = Empty
  /\ WithoutRoute /\ Unreviewed
  /\ \A a \in DOMAIN applications : App(a).tenant = t1

Places ==
  /\ clusters = Empty /\ routes = Empty /\ offers = Empty
  /\ WithoutRoute /\ WithoutOffer /\ Unreviewed

Bounds == Reviews \/ Computing \/ Routing \/ Offering \/ Places

Symmetry == Permutations(AppIds) \cup Permutations(ClusterIds)
              \cup Permutations(RouteIds) \cup Permutations(OfferIds)
              \cup Permutations(SceneIds) \cup Permutations(MemberIds)
=============================================================================
