---------------------------- MODULE AIHubProofs ----------------------------
(***************************************************************************)
(* Proofs about AIHub, for any applications, resources, capacities and     *)
(* instants: types, the ledgers of compute, routes, offers and seats, the  *)
(* route of an approved application and the event log.                     *)
(***************************************************************************)
EXTENDS AIHub, FiniteSetTheorems, WellFoundedInduction, TLAPS

-----------------------------------------------------------------------------
(* Types.                                                                  *)

(* A map keeps its type when an entry is put into it.                      *)
LEMMA PutTyped ==
  ASSUME NEW map, NEW ids, NEW entries, IsMap(map, ids, entries),
         NEW id \in ids, NEW value \in entries
  PROVE  IsMap(Put(map, id, value), ids, entries)
BY DEF IsMap, Put

(* ... and when an entry of it is replaced.                                *)
LEMMA ReplacedTyped ==
  ASSUME NEW map, NEW ids, NEW entries, IsMap(map, ids, entries),
         NEW id, NEW value \in entries
  PROVE  IsMap([map EXCEPT ![id] = value], ids, entries)
BY DEF IsMap

LEMMA TypeInit == Init => TypeOK
BY DEF Init, TypeOK, IsMap, Empty

(* Resources begin with what callers say is in use of them.                *)
LEMMA TypeAdded ==
  ASSUME TypeOK,
         \/ \E c \in ClusterIds, n \in Amounts, g \in GivenAmounts :
               AddCluster(c, n, g)
         \/ \E r \in RouteIds, t \in Tenants, k \in Countries, n \in Amounts,
               g \in GivenAmounts, active \in BOOLEAN : AddRoute(r, t, k, n, g, active)
         \/ \E o \in OfferIds, ks \in SUBSET Countries, n \in Amounts,
               g \in GivenAmounts, from, to \in 0 .. MaxTime : AddOffer(o, ks, n, g, from, to)
         \/ \E c \in CommunityIds, n \in Amounts, ms \in GivenMembers :
               AddCommunity(c, n, ms)
  PROVE  TypeOK'
<1>1. ASSUME NEW c \in ClusterIds, NEW n \in Amounts, NEW g \in GivenAmounts,
             AddCluster(c, n, g)
      PROVE  TypeOK'
  <2>1. [total |-> n, allocated |-> g, given |-> g] \in Clusters
    BY ConstantsOK DEF Clusters
  <2>2. IsMap(clusters', ClusterIds, Clusters)
    BY <1>1, <2>1, PutTyped DEF AddCluster, TypeOK
  <2> QED
    BY <1>1, <2>2 DEF AddCluster, TypeOK, IsMap
<1>2. ASSUME NEW r \in RouteIds, NEW t \in Tenants, NEW k \in Countries,
             NEW n \in Amounts, NEW g \in GivenAmounts, NEW active \in BOOLEAN,
             AddRoute(r, t, k, n, g, active)
      PROVE  TypeOK'
  <2>1. [tenant |-> t, country |-> k, capacity |-> n, allocated |-> g,
         given |-> g, active |-> active] \in Routes
    BY ConstantsOK DEF Routes
  <2>2. IsMap(routes', RouteIds, Routes)
    BY <1>2, <2>1, PutTyped DEF AddRoute, TypeOK
  <2> QED
    BY <1>2, <2>2 DEF AddRoute, TypeOK, IsMap
<1>3. ASSUME NEW o \in OfferIds, NEW ks \in SUBSET Countries,
             NEW n \in Amounts, NEW g \in GivenAmounts,
             NEW from \in 0 .. MaxTime, NEW to \in 0 .. MaxTime,
             AddOffer(o, ks, n, g, from, to)
      PROVE  TypeOK'
  <2>1. [countries |-> ks, capacity |-> n, used |-> g, given |-> g,
         from |-> from, to |-> to] \in Offers
    BY ConstantsOK DEF Offers
  <2>2. IsMap(offers', OfferIds, Offers)
    BY <1>3, <2>1, PutTyped DEF AddOffer, TypeOK
  <2> QED
    BY <1>3, <2>2 DEF AddOffer, TypeOK, IsMap
<1>4. ASSUME NEW c \in CommunityIds, NEW n \in Amounts,
             NEW ms \in GivenMembers, AddCommunity(c, n, ms)
      PROVE  TypeOK'
  <2>1. [capacity |-> n, members |-> ms, given |-> Len(ms)] \in Communities
    <3>1. ms \in Seq(MemberIds)
      BY ConstantsOK
    <3>2. Len(ms) \in Nat
      BY <3>1
    <3> QED
      BY <3>1, <3>2 DEF Communities
  <2>2. IsMap(communities', CommunityIds, Communities)
    BY <1>4, <2>1, PutTyped DEF AddCommunity, TypeOK
  <2> QED
    BY <1>4, <2>2 DEF AddCommunity, TypeOK, IsMap
<1> QED
  BY <1>1, <1>2, <1>3, <1>4

(* Applications change their status, attempt, route and offer.             *)
LEMMA TypeApplication ==
  ASSUME TypeOK, NEW a \in AppIds,
         \/ \E t \in Tenants, k \in Countries, r \in GivenRoutes,
               o \in GivenOffers : SubmitApplication(a, t, k, r, o)
         \/ ApproveApplication(a)
         \/ ResubmitApplication(a)
         \/ CloseApplication(a)
         \/ \E to \in AppStatuses : WriteStatus(a, to)
  PROVE  TypeOK'
<1>1. ASSUME NEW t \in Tenants, NEW k \in Countries, NEW r \in GivenRoutes,
             NEW o \in GivenOffers, SubmitApplication(a, t, k, r, o)
      PROVE  TypeOK'
  <2>1. [tenant |-> t, country |-> k, status |-> "pending", route |-> r,
         offer |-> o, attempt |-> 1] \in Applications
    BY ConstantsOK DEF Applications, AppStatuses
  <2>2. IsMap(applications', AppIds, Applications)
    BY <1>1, <2>1, PutTyped DEF SubmitApplication, TypeOK
  <2>3. [entity |-> a, action |-> "submitted"] \in Events
    BY DEF Events
  <2>4. events' \in Seq(Events)
    BY <1>1, <2>3 DEF SubmitApplication, TypeOK
  <2> QED
    BY <1>1, <2>2, <2>4 DEF SubmitApplication, TypeOK, IsMap
<1>2. ASSUME ApproveApplication(a)
      PROVE  TypeOK'
  <2>1. IsMap(applications', AppIds, Applications)
    <3>1. applications[a] \in Applications
      BY <1>2 DEF ApproveApplication, TypeOK, IsMap
    <3> DEFINE new == [applications[a] EXCEPT !.status = "approved"]
    <3>2. new \in Applications
      BY <1>2, <3>1 DEF ApproveApplication, App, Applications, AppStatuses
    <3>3. applications' = [applications EXCEPT ![a] = new]
      BY <1>2 DEF ApproveApplication
    <3> QED
      BY <3>2, <3>3, ReplacedTyped DEF TypeOK
  <2>2. [entity |-> a, action |-> "approved"] \in Events
    BY DEF Events
  <2>3. events' \in Seq(Events)
    BY <1>2, <2>2 DEF ApproveApplication, TypeOK
  <2> QED
    BY <1>2, <2>1, <2>3 DEF ApproveApplication, TypeOK, IsMap
<1>3. ASSUME ResubmitApplication(a)
      PROVE  TypeOK'
  <2>1. IsMap(applications', AppIds, Applications)
    <3>1. applications[a] \in Applications
      BY <1>3 DEF ResubmitApplication, TypeOK, IsMap
    <3> DEFINE new == [applications[a] EXCEPT !.status = "pending", !.attempt = @ + 1]
    <3>2. new \in Applications
      BY <1>3, <3>1, ConstantsOK DEF ResubmitApplication, App, Applications, AppStatuses
    <3>3. applications' = [applications EXCEPT ![a] = new]
      BY <1>3 DEF ResubmitApplication
    <3> QED
      BY <3>2, <3>3, ReplacedTyped DEF TypeOK
  <2> QED
    BY <1>3, <2>1 DEF ResubmitApplication, TypeOK, IsMap
<1>4. ASSUME CloseApplication(a)
      PROVE  TypeOK'
  <2>1. IsMap(applications', AppIds, Applications)
    <3>1. applications[a] \in Applications
      BY <1>4 DEF CloseApplication, TypeOK, IsMap
    <3> DEFINE new == [applications[a] EXCEPT !.status = "closed"]
    <3>2. new \in Applications
      BY <1>4, <3>1 DEF CloseApplication, App, Applications, AppStatuses
    <3>3. applications' = [applications EXCEPT ![a] = new]
      BY <1>4 DEF CloseApplication
    <3> QED
      BY <3>2, <3>3, ReplacedTyped DEF TypeOK
  <2> QED
    BY <1>4, <2>1 DEF CloseApplication, TypeOK, IsMap
<1>5. ASSUME NEW to \in AppStatuses, WriteStatus(a, to)
      PROVE  TypeOK'
  <2>1. IsMap(applications', AppIds, Applications)
    <3>1. applications[a] \in Applications
      BY <1>5 DEF WriteStatus, TypeOK, IsMap
    <3> DEFINE new == [applications[a] EXCEPT !.status = to]
    <3>2. new \in Applications
      BY <1>5, <3>1 DEF WriteStatus, App, Applications, AppStatuses
    <3>3. applications' = [applications EXCEPT ![a] = new]
      BY <1>5 DEF WriteStatus
    <3> QED
      BY <3>2, <3>3, ReplacedTyped DEF TypeOK
  <2> QED
    BY <1>5, <2>1 DEF WriteStatus, TypeOK, IsMap
<1> QED
  BY <1>1, <1>2, <1>3, <1>4, <1>5

(* Reservations add to what a cluster allocates and take away what they    *)
(* added; routes and offers only add.                                      *)
LEMMA TypeUsed ==
  ASSUME TypeOK, NEW a \in AppIds,
         \/ \E c \in ClusterIds, n \in Amounts : ReserveCompute(a, c, n)
         \/ ReleaseCompute(a)
         \/ \E r \in RouteIds, n \in Amounts : AssignRoute(a, r, n)
         \/ \E o \in OfferIds, at \in 0 .. MaxTime : ApplyOffer(a, o, at)
  PROVE  TypeOK'
<1>1. Amounts \subseteq Nat
  BY ConstantsOK DEF Amounts
<1>2. ASSUME NEW c \in ClusterIds, NEW n \in Amounts, ReserveCompute(a, c, n)
      PROVE  TypeOK'
  <2>1. clusters[c] \in Clusters
    BY <1>2 DEF ReserveCompute, TypeOK, IsMap
  <2> DEFINE new == [clusters[c] EXCEPT !.allocated = @ + n]
  <2>2. new \in Clusters
    BY <1>1, <2>1 DEF Clusters
  <2>3. clusters' = [clusters EXCEPT ![c] = new]
    BY <1>2 DEF ReserveCompute
  <2>4. IsMap(clusters', ClusterIds, Clusters)
    BY <2>2, <2>3, ReplacedTyped DEF TypeOK
  <2>5. [cluster |-> c, petaops |-> n, released |-> FALSE] \in Reservations
    BY DEF Reservations
  <2>6. IsMap(reservations', AppIds, Reservations)
    BY <1>2, <2>5, PutTyped DEF ReserveCompute, TypeOK
  <2> QED
    BY <1>2, <2>4, <2>6 DEF ReserveCompute, TypeOK, IsMap
<1>3. ASSUME ReleaseCompute(a)
      PROVE  TypeOK'
  <2> DEFINE r == reservations[a]
  <2>1. r \in Reservations
    BY <1>3 DEF ReleaseCompute, Held, TypeOK, IsMap
  <2>2. IsMap(clusters', ClusterIds, Clusters)
    <3>1. CASE r.cluster \in DOMAIN clusters
      <4> DEFINE c == r.cluster
                 new == [clusters[c] EXCEPT !.allocated = @ - r.petaops]
      <4>1. clusters[c] \in Clusters /\ r.petaops \in Nat
        BY <1>1, <2>1, <3>1 DEF TypeOK, IsMap, Reservations
      <4>2. new \in Clusters
        BY <4>1 DEF Clusters
      <4>3. clusters' = [clusters EXCEPT ![c] = new]
        BY <1>3 DEF ReleaseCompute
      <4> QED
        BY <4>2, <4>3, ReplacedTyped DEF TypeOK
    <3>2. CASE r.cluster \notin DOMAIN clusters
      BY <1>3, <3>2 DEF ReleaseCompute, TypeOK, IsMap
    <3> QED
      BY <3>1, <3>2
  <2>3. IsMap(reservations', AppIds, Reservations)
    <3> DEFINE new == [r EXCEPT !.released = TRUE]
    <3>1. new \in Reservations
      BY <2>1 DEF Reservations
    <3>2. reservations' = [reservations EXCEPT ![a] = new]
      BY <1>3 DEF ReleaseCompute
    <3> QED
      BY <3>1, <3>2, ReplacedTyped DEF TypeOK
  <2> QED
    BY <1>3, <2>2, <2>3 DEF ReleaseCompute, TypeOK, IsMap
<1>4. ASSUME NEW r \in RouteIds, NEW n \in Amounts, AssignRoute(a, r, n)
      PROVE  TypeOK'
  <2>1. routes[r] \in Routes /\ applications[a] \in Applications
    BY <1>4 DEF AssignRoute, TypeOK, IsMap
  <2>2. IsMap(routes', RouteIds, Routes)
    <3> DEFINE new == [routes[r] EXCEPT !.allocated = @ + n]
    <3>1. new \in Routes
      BY <1>1, <2>1 DEF Routes
    <3>2. routes' = [routes EXCEPT ![r] = new]
      BY <1>4 DEF AssignRoute
    <3> QED
      BY <3>1, <3>2, ReplacedTyped DEF TypeOK
  <2>3. IsMap(applications', AppIds, Applications)
    <3> DEFINE new == [applications[a] EXCEPT !.route = r]
    <3>1. new \in Applications
      BY <2>1 DEF Applications
    <3>2. applications' = [applications EXCEPT ![a] = new]
      BY <1>4 DEF AssignRoute
    <3> QED
      BY <3>1, <3>2, ReplacedTyped DEF TypeOK
  <2>4. assigned' \subseteq AppIds \X RouteIds
    BY <1>4 DEF AssignRoute, TypeOK
  <2> QED
    BY <1>4, <2>2, <2>3, <2>4 DEF AssignRoute, TypeOK, IsMap
<1>5. ASSUME NEW o \in OfferIds, NEW at \in 0 .. MaxTime, ApplyOffer(a, o, at)
      PROVE  TypeOK'
  <2>1. offers[o] \in Offers /\ applications[a] \in Applications
    BY <1>5 DEF ApplyOffer, TypeOK, IsMap
  <2>2. IsMap(offers', OfferIds, Offers)
    <3> DEFINE new == [offers[o] EXCEPT !.used = @ + 1]
    <3>1. new \in Offers
      BY <2>1 DEF Offers
    <3>2. offers' = [offers EXCEPT ![o] = new]
      BY <1>5 DEF ApplyOffer
    <3> QED
      BY <3>1, <3>2, ReplacedTyped DEF TypeOK
  <2>3. IsMap(applications', AppIds, Applications)
    <3> DEFINE new == [applications[a] EXCEPT !.offer = o]
    <3>1. new \in Applications
      BY <2>1 DEF Applications
    <3>2. applications' = [applications EXCEPT ![a] = new]
      BY <1>5 DEF ApplyOffer
    <3> QED
      BY <3>1, <3>2, ReplacedTyped DEF TypeOK
  <2>4. applied' \subseteq Uses
    BY <1>5 DEF ApplyOffer, Uses, TypeOK
  <2> QED
    BY <1>5, <2>2, <2>3, <2>4 DEF ApplyOffer, TypeOK, IsMap
<1> QED
  BY <1>2, <1>3, <1>4, <1>5

(* Scenes name an application that exists, communities seat members.       *)
LEMMA TypePlaces ==
  ASSUME TypeOK,
         \/ \E s \in SceneIds, a \in AppIds, t \in Tenants : PublishScene(s, a, t)
         \/ \E s \in SceneIds : ApproveScene(s)
         \/ \E c \in CommunityIds, m \in MemberIds : EnrollOPC(c, m)
  PROVE  TypeOK'
<1>1. ASSUME NEW s \in SceneIds, NEW a \in AppIds, NEW t \in Tenants,
             PublishScene(s, a, t)
      PROVE  TypeOK'
  <2>1. [tenant |-> t, application |-> a, status |-> "submitted"] \in Scenes
    BY DEF Scenes
  <2>2. IsMap(scenes', SceneIds, Scenes)
    BY <1>1, <2>1, PutTyped DEF PublishScene, TypeOK
  <2> QED
    BY <1>1, <2>2 DEF PublishScene, TypeOK, IsMap
<1>2. ASSUME NEW s \in SceneIds, ApproveScene(s)
      PROVE  TypeOK'
  <2> DEFINE new == [scenes[s] EXCEPT !.status = "approved"]
  <2>1. new \in Scenes
    BY <1>2 DEF ApproveScene, TypeOK, IsMap, Scenes
  <2>2. scenes' = [scenes EXCEPT ![s] = new]
    BY <1>2 DEF ApproveScene
  <2>3. IsMap(scenes', SceneIds, Scenes)
    BY <2>1, <2>2, ReplacedTyped DEF TypeOK
  <2> QED
    BY <1>2, <2>3 DEF ApproveScene, TypeOK, IsMap
<1>3. ASSUME NEW c \in CommunityIds, NEW m \in MemberIds, EnrollOPC(c, m)
      PROVE  TypeOK'
  <2> DEFINE new == [communities[c] EXCEPT !.members = Append(@, m)]
  <2>1. new \in Communities
    <3>1. communities[c] \in Communities
      BY <1>3 DEF EnrollOPC, TypeOK, IsMap
    <3>2. Append(communities[c].members, m) \in Seq(MemberIds)
      BY <3>1 DEF Communities
    <3> QED
      BY <3>1, <3>2 DEF Communities
  <2>2. communities' = [communities EXCEPT ![c] = new]
    BY <1>3 DEF EnrollOPC
  <2>3. IsMap(communities', CommunityIds, Communities)
    BY <2>1, <2>2, ReplacedTyped DEF TypeOK
  <2> QED
    BY <1>3, <2>3 DEF EnrollOPC, TypeOK, IsMap
<1> QED
  BY <1>1, <1>2, <1>3

LEMMA TypeStep == TypeOK /\ [Next]_vars => TypeOK'
<1> SUFFICES ASSUME TypeOK, [Next]_vars PROVE TypeOK'
  OBVIOUS
<1>1. CASE UNCHANGED vars
  BY <1>1 DEF vars, TypeOK, IsMap
<1> QED
  BY <1>1, TypeAdded, TypeApplication, TypeUsed, TypePlaces DEF Next

(* The maps of the registry hold well typed entries whatever the methods   *)
(* do and in any order, whatever resources they were given: attempts are   *)
(* counted from one, applications and members stay of their kinds          *)
(* (AIServices, internal/hub/ai_service.go).                               *)
THEOREM HubTypes == Spec => []TypeOK
<1> QED
  BY TypeInit, TypeStep, PTL DEF Spec

-----------------------------------------------------------------------------
(* Routes and offers.                                                      *)

(* An element more or less of a finite set.                                *)
LEMMA OneMore ==
  ASSUME NEW S, NEW x, IsFiniteSet(S)
  PROVE  /\ IsFiniteSet(S \cup {x})
         /\ Cardinality(S) \in Nat
         /\ Cardinality(S \cup {x}) \in Nat
         /\ Cardinality(S \cup {x}) <= Cardinality(S) + 1
         /\ x \notin S => Cardinality(S \cup {x}) = Cardinality(S) + 1
<1>1. IsFiniteSet(S \cup {x})
  BY FS_AddElement
<1>2. /\ Cardinality(S) \in Nat
      /\ Cardinality(S \cup {x}) \in Nat
  BY <1>1, FS_CardinalityType
<1>3. Cardinality(S \cup {x}) =
        IF x \in S THEN Cardinality(S) ELSE Cardinality(S) + 1
  BY FS_AddElement
<1> QED
  BY <1>1, <1>2, <1>3

(* A review changes the status and the attempt of an application alone.    *)
LEMMA ReviewKeeps ==
  ASSUME TypeOK, NEW a \in AppIds,
         \/ ApproveApplication(a)
         \/ ResubmitApplication(a)
         \/ CloseApplication(a)
         \/ \E to \in AppStatuses : WriteStatus(a, to)
  PROVE  /\ DOMAIN applications' = DOMAIN applications
         /\ \A b \in DOMAIN applications :
              /\ applications'[b].tenant = applications[b].tenant
              /\ applications'[b].country = applications[b].country
              /\ applications'[b].route = applications[b].route
              /\ applications'[b].offer = applications[b].offer
         /\ UNCHANGED <<routes, offers, communities, assigned, applied>>
<1>1. applications[a] \in Applications
  BY DEF ApproveApplication, ResubmitApplication, CloseApplication, WriteStatus,
         TypeOK, IsMap
<1>2. CASE ApproveApplication(a)
  BY <1>1, <1>2 DEF ApproveApplication, Applications
<1>3. CASE ResubmitApplication(a)
  BY <1>1, <1>3 DEF ResubmitApplication, Applications
<1>4. CASE CloseApplication(a)
  BY <1>1, <1>4 DEF CloseApplication, Applications
<1>5. CASE \E to \in AppStatuses : WriteStatus(a, to)
  BY <1>1, <1>5 DEF WriteStatus, Applications
<1> QED
  BY <1>2, <1>3, <1>4, <1>5

(* Those assigned to a route are finite in number, and exist.              *)
AssignedTo(r) == {a \in DOMAIN applications : <<a, r>> \in assigned}

AssignedExist ==
  \A a, r : <<a, r>> \in assigned => a \in DOMAIN applications /\ r \in DOMAIN routes

RouteInv ==
  /\ AssignedExist
  /\ \A r \in DOMAIN routes :
       /\ IsFiniteSet(AssignedTo(r))
       /\ AssignedTo(r) # {} => routes[r].allocated <= routes[r].capacity
       /\ routes[r].given + Cardinality(AssignedTo(r)) <= routes[r].allocated
       /\ \A a \in AssignedTo(r) : /\ App(a).tenant = routes[r].tenant
                                   /\ App(a).country = routes[r].country

LEMMA RouteKept ==
  ASSUME RouteInv, UNCHANGED <<routes, assigned>>,
         DOMAIN applications \subseteq DOMAIN applications',
         \A a \in DOMAIN applications :
           /\ applications'[a].tenant = applications[a].tenant
           /\ applications'[a].country = applications[a].country
  PROVE  RouteInv'
<1>1. AssignedExist'
  BY DEF RouteInv, AssignedExist
<1>2. \A r : AssignedTo(r)' = AssignedTo(r)
  BY <1>1 DEF RouteInv, AssignedExist, AssignedTo
<1>3. \A r : \A a \in AssignedTo(r) :
        /\ App(a)'.tenant = App(a).tenant
        /\ App(a)'.country = App(a).country
  BY DEF AssignedTo, App
<1> QED
  BY <1>1, <1>2, <1>3 DEF RouteInv

(* A route that is added was assigned to nobody.                           *)
LEMMA RouteAdded ==
  ASSUME TypeOK, RouteInv, NEW r \in RouteIds, NEW t \in Tenants,
         NEW k \in Countries, NEW n \in Amounts, NEW g \in GivenAmounts,
         NEW active \in BOOLEAN, AddRoute(r, t, k, n, g, active)
  PROVE  RouteInv'
<1>1. /\ DOMAIN routes' = DOMAIN routes \cup {r}
      /\ routes'[r].allocated = g
      /\ routes'[r].given = g
      /\ \A q \in DOMAIN routes : routes'[q] = routes[q]
      /\ UNCHANGED <<applications, assigned>>
  BY DEF AddRoute, Put
<1>2. AssignedTo(r)' = {}
  BY <1>1 DEF RouteInv, AssignedExist, AssignedTo, AddRoute
<1>3. \A q \in DOMAIN routes : AssignedTo(q)' = AssignedTo(q)
  BY <1>1 DEF AssignedTo
<1>4. g + 0 <= g
  BY ConstantsOK
<1>5. AssignedExist'
  BY <1>1 DEF RouteInv, AssignedExist
<1>6. ASSUME NEW q \in DOMAIN routes'
      PROVE  /\ IsFiniteSet(AssignedTo(q)')
             /\ AssignedTo(q)' # {} =>
                  routes'[q].allocated <= routes'[q].capacity
             /\ routes'[q].given + Cardinality(AssignedTo(q)')
                  <= routes'[q].allocated
             /\ \A a \in AssignedTo(q)' :
                  /\ App(a)'.tenant = routes'[q].tenant
                  /\ App(a)'.country = routes'[q].country
  <2>1. CASE q = r
    BY <2>1, <1>1, <1>2, <1>4, FS_EmptySet
  <2>2. CASE q # r
    BY <2>2, <1>1, <1>3 DEF RouteInv, App
  <2> QED
    BY <2>1, <2>2
<1> QED
  BY <1>5, <1>6 DEF RouteInv

(* An assignment adds one application at most, and at least one unit.      *)
LEMMA RouteAssigned ==
  ASSUME TypeOK, RouteInv, NEW a \in AppIds, NEW r \in RouteIds,
         NEW n \in Amounts, AssignRoute(a, r, n)
  PROVE  RouteInv'
<1>1. /\ a \in DOMAIN applications
      /\ r \in DOMAIN routes
      /\ RouteAdmits(routes[r], App(a), n)
      /\ assigned' = assigned \cup {<<a, r>>}
      /\ applications' = [applications EXCEPT ![a].route = r]
      /\ routes' = [routes EXCEPT ![r].allocated = @ + n]
  BY DEF AssignRoute
<1>2. /\ routes[r] \in Routes
      /\ applications[a] \in Applications
  BY <1>1 DEF TypeOK, IsMap
<1>3. /\ DOMAIN routes' = DOMAIN routes
      /\ \A q \in DOMAIN routes \ {r} : routes'[q] = routes[q]
      /\ routes'[r].allocated = routes[r].allocated + n
      /\ routes'[r].given = routes[r].given
      /\ routes'[r].capacity = routes[r].capacity
      /\ routes'[r].tenant = routes[r].tenant
      /\ routes'[r].country = routes[r].country
  BY <1>1, <1>2 DEF Routes
<1>4. /\ DOMAIN applications' = DOMAIN applications
      /\ \A b \in DOMAIN applications :
           /\ App(b)'.tenant = App(b).tenant
           /\ App(b)'.country = App(b).country
  BY <1>1, <1>2 DEF Applications, App
<1>5. /\ AssignedTo(r)' = AssignedTo(r) \cup {a}
      /\ \A q \in DOMAIN routes \ {r} : AssignedTo(q)' = AssignedTo(q)
  BY <1>1, <1>4 DEF AssignedTo
<1>6. /\ IsFiniteSet(AssignedTo(r)')
      /\ routes'[r].given + Cardinality(AssignedTo(r)') <= routes'[r].allocated
  <2>1. /\ IsFiniteSet(AssignedTo(r))
        /\ routes[r].given + Cardinality(AssignedTo(r)) <= routes[r].allocated
    BY <1>1 DEF RouteInv
  <2>2. /\ Cardinality(AssignedTo(r)) \in Nat
        /\ IsFiniteSet(AssignedTo(r)')
        /\ Cardinality(AssignedTo(r)') \in Nat
        /\ Cardinality(AssignedTo(r)') <= Cardinality(AssignedTo(r)) + 1
    BY <2>1, <1>5, OneMore
  <2>3. /\ n >= 1 /\ n \in Nat
        /\ routes[r].allocated \in Int /\ routes[r].given \in Int
    BY <1>2, ConstantsOK DEF Amounts, Routes
  <2> QED
    BY <2>1, <2>2, <2>3, <1>3
<1>7. routes'[r].allocated <= routes'[r].capacity
  BY <1>1, <1>2, <1>3, ConstantsOK DEF RouteAdmits, Routes, Amounts
<1>8. AssignedExist'
  BY <1>1, <1>3, <1>4 DEF RouteInv, AssignedExist
<1>9. ASSUME NEW q \in DOMAIN routes'
      PROVE  /\ IsFiniteSet(AssignedTo(q)')
             /\ AssignedTo(q)' # {} =>
                  routes'[q].allocated <= routes'[q].capacity
             /\ routes'[q].given + Cardinality(AssignedTo(q)')
                  <= routes'[q].allocated
             /\ \A b \in AssignedTo(q)' :
                  /\ App(b)'.tenant = routes'[q].tenant
                  /\ App(b)'.country = routes'[q].country
  <2>1. CASE q = r
    <3>1. \A b \in AssignedTo(r) : /\ App(b).tenant = routes[r].tenant
                                   /\ App(b).country = routes[r].country
      BY <1>1 DEF RouteInv
    <3>2. \A b \in AssignedTo(r) : b \in DOMAIN applications
      BY DEF AssignedTo
    <3>3. /\ App(a).tenant = routes[r].tenant
          /\ App(a).country = routes[r].country
      BY <1>1 DEF RouteAdmits
    <3> QED
      BY <2>1, <3>1, <3>2, <3>3, <1>1, <1>3, <1>4, <1>5, <1>6, <1>7
  <2>2. CASE q # r
    <3>1. \A b \in AssignedTo(q) : b \in DOMAIN applications
      BY DEF AssignedTo
    <3> QED
      BY <2>2, <3>1, <1>3, <1>4, <1>5 DEF RouteInv
  <2> QED
    BY <2>1, <2>2
<1> QED
  BY <1>8, <1>9 DEF RouteInv

LEMMA RouteStep == TypeOK /\ RouteInv /\ [Next]_vars => RouteInv'
<1> SUFFICES ASSUME TypeOK, RouteInv, [Next]_vars PROVE RouteInv'
  OBVIOUS
<1>1. CASE UNCHANGED <<applications, routes, assigned>>
  BY <1>1, RouteKept
<1>2. ASSUME NEW a \in AppIds, NEW t \in Tenants, NEW k \in Countries,
             NEW r \in GivenRoutes, NEW o \in GivenOffers,
             SubmitApplication(a, t, k, r, o)
      PROVE  RouteInv'
  BY <1>2, RouteKept DEF SubmitApplication, Put
<1>3. ASSUME NEW a \in AppIds,
             \/ ApproveApplication(a)
             \/ ResubmitApplication(a)
             \/ CloseApplication(a)
             \/ \E to \in AppStatuses : WriteStatus(a, to)
      PROVE  RouteInv'
  BY <1>3, ReviewKeeps, RouteKept
<1>4. ASSUME NEW a \in AppIds, NEW o \in OfferIds, NEW at \in 0 .. MaxTime,
             ApplyOffer(a, o, at)
      PROVE  RouteInv'
  <2>1. applications[a] \in Applications
    BY <1>4 DEF ApplyOffer, TypeOK, IsMap
  <2> QED
    BY <1>4, <2>1, RouteKept DEF ApplyOffer, Applications
<1> QED
  BY <1>1, <1>2, <1>3, <1>4, RouteAdded, RouteAssigned
  DEF Next, vars, AddCluster, AddOffer, AddCommunity, ReserveCompute,
      ReleaseCompute, PublishScene, ApproveScene, EnrollOPC

(* Whatever routes are added with, for any capacities and however often    *)
(* applications move: a route that was ever assigned carries no more than  *)
(* its capacity, and beyond what it was added with at least one unit for   *)
(* each application it was ever assigned to, all of its own tenant and     *)
(* country (AssignRoute; internal/hub/ai_service.go).                      *)
THEOREM RoutesHoldTheirs == Spec => []RouteLedger
<1>1. Init => RouteInv
  BY DEF Init, RouteInv, AssignedExist, Empty
<1>2. RouteInv => RouteLedger
  BY Zenon DEF RouteInv, RouteLedger, AssignedTo
<1> QED
  BY <1>1, <1>2, TypeInit, TypeStep, RouteStep, PTL DEF Spec

(* The uses of an offer are finite in number, and of offers and            *)
(* applications there are.                                                 *)
UsesOf(o) == {u \in applied : u.offer = o}

AppliedExist ==
  \A u \in applied : u.app \in DOMAIN applications /\ u.offer \in DOMAIN offers

(* An application of a country the offer serves, while it lasts.           *)
InOrder(u, offer) ==
  /\ App(u.app).country \in offer.countries
  /\ offer.from <= u.at /\ u.at <= offer.to

OfferInv ==
  /\ AppliedExist
  /\ \A o \in DOMAIN offers :
       /\ IsFiniteSet(UsesOf(o))
       /\ UsesOf(o) # {} => offers[o].used <= offers[o].capacity
       /\ offers[o].given + Cardinality(UsesOf(o)) <= offers[o].used
       /\ \A u \in UsesOf(o) : InOrder(u, offers[o])

LEMMA OfferKept ==
  ASSUME OfferInv, UNCHANGED <<offers, applied>>,
         DOMAIN applications \subseteq DOMAIN applications',
         \A a \in DOMAIN applications :
           applications'[a].country = applications[a].country
  PROVE  OfferInv'
<1>1. AppliedExist'
  BY DEF OfferInv, AppliedExist
<1>2. \A o : UsesOf(o)' = UsesOf(o)
  BY DEF UsesOf
<1>3. \A o : \A u \in UsesOf(o) : App(u.app)'.country = App(u.app).country
  BY DEF OfferInv, AppliedExist, UsesOf, App
<1> QED
  BY <1>1, <1>2, <1>3 DEF OfferInv, InOrder

(* An offer that is added was applied for by nobody.                       *)
LEMMA OfferAdded ==
  ASSUME TypeOK, OfferInv, NEW o \in OfferIds, NEW ks \in SUBSET Countries,
         NEW n \in Amounts, NEW g \in GivenAmounts,
         NEW from \in 0 .. MaxTime, NEW to \in 0 .. MaxTime,
         AddOffer(o, ks, n, g, from, to)
  PROVE  OfferInv'
<1>1. /\ DOMAIN offers' = DOMAIN offers \cup {o}
      /\ o \notin DOMAIN offers
      /\ offers'[o].used = g
      /\ offers'[o].given = g
      /\ \A p \in DOMAIN offers : offers'[p] = offers[p]
      /\ UNCHANGED <<applications, applied>>
  BY DEF AddOffer, Put
<1>2. AppliedExist'
  BY <1>1 DEF OfferInv, AppliedExist
<1>3. \A p : UsesOf(p)' = UsesOf(p)
  BY <1>1 DEF UsesOf
<1>4. UsesOf(o)' = {}
  BY <1>1 DEF OfferInv, AppliedExist, UsesOf
<1>5. g + 0 <= g
  BY ConstantsOK
<1>6. ASSUME NEW p \in DOMAIN offers'
      PROVE  /\ IsFiniteSet(UsesOf(p)')
             /\ UsesOf(p)' # {} => offers'[p].used <= offers'[p].capacity
             /\ offers'[p].given + Cardinality(UsesOf(p)') <= offers'[p].used
             /\ \A u \in UsesOf(p)' : InOrder(u, offers[p])'
  <2>1. CASE p = o
    BY <2>1, <1>1, <1>4, <1>5, FS_EmptySet
  <2>2. CASE p # o
    <3>1. p \in DOMAIN offers /\ offers'[p] = offers[p]
      BY <2>2, <1>1
    <3>2. \A u \in UsesOf(p) : InOrder(u, offers[p])'
      BY <3>1, <1>1 DEF OfferInv, InOrder, App
    <3> QED
      BY <3>1, <3>2, <1>3 DEF OfferInv
  <2> QED
    BY <2>1, <2>2
<1> QED
  BY <1>2, <1>6 DEF OfferInv

(* Applying adds one use at most, and one to what the offer counts.        *)
LEMMA OfferApplied ==
  ASSUME TypeOK, OfferInv, NEW a \in AppIds, NEW o \in OfferIds,
         NEW at \in 0 .. MaxTime, ApplyOffer(a, o, at)
  PROVE  OfferInv'
<1> PICK new : new = [app |-> a, offer |-> o, at |-> at]
  OBVIOUS
<1>1. /\ a \in DOMAIN applications
      /\ o \in DOMAIN offers
      /\ OfferAvailable(offers[o], App(a).country, at)
      /\ applications' = [applications EXCEPT ![a].offer = o]
      /\ applied' = applied \cup {new}
      /\ offers' = [offers EXCEPT ![o].used = @ + 1]
  BY DEF ApplyOffer
<1>2. /\ offers[o] \in Offers
      /\ applications[a] \in Applications
  BY <1>1 DEF TypeOK, IsMap
<1>3. /\ DOMAIN offers' = DOMAIN offers
      /\ \A p \in DOMAIN offers \ {o} : offers'[p] = offers[p]
      /\ offers'[o].used = offers[o].used + 1
      /\ offers'[o].given = offers[o].given
      /\ offers'[o].capacity = offers[o].capacity
      /\ offers'[o].countries = offers[o].countries
      /\ offers'[o].from = offers[o].from
      /\ offers'[o].to = offers[o].to
  BY <1>1, <1>2 DEF Offers
<1>4. /\ DOMAIN applications' = DOMAIN applications
      /\ \A b \in DOMAIN applications : App(b)'.country = App(b).country
  BY <1>1, <1>2 DEF Applications, App
<1>5. AppliedExist'
  BY <1>1, <1>3, <1>4 DEF OfferInv, AppliedExist
<1>6. /\ UsesOf(o)' = UsesOf(o) \cup {new}
      /\ \A p \in DOMAIN offers \ {o} : UsesOf(p)' = UsesOf(p)
  BY <1>1 DEF UsesOf
<1>7. \A p \in DOMAIN offers : \A u \in UsesOf(p) : InOrder(u, offers[p])'
  <2>1. \A p \in DOMAIN offers :
          /\ offers'[p].countries = offers[p].countries
          /\ offers'[p].from = offers[p].from
          /\ offers'[p].to = offers[p].to
    BY <1>3
  <2>2. \A p : \A u \in UsesOf(p) : App(u.app)'.country = App(u.app).country
    BY <1>4 DEF OfferInv, AppliedExist, UsesOf
  <2>3. \A p \in DOMAIN offers : \A u \in UsesOf(p) : InOrder(u, offers[p])
    BY DEF OfferInv
  <2> QED
    BY <2>1, <2>2, <2>3 DEF InOrder
<1>8. InOrder(new, offers[o])'
  <2>1. App(a).country \in offers[o].countries
    BY <1>1 DEF OfferAvailable
  <2>2. offers[o].from <= at /\ at <= offers[o].to
    BY <1>1, <1>2, ConstantsOK DEF OfferAvailable, OfferOutsideWindow, Offers
  <2> QED
    BY <2>1, <2>2, <1>1, <1>3, <1>4 DEF InOrder
<1>9. /\ IsFiniteSet(UsesOf(o)')
      /\ offers'[o].given + Cardinality(UsesOf(o)') <= offers'[o].used
  <2>1. /\ IsFiniteSet(UsesOf(o))
        /\ offers[o].given + Cardinality(UsesOf(o)) <= offers[o].used
    BY <1>1 DEF OfferInv
  <2>2. /\ Cardinality(UsesOf(o)) \in Nat
        /\ IsFiniteSet(UsesOf(o)')
        /\ Cardinality(UsesOf(o)') \in Nat
        /\ Cardinality(UsesOf(o)') <= Cardinality(UsesOf(o)) + 1
    BY <2>1, <1>6, OneMore
  <2>3. offers[o].used \in Int /\ offers[o].given \in Int
    BY <1>2 DEF Offers
  <2> QED
    BY <2>1, <2>2, <2>3, <1>3
<1>10. offers'[o].used <= offers'[o].capacity
  BY <1>1, <1>2, <1>3, ConstantsOK DEF OfferAvailable, Offers, Amounts
<1>11. ASSUME NEW p \in DOMAIN offers'
       PROVE  /\ IsFiniteSet(UsesOf(p)')
              /\ UsesOf(p)' # {} => offers'[p].used <= offers'[p].capacity
              /\ offers'[p].given + Cardinality(UsesOf(p)') <= offers'[p].used
              /\ \A u \in UsesOf(p)' : InOrder(u, offers[p])'
  <2>1. CASE p = o
    BY <2>1, <1>1, <1>6, <1>7, <1>8, <1>9, <1>10
  <2>2. CASE p # o
    <3>1. /\ p \in DOMAIN offers /\ offers'[p] = offers[p]
          /\ UsesOf(p)' = UsesOf(p)
      BY <2>2, <1>3, <1>6
    <3> QED
      BY <3>1, <1>7 DEF OfferInv
  <2> QED
    BY <2>1, <2>2
<1> QED
  BY <1>5, <1>11 DEF OfferInv

LEMMA OfferStep == TypeOK /\ OfferInv /\ [Next]_vars => OfferInv'
<1> SUFFICES ASSUME TypeOK, OfferInv, [Next]_vars PROVE OfferInv'
  OBVIOUS
<1>1. CASE UNCHANGED <<applications, offers, applied>>
  BY <1>1, OfferKept
<1>2. ASSUME NEW a \in AppIds, NEW t \in Tenants, NEW k \in Countries,
             NEW r \in GivenRoutes, NEW o \in GivenOffers,
             SubmitApplication(a, t, k, r, o)
      PROVE  OfferInv'
  BY <1>2, OfferKept DEF SubmitApplication, Put
<1>3. ASSUME NEW a \in AppIds,
             \/ ApproveApplication(a)
             \/ ResubmitApplication(a)
             \/ CloseApplication(a)
             \/ \E to \in AppStatuses : WriteStatus(a, to)
      PROVE  OfferInv'
  BY <1>3, ReviewKeeps, OfferKept
<1>4. ASSUME NEW a \in AppIds, NEW r \in RouteIds, NEW n \in Amounts,
             AssignRoute(a, r, n)
      PROVE  OfferInv'
  <2>1. applications[a] \in Applications
    BY <1>4 DEF AssignRoute, TypeOK, IsMap
  <2> QED
    BY <1>4, <2>1, OfferKept DEF AssignRoute, Applications
<1> QED
  BY <1>1, <1>2, <1>3, <1>4, OfferAdded, OfferApplied
  DEF Next, vars, AddCluster, AddRoute, AddCommunity, ReserveCompute,
      ReleaseCompute, PublishScene, ApproveScene, EnrollOPC

(* Whatever offers are added with and whichever applications name, for any *)
(* windows and order of applications, which may move from one offer to     *)
(* another and apply for the same one again: an offer that was applied for *)
(* is not used beyond its capacity, counts every use beyond what it was    *)
(* added with, and each was in its window by an application of a country   *)
(* it serves (ApplyOffer).                                                 *)
THEOREM OffersHoldTheirs == Spec => []OfferLedger
<1>1. Init => OfferInv
  BY DEF Init, OfferInv, AppliedExist, Empty
<1>2. OfferInv => OfferLedger
  BY Zenon DEF OfferInv, OfferLedger, UsesOf, InOrder
<1> QED
  BY <1>1, <1>2, TypeInit, TypeStep, OfferStep, PTL DEF Spec

-----------------------------------------------------------------------------
(* Reviews and seats.                                                      *)

(* Statuses and routes as they were; routes may be added.                  *)
LEMMA ServedKept ==
  ASSUME ApprovedRouteServes, DOMAIN applications' = DOMAIN applications,
         DOMAIN routes \subseteq DOMAIN routes',
         \A r \in DOMAIN routes : routes[r].active => routes'[r].active,
         \A a \in DOMAIN applications :
           /\ applications'[a].route = applications[a].route
           /\ applications'[a].status \in {"approved", "active", "closed"} =>
                applications[a].status \in {"approved", "active", "closed"}
  PROVE  ApprovedRouteServes'
BY DEF ApprovedRouteServes, App

LEMMA ServedStep ==
  TypeOK /\ ApprovedRouteServes /\ [Next]_vars => ApprovedRouteServes'
<1> SUFFICES ASSUME TypeOK, ApprovedRouteServes, [Next]_vars
             PROVE  ApprovedRouteServes'
  OBVIOUS
<1>1. CASE UNCHANGED <<applications, routes>>
  BY <1>1, ServedKept
<1>2. ASSUME NEW r \in RouteIds, NEW t \in Tenants, NEW k \in Countries,
             NEW n \in Amounts, NEW g \in GivenAmounts, NEW active \in BOOLEAN,
             AddRoute(r, t, k, n, g, active)
      PROVE  ApprovedRouteServes'
  BY <1>2, ServedKept DEF AddRoute, Put
<1>3. ASSUME NEW a \in AppIds, NEW t \in Tenants, NEW k \in Countries,
             NEW r \in GivenRoutes, NEW o \in GivenOffers,
             SubmitApplication(a, t, k, r, o)
      PROVE  ApprovedRouteServes'
  BY <1>3 DEF SubmitApplication, Put, ApprovedRouteServes, App
<1>4. ASSUME NEW a \in AppIds, ApproveApplication(a)
      PROVE  ApprovedRouteServes'
  <2>1. applications[a] \in Applications
    BY <1>4 DEF ApproveApplication, TypeOK, IsMap
  <2>2. /\ DOMAIN applications' = DOMAIN applications
        /\ applications'[a].route = applications[a].route
        /\ \A b \in DOMAIN applications \ {a} :
             applications'[b] = applications[b]
        /\ routes' = routes
    BY <1>4, <2>1 DEF ApproveApplication, Applications
  <2> QED
    BY <1>4, <2>2 DEF ApproveApplication, CanApprove, ApprovedRouteServes, App
<1>5. ASSUME NEW a \in AppIds,
             \/ ResubmitApplication(a)
             \/ CloseApplication(a)
             \/ \E to \in AppStatuses : WriteStatus(a, to)
      PROVE  ApprovedRouteServes'
  <2>1. applications[a] \in Applications
    BY <1>5 DEF ResubmitApplication, CloseApplication, WriteStatus, TypeOK, IsMap
  <2>2. \A b \in DOMAIN applications :
          applications'[b].status \in {"approved", "active", "closed"} =>
            applications[b].status \in {"approved", "active", "closed"}
    BY <1>5, <2>1 DEF ResubmitApplication, CloseApplication, WriteStatus, App,
                      ValidApplicationTransition, Applications
  <2> QED
    BY <1>5, <2>2, ReviewKeeps, ServedKept
<1>6. ASSUME NEW a \in AppIds, NEW r \in RouteIds, NEW n \in Amounts,
             AssignRoute(a, r, n)
      PROVE  ApprovedRouteServes'
  <2>1. routes[r] \in Routes /\ applications[a] \in Applications
    BY <1>6 DEF AssignRoute, TypeOK, IsMap
  <2>2. /\ DOMAIN routes' = DOMAIN routes
        /\ r \in DOMAIN routes
        /\ routes'[r].active
        /\ \A q \in DOMAIN routes \ {r} : routes'[q] = routes[q]
    BY <1>6, <2>1 DEF AssignRoute, RouteAdmits, Routes
  <2>3. /\ DOMAIN applications' = DOMAIN applications
        /\ applications'[a].route = r
        /\ \A b \in DOMAIN applications \ {a} :
             applications'[b] = applications[b]
    BY <1>6, <2>1 DEF AssignRoute, Applications
  <2> QED
    BY <2>2, <2>3 DEF ApprovedRouteServes, App
<1>7. ASSUME NEW a \in AppIds, NEW o \in OfferIds, NEW at \in 0 .. MaxTime,
             ApplyOffer(a, o, at)
      PROVE  ApprovedRouteServes'
  <2>1. applications[a] \in Applications
    BY <1>7 DEF ApplyOffer, TypeOK, IsMap
  <2> QED
    BY <1>7, <2>1, ServedKept DEF ApplyOffer, Applications
<1> QED
  BY <1>1, <1>2, <1>3, <1>4, <1>5, <1>6, <1>7
  DEF Next, vars, AddCluster, AddOffer, AddCommunity, ReserveCompute,
      ReleaseCompute, PublishScene, ApproveScene, EnrollOPC

(* Whatever route an application was submitted with or is moved to, before *)
(* or after its approval: approved and running, it names no route or one   *)
(* that exists and is active (ApproveApplication, AssignRoute).            *)
THEOREM ApprovedAreServed == Spec => []ApprovedRouteServes
<1>1. Init => ApprovedRouteServes
  BY DEF Init, ApprovedRouteServes, Empty
<1> QED
  BY <1>1, TypeInit, TypeStep, ServedStep, PTL DEF Spec

(* Enrolled since: the members after those a community came with.          *)
SeatsInv ==
  \A c \in DOMAIN communities :
    LET members == communities[c].members
        given == communities[c].given
    IN  /\ \A i, j \in DOMAIN members :
             i < j /\ given < j => members[i] # members[j]
        /\ given <= Len(members)
        /\ given < Len(members) => Len(members) <= communities[c].capacity

LEMMA SeatsStep == TypeOK /\ SeatsInv /\ [Next]_vars => SeatsInv'
<1> SUFFICES ASSUME TypeOK, SeatsInv, [Next]_vars PROVE SeatsInv'
  OBVIOUS
<1>1. CASE UNCHANGED communities
  BY <1>1 DEF SeatsInv
<1>2. ASSUME NEW c \in CommunityIds, NEW n \in Amounts,
             NEW ms \in GivenMembers, AddCommunity(c, n, ms)
      PROVE  SeatsInv'
  <2>1. /\ DOMAIN communities' = DOMAIN communities \cup {c}
        /\ communities'[c].members = ms
        /\ communities'[c].given = Len(ms)
        /\ \A d \in DOMAIN communities : d # c => communities'[d] = communities[d]
    BY <1>2 DEF AddCommunity, Put
  <2>2. ms \in Seq(MemberIds)
    BY ConstantsOK
  <2>3. /\ Len(ms) \in Nat
        /\ \A j \in DOMAIN ms : j \in Nat /\ j <= Len(ms)
    BY <2>2
  <2>4. /\ \A i, j \in DOMAIN ms : ~ (Len(ms) < j)
        /\ Len(ms) <= Len(ms)
        /\ ~ (Len(ms) < Len(ms))
    BY <2>3
  <2> QED
    BY <2>1, <2>4 DEF SeatsInv
<1>3. ASSUME NEW c \in CommunityIds, NEW m \in MemberIds, EnrollOPC(c, m)
      PROVE  SeatsInv'
  <2> PICK old, new : old = communities[c].members /\ new = Append(old, m)
    OBVIOUS
  <2>1. /\ communities[c] \in Communities
        /\ c \in DOMAIN communities
        /\ \A i \in DOMAIN old : old[i] # m
        /\ Len(old) < communities[c].capacity
    BY <1>3 DEF EnrollOPC, TypeOK, IsMap, Members
  <2>2. /\ old \in Seq(MemberIds)
        /\ communities[c].capacity \in Nat
        /\ communities[c].given \in Nat
    BY <2>1, ConstantsOK DEF Communities, Amounts
  <2>3. /\ DOMAIN communities' = DOMAIN communities
        /\ communities'[c].members = new
        /\ communities'[c].capacity = communities[c].capacity
        /\ communities'[c].given = communities[c].given
        /\ \A d \in DOMAIN communities \ {c} : communities'[d] = communities[d]
    BY <1>3, <2>1 DEF EnrollOPC, Communities
  <2>4. /\ Len(old) \in Nat /\ Len(new) = Len(old) + 1
        /\ DOMAIN old = 1 .. Len(old)
        /\ DOMAIN new = 1 .. Len(old) + 1
        /\ \A i \in DOMAIN old : new[i] = old[i]
        /\ new[Len(old) + 1] = m
    BY <2>2
  <2>5. /\ \A i, j \in DOMAIN old :
             i < j /\ communities[c].given < j => old[i] # old[j]
        /\ communities[c].given <= Len(old)
    BY <2>1 DEF SeatsInv
  <2>6. \A i, j \in DOMAIN new :
          i < j /\ communities[c].given < j => new[i] # new[j]
    BY <2>1, <2>2, <2>4, <2>5
  <2>7. /\ communities[c].given <= Len(new)
        /\ Len(new) <= communities[c].capacity
    BY <2>1, <2>2, <2>4, <2>5
  <2>8. ASSUME NEW d \in DOMAIN communities'
        PROVE  LET members == communities'[d].members
                   given == communities'[d].given
               IN  /\ \A i, j \in DOMAIN members :
                        i < j /\ given < j => members[i] # members[j]
                   /\ given <= Len(members)
                   /\ given < Len(members) =>
                        Len(members) <= communities'[d].capacity
    <3>1. CASE d = c
      BY <3>1, <2>3, <2>6, <2>7
    <3>2. CASE d # c
      <4>1. d \in DOMAIN communities /\ communities'[d] = communities[d]
        BY <3>2, <2>3
      <4> QED
        BY <4>1 DEF SeatsInv
    <3> QED
      BY <3>1, <3>2
  <2> QED
    BY <2>8 DEF SeatsInv
<1> QED
  BY <1>1, <1>2, <1>3
  DEF Next, vars, AddCluster, AddRoute, AddOffer, SubmitApplication,
      ReserveCompute, ReleaseCompute, ApproveApplication, AssignRoute,
      ApplyOffer, ResubmitApplication, CloseApplication, WriteStatus,
      PublishScene, ApproveScene

(* For any members and capacities, and whatever members a community came   *)
(* with: those enrolled since are new to it, and once anybody enrolled it  *)
(* has no more members than seats (EnrollOPC).                             *)
THEOREM SeatsAreHeldOnce == Spec => []SeatsLedger
<1>1. Init => SeatsInv
  BY DEF Init, SeatsInv, Empty
<1>2. SeatsInv => SeatsLedger
  BY DEF SeatsInv, SeatsLedger
<1> QED
  BY <1>1, <1>2, TypeInit, TypeStep, SeatsStep, PTL DEF Spec

-----------------------------------------------------------------------------
(* The event log.                                                          *)

Running == {"approved", "active", "closed"}
Waiting == {"pending", "returned"}

EventsOf(a, action) ==
  {i \in DOMAIN events : events[i].entity = a /\ events[i].action = action}

(* What the log tells of an application, given its status.                 *)
Told(a) ==
  /\ Cardinality(EventsOf(a, "submitted")) = 1
  /\ Cardinality(EventsOf(a, "approved")) <= 1
  /\ \A i \in EventsOf(a, "submitted"), j \in EventsOf(a, "approved") : i < j
  /\ App(a).status \in Running => EventsOf(a, "approved") # {}
  /\ App(a).status \in Waiting => EventsOf(a, "approved") = {}

AuditInv ==
  /\ \A i \in DOMAIN events : events[i].entity \in DOMAIN applications
  /\ \A a \in DOMAIN applications : Told(a)

LEMMA AuditKept ==
  ASSUME AuditInv, UNCHANGED events,
         DOMAIN applications' = DOMAIN applications,
         \A a \in DOMAIN applications :
           /\ applications'[a].status \in Running =>
                applications[a].status \in Running
           /\ applications'[a].status \in Waiting =>
                applications[a].status \in Waiting
  PROVE  AuditInv'
<1>1. \A a, action : EventsOf(a, action)' = EventsOf(a, action)
  BY DEF EventsOf
<1>2. ASSUME NEW a \in DOMAIN applications
      PROVE  Told(a)'
  BY <1>1 DEF AuditInv, Told, App
<1> QED
  BY <1>2 DEF AuditInv

(* An event that is appended is told of its application, last.             *)
LEMMA EventAppended ==
  ASSUME TypeOK, NEW a, NEW action,
         events' = Append(events, [entity |-> a, action |-> action])
  PROVE  /\ \A i \in DOMAIN events' :
              \/ i \in DOMAIN events /\ events'[i] = events[i]
              \/ i = Len(events) + 1 /\ events'[i].entity = a
         /\ EventsOf(a, action)' = EventsOf(a, action) \cup {Len(events) + 1}
         /\ \A b, act :
              b # a \/ act # action => EventsOf(b, act)' = EventsOf(b, act)
         /\ \A b, act : \A i \in EventsOf(b, act) : i \in Nat /\ i < Len(events) + 1
<1> DEFINE new == [entity |-> a, action |-> action]
<1>1. events \in Seq(Events) /\ new.entity = a /\ new.action = action
  BY DEF TypeOK
<1>2. events' = Append(events, new)
  OBVIOUS
<1> HIDE DEF new
<1>3. /\ DOMAIN events = 1 .. Len(events)
      /\ Len(events) \in Nat
      /\ DOMAIN events' = 1 .. Len(events) + 1
      /\ \A i \in DOMAIN events : events'[i] = events[i]
      /\ events'[Len(events) + 1] = new
  BY <1>1, <1>2
<1> QED
  BY <1>1, <1>3 DEF EventsOf

LEMMA FewEvents ==
  ASSUME NEW x
  PROVE  Cardinality({x}) = 1 /\ Cardinality({}) = 0
BY FS_Singleton, FS_EmptySet, Zenon

LEMMA AuditSubmitted ==
  ASSUME TypeOK, AuditInv, NEW a \in AppIds, NEW t \in Tenants,
         NEW k \in Countries, NEW r \in GivenRoutes, NEW o \in GivenOffers,
         SubmitApplication(a, t, k, r, o)
  PROVE  AuditInv'
<1>1. /\ DOMAIN applications' = DOMAIN applications \cup {a}
      /\ a \notin DOMAIN applications
      /\ applications'[a].status = "pending"
      /\ \A b \in DOMAIN applications : applications'[b] = applications[b]
      /\ events' = Append(events, [entity |-> a, action |-> "submitted"])
  BY DEF SubmitApplication, Put
<1>2. \A i \in DOMAIN events' : events'[i].entity \in DOMAIN applications'
  BY <1>1, EventAppended DEF AuditInv
<1>3. ASSUME NEW b \in DOMAIN applications
      PROVE  Told(b)'
  <2>1. \A action : EventsOf(b, action)' = EventsOf(b, action)
    BY <1>1, EventAppended
  <2>2. App(b)' = App(b)
    BY <1>1 DEF App
  <2>3. Told(b)
    BY DEF AuditInv
  <2> QED
    BY <2>1, <2>2, <2>3 DEF Told
<1>4. Told(a)'
  <2>1. \A action : EventsOf(a, action) = {}
    BY <1>1 DEF AuditInv, EventsOf
  <2>2. /\ EventsOf(a, "submitted")' = {Len(events) + 1}
        /\ EventsOf(a, "approved")' = {}
    BY <1>1, <2>1, EventAppended
  <2>3. App(a)'.status \in Waiting /\ App(a)'.status \notin Running
    BY <1>1 DEF App, Waiting, Running
  <2>4. /\ Cardinality(EventsOf(a, "submitted")') = 1
        /\ Cardinality(EventsOf(a, "approved")') = 0
    BY <2>2, FewEvents, Zenon
  <2> QED
    BY <2>2, <2>3, <2>4 DEF Told
<1> QED
  BY <1>1, <1>2, <1>3, <1>4 DEF AuditInv

LEMMA AuditApproved ==
  ASSUME TypeOK, AuditInv, NEW a \in AppIds, ApproveApplication(a)
  PROVE  AuditInv'
<1>1. a \in DOMAIN applications /\ applications[a] \in Applications
  BY DEF ApproveApplication, TypeOK, IsMap
<1>2. /\ DOMAIN applications' = DOMAIN applications
      /\ applications[a].status = "pending"
      /\ applications'[a].status = "approved"
      /\ \A b \in DOMAIN applications \ {a} : applications'[b] = applications[b]
      /\ events' = Append(events, [entity |-> a, action |-> "approved"])
  BY <1>1 DEF ApproveApplication, CanApprove, ValidApplicationTransition, App,
              Applications
<1>3. \A i \in DOMAIN events' : events'[i].entity \in DOMAIN applications'
  BY <1>1, <1>2, EventAppended DEF AuditInv
<1>4. ASSUME NEW b \in DOMAIN applications \ {a}
      PROVE  Told(b)'
  <2>1. \A action : EventsOf(b, action)' = EventsOf(b, action)
    BY <1>2, EventAppended
  <2>2. App(b)' = App(b)
    BY <1>2 DEF App
  <2>3. Told(b)
    BY DEF AuditInv
  <2> QED
    BY <2>1, <2>2, <2>3 DEF Told
<1>5. Told(a)'
  <2>1. Told(a) /\ EventsOf(a, "approved") = {}
    BY <1>1, <1>2 DEF AuditInv, Told, App, Waiting
  <2>2. /\ EventsOf(a, "submitted")' = EventsOf(a, "submitted")
        /\ EventsOf(a, "approved")' = {Len(events) + 1}
        /\ \A i \in EventsOf(a, "submitted") : i < Len(events) + 1
    BY <1>2, <2>1, EventAppended
  <2>3. App(a)'.status \in Running /\ App(a)'.status \notin Waiting
    BY <1>2 DEF App, Waiting, Running
  <2>4. Cardinality(EventsOf(a, "approved")') = 1
    BY <2>2, FewEvents, Zenon
  <2> QED
    BY <2>1, <2>2, <2>3, <2>4 DEF Told
<1> QED
  BY <1>2, <1>3, <1>4, <1>5 DEF AuditInv

LEMMA AuditStep == TypeOK /\ AuditInv /\ [Next]_vars => AuditInv'
<1> SUFFICES ASSUME TypeOK, AuditInv, [Next]_vars PROVE AuditInv'
  OBVIOUS
<1>1. CASE UNCHANGED <<applications, events>>
  BY <1>1, AuditKept
<1>2. ASSUME NEW a \in AppIds,
             \/ ResubmitApplication(a)
             \/ CloseApplication(a)
             \/ \E to \in AppStatuses : WriteStatus(a, to)
      PROVE  AuditInv'
  <2>1. applications[a] \in Applications /\ events' = events
    BY <1>2 DEF ResubmitApplication, CloseApplication, WriteStatus, TypeOK, IsMap
  <2>2. \A b \in DOMAIN applications :
          /\ applications'[b].status \in Running =>
               applications[b].status \in Running
          /\ applications'[b].status \in Waiting =>
               applications[b].status \in Waiting
    BY <1>2, <2>1 DEF ResubmitApplication, CloseApplication, WriteStatus, App,
                      ValidApplicationTransition, Applications, Running, Waiting
  <2> QED
    BY <1>2, <2>1, <2>2, ReviewKeeps, AuditKept
<1>3. ASSUME NEW a \in AppIds, NEW r \in RouteIds, NEW n \in Amounts,
             AssignRoute(a, r, n)
      PROVE  AuditInv'
  <2>1. applications[a] \in Applications
    BY <1>3 DEF AssignRoute, TypeOK, IsMap
  <2> QED
    BY <1>3, <2>1, AuditKept DEF AssignRoute, Applications
<1>4. ASSUME NEW a \in AppIds, NEW o \in OfferIds, NEW at \in 0 .. MaxTime,
             ApplyOffer(a, o, at)
      PROVE  AuditInv'
  <2>1. applications[a] \in Applications
    BY <1>4 DEF ApplyOffer, TypeOK, IsMap
  <2> QED
    BY <1>4, <2>1, AuditKept DEF ApplyOffer, Applications
<1> QED
  BY <1>1, <1>2, <1>3, <1>4, AuditSubmitted, AuditApproved
  DEF Next, vars, AddCluster, AddRoute, AddOffer, AddCommunity, ReserveCompute,
      ReleaseCompute, PublishScene, ApproveScene, EnrollOPC

(* For any projects and however reviews, returns and resubmissions follow  *)
(* one another: the log has an application submitted once, approved once   *)
(* at most and later, and approved exactly if its status is that or comes  *)
(* after it, unless it was cancelled (SubmitApplication,                   *)
(* ApproveApplication; README.md:12).                                      *)
THEOREM LogTellsApprovals == Spec => []ApprovalsAudited
<1>1. Init => AuditInv
  BY DEF Init, AuditInv, Empty
<1>2. AuditInv => ApprovalsAudited
  BY Zenon
  DEF AuditInv, Told, ApprovalsAudited, EventsOf, Running, Waiting
<1> QED
  BY <1>1, <1>2, TypeInit, TypeStep, AuditStep, PTL DEF Spec

-----------------------------------------------------------------------------
(* Sums of petaops.                                                        *)

(* The least of some naturals.                                             *)
LEMMA LeastNatural ==
  ASSUME NEW T \in SUBSET Nat, T # {}
  PROVE  \E n \in T : \A m \in T : n <= m
<1>1. PICK n \in T : \A m \in T : ~ (<<m, n>> \in OpToRel(<, Nat))
  BY NatLessThanWellFounded, WFMin
<1>2. ASSUME NEW m \in T
      PROVE  n <= m
  <2>1. ~ (m < n)
    BY <1>1 DEF OpToRel
  <2>2. m \in Nat /\ n \in Nat
    OBVIOUS
  <2> QED
    BY <2>1, <2>2
<1> QED
  BY <1>2

(* The petaops of some applications in the map r, from those without the   *)
(* one the sum takes first.                                                *)
SumStep(g, r, s) ==
  IF s = {} THEN 0
  ELSE LET a == CHOOSE x \in s : TRUE IN r[a].petaops + g[s \ {a}]

Sums(g, r, D) == \A s \in SUBSET D : g[s] = SumStep(g, r, s)

Petaops(r, D) == (CHOOSE g : g = [s \in SUBSET D |-> SumStep(g, r, s)])[D]

(* What the sum is by the definition of MapThenSumSet.                     *)
LEMMA SumOfPetaops ==
  ASSUME NEW r, NEW D
  PROVE  MapThenSumSet(LAMBDA a : r[a].petaops, D) = Petaops(r, D)
  BY DEF MapThenSumSet, MapThenFoldSet, SumStep, Petaops

(* A set without the element taken first is smaller by one.                *)
LEMMA Smaller ==
  ASSUME NEW s, IsFiniteSet(s), NEW a \in s
  PROVE  /\ IsFiniteSet(s \ {a})
         /\ Cardinality(s \ {a}) = Cardinality(s) - 1
         /\ Cardinality(s) \in Nat /\ Cardinality(s \ {a}) \in Nat
<1>1. /\ IsFiniteSet(s \ {a})
      /\ Cardinality(s \ {a}) = Cardinality(s) - 1
  BY FS_RemoveElement
<1> QED
  BY <1>1, FS_CardinalityType

(* There are such sums: for the sets of n + 1 applications they are made   *)
(* of those for the sets of n.                                             *)
LEMMA SumsExist ==
  ASSUME NEW r, NEW D, IsFiniteSet(D), \A a \in D : r[a].petaops \in Int
  PROVE  \E g : /\ g = [s \in SUBSET D |-> SumStep(g, r, s)]
                /\ g \in [SUBSET D -> Int]
<1> DEFINE Upto(g, n) == \A s \in SUBSET D :
             Cardinality(s) <= n => g[s] = SumStep(g, r, s)
           Missing == {n \in Nat : ~ \E g \in [SUBSET D -> Int] : Upto(g, n)}
<1>1. \A s \in SUBSET D : IsFiniteSet(s) /\ Cardinality(s) \in 0 .. Cardinality(D)
  BY FS_Subset, FS_CardinalityType
<1>2. Cardinality(D) \in Nat
  BY FS_CardinalityType
<1>3. ASSUME NEW s \in SUBSET D, s # {}
      PROVE  LET a == CHOOSE x \in s : TRUE
             IN  a \in s /\ Cardinality(s \ {a}) = Cardinality(s) - 1
  BY <1>1, <1>3, FS_RemoveElement
<1>4. 0 \notin Missing
  <2> DEFINE g == [s \in SUBSET D |-> 0]
  <2>1. ASSUME NEW s \in SUBSET D, Cardinality(s) <= 0
        PROVE  s = {}
    BY <1>1, <2>1, FS_EmptySet
  <2>2. g \in [SUBSET D -> Int] /\ Upto(g, 0)
    BY <2>1 DEF SumStep
  <2> QED
    BY <2>2
<1>5. ASSUME NEW n \in Nat, NEW g \in [SUBSET D -> Int], Upto(g, n)
      PROVE  \E h \in [SUBSET D -> Int] : Upto(h, n + 1)
  <2> DEFINE h == [s \in SUBSET D |-> IF Cardinality(s) <= n THEN g[s]
                                      ELSE SumStep(g, r, s)]
  <2>1. ASSUME NEW s \in SUBSET D
        PROVE  SumStep(g, r, s) \in Int
    BY <1>3 DEF SumStep
  <2>2. h \in [SUBSET D -> Int]
    BY <2>1
  <2>3. ASSUME NEW s \in SUBSET D, Cardinality(s) <= n + 1
        PROVE  SumStep(h, r, s) = SumStep(g, r, s)
    <3>1. CASE s = {}
      BY <3>1 DEF SumStep
    <3>2. CASE s # {}
      <4> PICK a : a = CHOOSE x \in s : TRUE
        OBVIOUS
      <4>1. s \ {a} \in SUBSET D /\ Cardinality(s \ {a}) <= n
        BY <1>1, <1>3, <2>3, <3>2
      <4>2. h[s \ {a}] = g[s \ {a}]
        BY <4>1
      <4> HIDE DEF h
      <4> QED
        BY <3>2, <4>2 DEF SumStep
    <3> QED
      BY <3>1, <3>2
  <2>4. Upto(h, n + 1)
    BY <1>1, <1>5, <2>3
  <2> QED
    BY <2>2, <2>4
<1> HIDE DEF Upto
<1>6. Missing = {}
  <2> SUFFICES ASSUME Missing # {}
               PROVE  FALSE
    OBVIOUS
  <2>1. PICK n \in Missing : \A m \in Missing : n <= m
    <3>1. Missing \in SUBSET Nat
      OBVIOUS
    <3> HIDE DEF Missing
    <3> QED
      BY <3>1, LeastNatural
  <2>2. n \in Nat /\ n # 0 /\ n - 1 \in Nat /\ n - 1 \notin Missing
    <3>1. n \in Nat
      OBVIOUS
    <3> HIDE DEF Missing
    <3> QED
      BY <1>4, <2>1, <3>1
  <2>3. PICK g \in [SUBSET D -> Int] : Upto(g, n - 1)
    BY <2>2
  <2>4. (n - 1) + 1 = n
    BY <2>2
  <2>5. \E h \in [SUBSET D -> Int] : Upto(h, n)
    BY <1>5, <2>2, <2>3, <2>4
  <2> QED
    BY <2>1, <2>5
<1>7. PICK g \in [SUBSET D -> Int] : Upto(g, Cardinality(D))
  BY <1>2, <1>6
<1>8. \A s \in SUBSET D : g[s] = SumStep(g, r, s)
  BY <1>1, <1>7 DEF Upto
<1>9. g = [s \in SUBSET D |-> SumStep(g, r, s)]
  BY <1>8
<1> QED
  BY <1>9

(* The sums do not depend on the set they were made for, nor on the map    *)
(* beyond the petaops summed: a least set on which two differed would be,  *)
(* without the one taken first, a smaller one.                             *)
LEMMA SumsAgree ==
  ASSUME NEW r, NEW q, NEW D, NEW E, NEW g, NEW h,
         Sums(g, r, D), Sums(h, q, E),
         NEW S, IsFiniteSet(S), S \subseteq D, S \subseteq E,
         \A a \in S : r[a].petaops = q[a].petaops
  PROVE  g[S] = h[S]
<1> DEFINE Apart == {n \in Nat : \E s \in SUBSET S :
                       Cardinality(s) = n /\ g[s] # h[s]}
<1>1. \A s \in SUBSET S : IsFiniteSet(s) /\ Cardinality(s) \in Nat
  BY FS_Subset, FS_CardinalityType
<1>2. Apart = {}
  <2> SUFFICES ASSUME Apart # {}
               PROVE  FALSE
    OBVIOUS
  <2>1. PICK n \in Apart : \A m \in Apart : n <= m
    <3>1. Apart \in SUBSET Nat
      OBVIOUS
    <3> HIDE DEF Apart
    <3> QED
      BY <3>1, LeastNatural
  <2>2. PICK s \in SUBSET S : Cardinality(s) = n /\ g[s] # h[s]
    OBVIOUS
  <2>3. g[s] = SumStep(g, r, s) /\ h[s] = SumStep(h, q, s)
    BY DEF Sums
  <2>4. s # {}
    BY <2>2, <2>3 DEF SumStep
  <2> PICK a : a = CHOOSE x \in s : TRUE
    OBVIOUS
  <2> PICK t : t = s \ {a}
    OBVIOUS
  <2>5. a \in s /\ t \in SUBSET S
    BY <2>4
  <2>6. n \in Nat /\ n - 1 \in Nat /\ Cardinality(t) = n - 1
    BY <1>1, <2>2, <2>5, Smaller
  <2>7. g[t] = h[t]
    <3>1. n - 1 \notin Apart
      <4> HIDE DEF Apart
      <4> QED
        BY <2>1, <2>6
    <3> QED
      BY <2>5, <2>6, <3>1
  <2>8. r[a].petaops = q[a].petaops
    BY <2>5
  <2> QED
    BY <2>2, <2>3, <2>4, <2>7, <2>8 DEF SumStep
<1> QED
  BY <1>1, <1>2

(* What is summed are numbers.                                             *)
Counted(r, D) == \A a \in D : r[a].petaops \in Int

NumericSums(g, r, D) == g \in [SUBSET D -> Int] /\ Sums(g, r, D)

(* Petaops(r, D) is the value at D of sums for the sets of D.              *)
LEMMA PetaopsIsSum ==
  ASSUME NEW r, NEW D, IsFiniteSet(D), Counted(r, D)
  PROVE  \E g : NumericSums(g, r, D) /\ Petaops(r, D) = g[D]
<1> DEFINE F(g) == g = [s \in SUBSET D |-> SumStep(g, r, s)]
           fold == CHOOSE g : F(g)
<1>1. ASSUME NEW g, F(g)
      PROVE  Sums(g, r, D)
  <2> PICK k : k = [s \in SUBSET D |-> SumStep(g, r, s)]
    OBVIOUS
  <2>1. \A s \in SUBSET D : k[s] = SumStep(g, r, s)
    OBVIOUS
  <2>2. g = k
    BY <1>1
  <2> QED
    BY <2>1, <2>2 DEF Sums
<1>2. PICK h \in [SUBSET D -> Int] : F(h)
  <2>1. \E g : F(g) /\ g \in [SUBSET D -> Int]
    BY SumsExist, Zenon DEF Counted
  <2> QED
    BY <2>1, Zenon
<1>3. F(fold)
  BY <1>2, Zenon
<1>4. Petaops(r, D) = fold[D]
  BY Zenon DEF Petaops
<1>5. Sums(h, r, D)
  <2> HIDE DEF F
  <2> QED
    BY <1>1, <1>2
<1>6. Sums(fold, r, D)
  <2> HIDE DEF F, fold
  <2> QED
    BY <1>1, <1>3
<1> HIDE DEF fold, F
<1>7. D \subseteq D /\ \A a \in D : r[a].petaops = r[a].petaops
  OBVIOUS
<1>8. fold[D] = h[D]
  BY <1>5, <1>6, <1>7, SumsAgree
<1> QED
  BY <1>2, <1>4, <1>5, <1>8 DEF NumericSums

(* Whichever element is taken first, the sum is the same: a least set for  *)
(* which it mattered would be, without either element, a smaller one.      *)
LEMMA AnyFirst ==
  ASSUME NEW r, NEW D, IsFiniteSet(D), Counted(r, D),
         NEW g, NumericSums(g, r, D), NEW x \in D
  PROVE  g[D] = r[x].petaops + g[D \ {x}]
<1> DEFINE Wrong(s) == \E y \in s : g[s] # r[y].petaops + g[s \ {y}]
           Bad == {n \in Nat : \E s \in SUBSET D :
                     Cardinality(s) = n /\ Wrong(s)}
<1>1. \A s \in SUBSET D : IsFiniteSet(s) /\ Cardinality(s) \in Nat
  BY FS_Subset, FS_CardinalityType
<1>2. Bad = {}
  <2> SUFFICES ASSUME Bad # {}
               PROVE  FALSE
    OBVIOUS
  <2>1. PICK n \in Bad : \A m \in Bad : n <= m
    <3>1. Bad \in SUBSET Nat
      OBVIOUS
    <3> HIDE DEF Bad
    <3> QED
      BY <3>1, LeastNatural
  <2>2. PICK s \in SUBSET D : Cardinality(s) = n /\ Wrong(s)
    OBVIOUS
  <2>3. PICK y \in s : g[s] # r[y].petaops + g[s \ {y}]
    BY <2>2
  <2> PICK a : a = CHOOSE z \in s : TRUE
    OBVIOUS
  <2>4. a \in s /\ s # {}
    OBVIOUS
  <2>5. g[s] = r[a].petaops + g[s \ {a}]
    BY <2>4 DEF NumericSums, Sums, SumStep
  <2>6. a # y
    BY <2>3, <2>5
  <2>7. ASSUME NEW u \in s, NEW v \in s, u # v
        PROVE  g[s \ {u}] = r[v].petaops + g[s \ {u, v}]
    <3> PICK t : t = s \ {u}
      OBVIOUS
    <3>1. t \in SUBSET D /\ v \in t
      BY <2>7
    <3>2. n \in Nat /\ n - 1 \in Nat /\ Cardinality(t) = n - 1
      BY <1>1, <2>2, Smaller
    <3>3. n - 1 \notin Bad
      <4> HIDE DEF Bad
      <4> QED
        BY <2>1, <3>2
    <3>4. ~ Wrong(t)
      BY <3>1, <3>2, <3>3
    <3>5. g[t] = r[v].petaops + g[t \ {v}]
      BY <3>1, <3>4
    <3>6. t \ {v} = s \ {u, v}
      OBVIOUS
    <3> QED
      BY <3>5, <3>6
  <2>8. g[s \ {a}] = r[y].petaops + g[s \ {a, y}]
    BY <2>4, <2>6, <2>7
  <2>9. g[s \ {y}] = r[a].petaops + g[s \ {a, y}]
    <3>1. g[s \ {y}] = r[a].petaops + g[s \ {y, a}]
      BY <2>4, <2>6, <2>7
    <3>2. s \ {y, a} = s \ {a, y}
      OBVIOUS
    <3> QED
      BY <3>1, <3>2
  <2>10. /\ r[a].petaops \in Int /\ r[y].petaops \in Int
         /\ g[s \ {a, y}] \in Int
    <3>1. s \ {a, y} \in SUBSET D
      OBVIOUS
    <3> QED
      BY <2>4, <3>1 DEF Counted, NumericSums
  <2> QED
    BY <2>3, <2>5, <2>8, <2>9, <2>10
<1>3. Cardinality(D) \notin Bad /\ Cardinality(D) \in Nat
  BY <1>1, <1>2
<1>4. ~ Wrong(D)
  BY <1>3
<1> QED
  BY <1>4

(* No applications have no petaops.                                        *)
LEMMA PetaopsOfNone ==
  ASSUME NEW r
  PROVE  Petaops(r, {}) = 0
<1>1. IsFiniteSet({}) /\ Counted(r, {})
  BY FS_EmptySet DEF Counted
<1>2. PICK g : NumericSums(g, r, {}) /\ Petaops(r, {}) = g[{}]
  BY <1>1, PetaopsIsSum
<1> QED
  BY <1>2 DEF NumericSums, Sums, SumStep

(* The petaops of a set are those of one of it and of the others.          *)
LEMMA PetaopsOfOneMore ==
  ASSUME NEW r, NEW D, IsFiniteSet(D), Counted(r, D), NEW x \in D
  PROVE  Petaops(r, D) = r[x].petaops + Petaops(r, D \ {x})
<1> PICK E : E = D \ {x}
  OBVIOUS
<1>1. /\ IsFiniteSet(E) /\ E \subseteq D /\ E \subseteq E
      /\ \A a \in E : r[a].petaops = r[a].petaops
  BY FS_Subset
<1>2. Counted(r, E)
  BY DEF Counted
<1>3. PICK g : NumericSums(g, r, D) /\ Petaops(r, D) = g[D]
  BY PetaopsIsSum
<1>4. PICK h : NumericSums(h, r, E) /\ Petaops(r, E) = h[E]
  BY <1>1, <1>2, PetaopsIsSum
<1>5. Sums(g, r, D) /\ Sums(h, r, E)
  BY <1>3, <1>4 DEF NumericSums
<1>6. g[E] = h[E]
  BY <1>1, <1>5, SumsAgree
<1>7. g[D] = r[x].petaops + g[D \ {x}]
  BY <1>3, AnyFirst
<1> QED
  BY <1>3, <1>4, <1>6, <1>7

(* Maps that agree on the petaops of a set have the same sum.              *)
LEMMA PetaopsAgree ==
  ASSUME NEW r, NEW q, NEW D, IsFiniteSet(D), Counted(r, D),
         \A a \in D : r[a].petaops = q[a].petaops
  PROVE  Petaops(r, D) = Petaops(q, D)
<1>1. Counted(q, D)
  BY DEF Counted
<1>2. PICK g : NumericSums(g, r, D) /\ Petaops(r, D) = g[D]
  BY PetaopsIsSum
<1>3. PICK h : NumericSums(h, q, D) /\ Petaops(q, D) = h[D]
  BY <1>1, PetaopsIsSum
<1>4. Sums(g, r, D) /\ Sums(h, q, D) /\ D \subseteq D
  BY <1>2, <1>3 DEF NumericSums
<1>5. g[D] = h[D]
  BY <1>4, SumsAgree
<1> QED
  BY <1>2, <1>3, <1>5

(* The sum is a number.                                                    *)
LEMMA PetaopsNumber ==
  ASSUME NEW r, NEW D, IsFiniteSet(D), Counted(r, D)
  PROVE  Petaops(r, D) \in Int
<1>1. PICK g : NumericSums(g, r, D) /\ Petaops(r, D) = g[D]
  BY PetaopsIsSum
<1>2. g[D] \in Int
  BY <1>1 DEF NumericSums
<1> QED
  BY <1>1, <1>2

-----------------------------------------------------------------------------
(* Compute.                                                                *)

(* The applications that hold compute in a cluster.                        *)
Live(c) == {a \in DOMAIN reservations : Held(a) /\ reservations[a].cluster = c}

(* The ledger by the sums above; what is held is held in a cluster there   *)
(* is, and by finitely many applications.                                  *)
ComputeInv ==
  /\ IsFiniteSet(DOMAIN reservations)
  /\ \A a \in DOMAIN reservations :
       Held(a) => reservations[a].cluster \in DOMAIN clusters
  /\ \A c \in DOMAIN clusters :
       /\ clusters[c].allocated =
            clusters[c].given + Petaops(reservations, Live(c))
       /\ Live(c) # {} => clusters[c].allocated <= clusters[c].total

LEMMA ComputeBySums == ComputeInv => ComputeLedger
<1> SUFFICES ASSUME ComputeInv, NEW c \in DOMAIN clusters
             PROVE  /\ clusters[c].allocated =
                         clusters[c].given
                           + MapThenSumSet(LAMBDA a : reservations[a].petaops,
                                           Live(c))
                    /\ Live(c) # {} =>
                         clusters[c].allocated <= clusters[c].total
  BY Zenon DEF ComputeLedger, Live
<1>1. MapThenSumSet(LAMBDA a : reservations[a].petaops, Live(c))
        = Petaops(reservations, Live(c))
  BY SumOfPetaops, Zenon
<1> QED
  BY <1>1, Zenon DEF ComputeInv

(* A cluster added has allocated what it is given, and nobody holds any of *)
(* it.                                                                     *)
LEMMA ComputeAdded ==
  ASSUME TypeOK, ComputeInv, NEW c, NEW n \in Amounts, NEW g \in GivenAmounts,
         AddCluster(c, n, g)
  PROVE  ComputeInv'
<1>1. /\ c \notin DOMAIN clusters
      /\ clusters' = Put(clusters, c, [total |-> n, allocated |-> g,
                                      given |-> g])
      /\ reservations' = reservations
  BY DEF AddCluster
<1>2. Live(c) = {} /\ Petaops(reservations, {}) = 0
  BY <1>1, PetaopsOfNone DEF ComputeInv, Live
<1>3. \A d : Live(d)' = Live(d)
  BY <1>1 DEF Live, Held
<1>4. ASSUME NEW d \in DOMAIN clusters'
      PROVE  /\ clusters'[d].allocated =
                  clusters'[d].given + Petaops(reservations, Live(d))
             /\ Live(d) # {} => clusters'[d].allocated <= clusters'[d].total
  <2>1. CASE d = c
    <3>1. clusters'[d].allocated = g /\ clusters'[d].given = g
      BY <1>1, <2>1 DEF Put
    <3>2. g = g + 0
      BY ConstantsOK
    <3> QED
      BY <1>2, <2>1, <3>1, <3>2
  <2>2. CASE d # c
    <3>1. d \in DOMAIN clusters /\ clusters'[d] = clusters[d]
      BY <1>1, <2>2 DEF Put
    <3> QED
      BY <3>1 DEF ComputeInv
  <2> QED
    BY <2>1, <2>2
<1>5. DOMAIN clusters' = DOMAIN clusters \cup {c}
  BY <1>1 DEF Put
<1>6. \A a \in DOMAIN reservations' :
        Held(a)' => reservations'[a].cluster \in DOMAIN clusters'
  BY <1>1, <1>5 DEF ComputeInv, Held
<1>7. IsFiniteSet(DOMAIN reservations')
  BY <1>1 DEF ComputeInv
<1> QED
  BY <1>1, <1>3, <1>4, <1>6, <1>7 DEF ComputeInv

(* What is summed are numbers, for the applications of any cluster.        *)
LEMMA LiveCounted ==
  ASSUME TypeOK, ComputeInv, NEW c
  PROVE  IsFiniteSet(Live(c)) /\ Counted(reservations, Live(c))
<1>1. Live(c) \subseteq DOMAIN reservations
  BY DEF Live
<1>2. IsFiniteSet(Live(c))
  BY <1>1, FS_Subset DEF ComputeInv
<1>3. Counted(reservations, Live(c))
  BY <1>1 DEF Counted, TypeOK, IsMap, Reservations, Amounts
<1> QED
  BY <1>2, <1>3

(* Reserving adds an application to those of one cluster.                  *)
LEMMA ComputeReserved ==
  ASSUME TypeOK, ComputeInv, NEW a, NEW c, NEW n \in Amounts,
         ReserveCompute(a, c, n)
  PROVE  ComputeInv'
<1> PICK q : q = reservations'
  OBVIOUS
<1>1. /\ c \in DOMAIN clusters
      /\ clusters[c].total - clusters[c].allocated >= n
      /\ ~ Held(a)
      /\ clusters' = [clusters EXCEPT ![c].allocated = @ + n]
      /\ q = Put(reservations, a, [cluster |-> c, petaops |-> n,
                                   released |-> FALSE])
  BY DEF ReserveCompute, ComputeAvailable
<1>2. /\ clusters[c].total \in Int /\ clusters[c].allocated \in Int /\ n \in Int
      /\ clusters[c].given \in Int /\ Petaops(reservations, Live(c)) \in Int
  BY <1>1, LiveCounted, PetaopsNumber DEF TypeOK, IsMap, Clusters, Amounts
<1>3. /\ DOMAIN q = DOMAIN reservations \cup {a}
      /\ q[a].petaops = n /\ q[a].cluster = c /\ ~ q[a].released
      /\ \A b \in DOMAIN reservations : b # a => q[b] = reservations[b]
  BY <1>1 DEF Put
<1>4. a \notin Live(c)
  BY <1>1 DEF Live
<1>5. Live(c)' = Live(c) \cup {a}
  BY <1>1, <1>3 DEF Live, Held
<1>6. ASSUME NEW d, d # c
      PROVE  Live(d)' = Live(d)
  BY <1>1, <1>3, <1>6 DEF Live, Held
<1>7. ASSUME NEW d
      PROVE  Petaops(q, Live(d)) = Petaops(reservations, Live(d))
  <2> PICK D, r : D = Live(d) /\ r = reservations
    OBVIOUS
  <2>1. a \notin D /\ D \subseteq DOMAIN reservations
    BY <1>1 DEF Live
  <2>2. IsFiniteSet(D) /\ Counted(r, D)
    BY LiveCounted
  <2>3. \A b \in D : r[b].petaops = q[b].petaops
    BY <1>3, <2>1
  <2>4. Petaops(r, D) = Petaops(q, D)
    BY <2>2, <2>3, PetaopsAgree
  <2> QED
    BY <2>4
<1>8. Petaops(q, Live(c)') = n + Petaops(reservations, Live(c))
  <2> PICK D, E : D = Live(c) /\ E = Live(c)'
    OBVIOUS
  <2>0. E = D \cup {a}
    BY <1>5
  <2>1. IsFiniteSet(D) /\ Counted(reservations, D)
    BY LiveCounted
  <2>2. IsFiniteSet(E) /\ a \in E
    BY <2>0, <2>1, FS_AddElement
  <2>3. Counted(q, E)
    BY <1>2, <1>3, <2>0, <2>1 DEF Live, Counted
  <2>4. Petaops(q, E) = q[a].petaops + Petaops(q, E \ {a})
    BY <2>2, <2>3, PetaopsOfOneMore
  <2>5. E \ {a} = D
    BY <1>4, <2>0
  <2> QED
    BY <1>3, <1>7, <2>4, <2>5
<1>9. ASSUME NEW d \in DOMAIN clusters'
      PROVE  /\ clusters'[d].allocated =
                  clusters'[d].given + Petaops(q, Live(d)')
             /\ Live(d)' # {} => clusters'[d].allocated <= clusters'[d].total
  <2>1. d \in DOMAIN clusters
    BY <1>1, <1>9
  <2>2. CASE d = c
    <3>1. /\ clusters'[d].allocated = clusters[c].allocated + n
          /\ clusters'[d].total = clusters[c].total
          /\ clusters'[d].given = clusters[c].given
      BY <1>1, <2>2 DEF TypeOK, IsMap, Clusters
    <3>2. clusters[c].allocated =
            clusters[c].given + Petaops(reservations, Live(c))
      BY <1>1 DEF ComputeInv
    <3> QED
      BY <1>1, <1>2, <1>8, <2>2, <3>1, <3>2
  <2>3. CASE d # c
    <3>1. clusters'[d] = clusters[d]
      BY <1>1, <2>1, <2>3
    <3> QED
      BY <1>6, <1>7, <2>1, <2>3, <3>1 DEF ComputeInv
  <2> QED
    BY <2>2, <2>3
<1>10. IsFiniteSet(DOMAIN q)
  BY <1>3, FS_AddElement DEF ComputeInv
<1>11. \A b \in DOMAIN q :
         Held(b)' => q[b].cluster \in DOMAIN clusters'
  BY <1>1, <1>3 DEF ComputeInv, Held
<1> QED
  BY <1>9, <1>10, <1>11 DEF ComputeInv

(* Releasing takes it out again, once.                                     *)
LEMMA ComputeReleased ==
  ASSUME TypeOK, ComputeInv, NEW a, ReleaseCompute(a)
  PROVE  ComputeInv'
<1> PICK q : q = reservations'
  OBVIOUS
<1> PICK c, n : c = reservations[a].cluster /\ n = reservations[a].petaops
  OBVIOUS
<1>1. /\ a \in DOMAIN reservations
      /\ Held(a)
      /\ clusters' = [clusters EXCEPT ![c].allocated = @ - n]
      /\ q = [reservations EXCEPT ![a].released = TRUE]
  BY DEF ReleaseCompute, Held
<1>2. c \in DOMAIN clusters /\ a \in Live(c)
  BY <1>1 DEF ComputeInv, Live
<1>3. /\ clusters[c].total \in Int /\ clusters[c].allocated \in Int
      /\ clusters[c].given \in Int /\ n \in Int /\ n > 0
  BY <1>1, <1>2 DEF TypeOK, IsMap, Clusters, Reservations, Amounts
<1>4. /\ DOMAIN q = DOMAIN reservations
      /\ q[a].released
      /\ \A b \in DOMAIN reservations :
           /\ b # a => q[b] = reservations[b]
           /\ q[b].petaops = reservations[b].petaops
           /\ q[b].cluster = reservations[b].cluster
  BY <1>1 DEF TypeOK, IsMap, Reservations
<1>5. Live(c)' = Live(c) \ {a}
  BY <1>1, <1>4 DEF Live, Held
<1>6. ASSUME NEW d, d # c
      PROVE  Live(d)' = Live(d)
  BY <1>1, <1>4, <1>6 DEF Live, Held
<1>7. ASSUME NEW d, NEW D \in SUBSET Live(d)
      PROVE  Petaops(q, D) = Petaops(reservations, D)
  <2> PICK r : r = reservations
    OBVIOUS
  <2>1. IsFiniteSet(D) /\ Counted(r, D)
    BY LiveCounted, FS_Subset DEF Counted
  <2>2. \A b \in D : r[b].petaops = q[b].petaops
    BY <1>4 DEF Live
  <2>3. Petaops(r, D) = Petaops(q, D)
    BY <2>1, <2>2, PetaopsAgree
  <2> QED
    BY <2>3
<1>8. Petaops(reservations, Live(c)) = n + Petaops(q, Live(c)')
  <2> PICK D, E, r : D = Live(c) /\ E = Live(c)' /\ r = reservations
    OBVIOUS
  <2>0. E = D \ {a}
    BY <1>5
  <2>1. IsFiniteSet(D) /\ a \in D /\ Counted(r, D)
    BY <1>2, LiveCounted
  <2>2. Petaops(r, D) = r[a].petaops + Petaops(r, E)
    BY <2>0, <2>1, PetaopsOfOneMore
  <2>3. Petaops(q, E) = Petaops(r, E)
    BY <1>7, <2>0
  <2> QED
    BY <2>2, <2>3
<1>9. Petaops(q, Live(c)') \in Int
  <2> PICK E : E = Live(c)'
    OBVIOUS
  <2>1. IsFiniteSet(E)
    BY <1>5, LiveCounted, FS_Subset
  <2>2. Counted(q, E)
    BY <1>4, <1>5, LiveCounted DEF Live, Counted
  <2>3. Petaops(q, E) \in Int
    BY <2>1, <2>2, PetaopsNumber
  <2> QED
    BY <2>3
<1>10. ASSUME NEW d \in DOMAIN clusters'
       PROVE  /\ clusters'[d].allocated =
                   clusters'[d].given + Petaops(q, Live(d)')
              /\ Live(d)' # {} => clusters'[d].allocated <= clusters'[d].total
  <2>1. d \in DOMAIN clusters
    BY <1>1, <1>10
  <2>2. CASE d = c
    <3>1. /\ clusters'[d].allocated = clusters[c].allocated - n
          /\ clusters'[d].total = clusters[c].total
          /\ clusters'[d].given = clusters[c].given
      BY <1>1, <1>2, <2>2 DEF TypeOK, IsMap, Clusters
    <3>2. /\ clusters[c].allocated =
               clusters[c].given + Petaops(reservations, Live(c))
          /\ clusters[c].allocated <= clusters[c].total
      BY <1>2 DEF ComputeInv
    <3> QED
      BY <1>3, <1>8, <1>9, <2>2, <3>1, <3>2
  <2>3. CASE d # c
    <3>1. clusters'[d] = clusters[d]
      BY <1>1, <2>1, <2>3
    <3>2. Petaops(q, Live(d)) = Petaops(reservations, Live(d))
      BY <1>7
    <3> QED
      BY <1>6, <2>1, <2>3, <3>1, <3>2 DEF ComputeInv
  <2> QED
    BY <2>2, <2>3
<1>11. IsFiniteSet(DOMAIN q)
  BY <1>4 DEF ComputeInv
<1>12. \A b \in DOMAIN q : Held(b)' => q[b].cluster \in DOMAIN clusters'
  BY <1>1, <1>4 DEF ComputeInv, Held
<1> QED
  BY <1>10, <1>11, <1>12 DEF ComputeInv

LEMMA ComputeStep == TypeOK /\ ComputeInv /\ [Next]_vars => ComputeInv'
<1> SUFFICES ASSUME TypeOK, ComputeInv, [Next]_vars
             PROVE  ComputeInv'
  OBVIOUS
<1>1. CASE UNCHANGED <<clusters, reservations>>
  <2>1. \A c : Live(c)' = Live(c)
    BY <1>1 DEF Live, Held
  <2>2. \A a : Held(a)' = Held(a)
    BY <1>1 DEF Held
  <2> QED
    BY <1>1, <2>1, <2>2 DEF ComputeInv
<1>2. ASSUME \/ \E r \in RouteIds, t \in Tenants, k \in Countries,
                   n \in Amounts, g \in GivenAmounts, active \in BOOLEAN :
                  AddRoute(r, t, k, n, g, active)
             \/ \E o \in OfferIds, ks \in SUBSET Countries, n \in Amounts,
                   g \in GivenAmounts, from, to \in 0 .. MaxTime :
                  AddOffer(o, ks, n, g, from, to)
             \/ \E c \in CommunityIds, n \in Amounts, ms \in GivenMembers :
                  AddCommunity(c, n, ms)
             \/ \E a \in AppIds, t \in Tenants, k \in Countries,
                   r \in GivenRoutes, o \in GivenOffers :
                  SubmitApplication(a, t, k, r, o)
             \/ \E a \in AppIds : ApproveApplication(a)
             \/ \E a \in AppIds, r \in RouteIds, n \in Amounts :
                  AssignRoute(a, r, n)
             \/ \E a \in AppIds, o \in OfferIds, at \in 0 .. MaxTime :
                  ApplyOffer(a, o, at)
             \/ \E a \in AppIds : ResubmitApplication(a)
             \/ \E a \in AppIds : CloseApplication(a)
             \/ \E a \in AppIds, to \in AppStatuses : WriteStatus(a, to)
             \/ \E s \in SceneIds, a \in AppIds, t \in Tenants :
                  PublishScene(s, a, t)
             \/ \E s \in SceneIds : ApproveScene(s)
             \/ \E c \in CommunityIds, m \in MemberIds : EnrollOPC(c, m)
             \/ UNCHANGED vars
      PROVE  UNCHANGED <<clusters, reservations>>
  BY <1>2 DEF AddRoute, AddOffer, AddCommunity, SubmitApplication,
              ApproveApplication, AssignRoute, ApplyOffer, ResubmitApplication,
              CloseApplication, WriteStatus, PublishScene, ApproveScene,
              EnrollOPC, vars
<1> QED
  BY <1>1, <1>2, ComputeAdded, ComputeReserved, ComputeReleased DEF Next

(* Compute in use in a cluster is what it was added with and what the live *)
(* reservations ask for, and of no overcommitted cluster is any reserved,  *)
(* for any applications, clusters and amounts (ReserveCompute,             *)
(* ReleaseCompute; internal/hub/ai_service.go).                            *)
THEOREM ComputeIsHeldByReservations == Spec => []ComputeLedger
<1>1. Init => ComputeInv
  BY FS_EmptySet DEF Init, ComputeInv, Empty
<1> QED
  BY <1>1, ComputeStep, ComputeBySums, HubTypes, PTL DEF Spec
=============================================================================
