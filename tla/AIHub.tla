------------------------------- MODULE AIHub -------------------------------
(***************************************************************************)
(* The workflow of AI projects in internal/hub (AIServices over            *)
(* AIRegistry): applications reserve compute in clusters, hold capacity on *)
(* cross-border routes and in service offers, publish scenes, and members  *)
(* take seats in communities.  Every method does its work under the        *)
(* registry's mutex and is one action.  Versions and times that nothing    *)
(* reads are left out; a country is its normalised form, an amount an      *)
(* integer of any size.                                                    *)
(***************************************************************************)
EXTENDS Integers, Sequences, FiniteSets, FiniteSetsExt

CONSTANTS
  AppIds, ClusterIds, RouteIds, OfferIds, SceneIds, CommunityIds, MemberIds,
  Tenants, Countries,
  NoRoute, NoOffer,   (* the empty RouteID and ServiceOfferID              *)
  GivenRoutes,        (* the RouteIDs and ServiceOfferIDs callers submit   *)
  GivenOffers,        (*   an application with                             *)
  GivenAmounts,       (* the amounts in use callers add a resource with    *)
  GivenMembers,       (* the MemberIDs callers add a community with        *)
  Capacity,           (* bound: capacities and amounts asked for           *)
  MaxTime,            (* bound: instants                                   *)
  MaxAttempt          (* bound: submissions of an application              *)

ASSUME ConstantsOK ==
  /\ Capacity \in Nat \ {0}
  /\ MaxTime \in Nat
  /\ MaxAttempt \in Nat \ {0}
  /\ NoRoute \notin RouteIds
  /\ NoOffer \notin OfferIds
  /\ GivenRoutes \subseteq RouteIds \cup {NoRoute}
  /\ GivenOffers \subseteq OfferIds \cup {NoOffer}
  /\ GivenAmounts \subseteq Int
  /\ GivenMembers \subseteq Seq(MemberIds)

AppStatuses ==
  {"pending", "approved", "active", "returned", "closed", "cancelled"}

(* Seeded fault: an approval may be given twice.                           *)
ValidApplicationTransitionTwice(from, to) ==
  \/ from = "pending" /\ to \in {"approved", "returned", "cancelled"}
  \/ from = "returned" /\ to \in {"pending", "cancelled"}
  \/ from = "approved" /\ to \in {"approved", "active", "cancelled"}
  \/ from = "active" /\ to = "closed"

ValidApplicationTransition(from, to) ==
  \/ from = "pending" /\ to \in {"approved", "returned", "cancelled"}
  \/ from = "returned" /\ to \in {"pending", "cancelled"}
  \/ from = "approved" /\ to \in {"active", "cancelled"}
  \/ from = "active" /\ to = "closed"

Amounts == 1 .. Capacity

Applications ==
  [tenant : Tenants, country : Countries, status : AppStatuses,
   route : RouteIds \cup {NoRoute}, offer : OfferIds \cup {NoOffer},
   attempt : 1 .. MaxAttempt]

(* given is history: what was in use of a resource when it was added, for  *)
(* a community how many members it came with.                              *)
Clusters == [total : Amounts, allocated : Int, given : Int]
Reservations == [cluster : ClusterIds, petaops : Amounts, released : BOOLEAN]
Routes == [tenant : Tenants, country : Countries, capacity : Amounts,
           allocated : Int, given : Int, active : BOOLEAN]
Offers == [countries : SUBSET Countries, capacity : Amounts, used : Int,
           given : Int, from : 0 .. MaxTime, to : 0 .. MaxTime]
Scenes == [tenant : Tenants, application : AppIds,
           status : {"submitted", "approved"}]
Communities == [capacity : Amounts, members : Seq(MemberIds), given : Nat]
Uses == [app : AppIds, offer : OfferIds, at : 0 .. MaxTime]
Events == [entity : AppIds, action : {"submitted", "approved"}]

(* The maps of AIRegistry: functions from the ids present.                 *)
VARIABLES applications, clusters, reservations, routes, offers, scenes,
          communities, events,
          assigned,  (* history: the routes applications were assigned     *)
          applied    (* history: the offers they applied for, and when     *)

vars == <<applications, clusters, reservations, routes, offers, scenes,
          communities, events, assigned, applied>>

Empty == [id \in {} |-> 0]

Put(map, id, value) ==
  [k \in DOMAIN map \cup {id} |-> IF k = id THEN value ELSE map[k]]

Init ==
  /\ applications = Empty
  /\ clusters = Empty
  /\ reservations = Empty
  /\ routes = Empty
  /\ offers = Empty
  /\ scenes = Empty
  /\ communities = Empty
  /\ events = <<>>
  /\ assigned = {}
  /\ applied = {}

App(a) == applications[a]

-----------------------------------------------------------------------------
(* AIRegistry: a resource is kept as it is given.  Its capacity is         *)
(* checked, what is in use of it already is not.                           *)

AddCluster(c, total, allocated) ==
  /\ c \notin DOMAIN clusters
  /\ clusters' = Put(clusters, c, [total |-> total, allocated |-> allocated,
                                  given |-> allocated])
  /\ UNCHANGED <<applications, reservations, routes, offers, scenes,
                 communities, events, assigned, applied>>

AddRoute(r, tenant, country, capacity, allocated, active) ==
  /\ r \notin DOMAIN routes
  /\ routes' = Put(routes, r,
                   [tenant |-> tenant, country |-> country,
                    capacity |-> capacity, allocated |-> allocated,
                    given |-> allocated, active |-> active])
  /\ UNCHANGED <<applications, clusters, reservations, offers, scenes,
                 communities, events, assigned, applied>>

AddOffer(o, countries, capacity, used, from, to) ==
  /\ o \notin DOMAIN offers
  /\ from < to
  /\ offers' = Put(offers, o,
                   [countries |-> countries, capacity |-> capacity,
                    used |-> used, given |-> used, from |-> from, to |-> to])
  /\ UNCHANGED <<applications, clusters, reservations, routes, scenes,
                 communities, events, assigned, applied>>

AddCommunity(c, capacity, members) ==
  /\ c \notin DOMAIN communities
  /\ communities' = Put(communities, c,
                        [capacity |-> capacity, members |-> members,
                         given |-> Len(members)])
  /\ UNCHANGED <<applications, clusters, reservations, routes, offers,
                 scenes, events, assigned, applied>>

-----------------------------------------------------------------------------
(* Applications.                                                           *)

(* Seeded fault: the caller's Attempt, zero, is kept.                      *)
SubmitApplicationKeepsAttempt(a, tenant, country, route, offer) ==
  /\ a \notin DOMAIN applications
  /\ applications' =
       Put(applications, a,
           [tenant |-> tenant, country |-> country, status |-> "pending",
            route |-> route, offer |-> offer, attempt |-> 0])
  /\ events' = Append(events, [entity |-> a, action |-> "submitted"])
  /\ UNCHANGED <<clusters, reservations, routes, offers, scenes, communities,
                 assigned, applied>>

(* The caller's Status and Attempt are overwritten; its RouteID and its    *)
(* ServiceOfferID are kept, whatever they name.                            *)
SubmitApplication(a, tenant, country, route, offer) ==
  /\ a \notin DOMAIN applications
  /\ applications' =
       Put(applications, a,
           [tenant |-> tenant, country |-> country, status |-> "pending",
            route |-> route, offer |-> offer, attempt |-> 1])
  /\ events' = Append(events, [entity |-> a, action |-> "submitted"])
  /\ UNCHANGED <<clusters, reservations, routes, offers, scenes, communities,
                 assigned, applied>>

Held(a) == a \in DOMAIN reservations /\ ~ reservations[a].released

ComputeAvailable(cluster, petaops) ==
  cluster.total - cluster.allocated >= petaops

(* A second request of an application that holds compute changes nothing.  *)
ReserveCompute(a, c, petaops) ==
  /\ a \in DOMAIN applications
  /\ c \in DOMAIN clusters
  /\ App(a).status \in {"pending", "returned"}
  /\ ComputeAvailable(clusters[c], petaops)
  /\ ~ Held(a)
  /\ clusters' = [clusters EXCEPT ![c].allocated = @ + petaops]
  /\ reservations' = Put(reservations, a,
                         [cluster |-> c, petaops |-> petaops,
                          released |-> FALSE])
  /\ UNCHANGED <<applications, routes, offers, scenes, communities, events,
                 assigned, applied>>

(* Seeded fault: a reservation may be released again and again.            *)
ReleaseComputeAgain(a) ==
  /\ a \in DOMAIN reservations
  /\ LET r == reservations[a] IN
       /\ clusters[r.cluster].allocated >= r.petaops
       /\ clusters' = [clusters EXCEPT ![r.cluster].allocated = @ - r.petaops]
  /\ reservations' = [reservations EXCEPT ![a].released = TRUE]
  /\ UNCHANGED <<applications, routes, offers, scenes, communities, events,
                 assigned, applied>>

(* In any status of the application.                                       *)
ReleaseCompute(a) ==
  /\ Held(a)
  /\ LET r == reservations[a] IN
       /\ clusters[r.cluster].allocated >= r.petaops
       /\ clusters' = [clusters EXCEPT ![r.cluster].allocated = @ - r.petaops]
  /\ reservations' = [reservations EXCEPT ![a].released = TRUE]
  /\ UNCHANGED <<applications, routes, offers, scenes, communities, events,
                 assigned, applied>>

(* Seeded fault: the application's route is not looked at.                 *)
CanApproveAnyRoute(a) ==
  /\ ValidApplicationTransition(App(a).status, "approved")
  /\ a \in DOMAIN reservations

CanApprove(a) ==
  /\ ValidApplicationTransition(App(a).status, "approved")
  /\ a \in DOMAIN reservations
  /\ App(a).route # NoRoute =>
       App(a).route \in DOMAIN routes /\ routes[App(a).route].active

ApproveApplication(a) ==
  /\ a \in DOMAIN applications
  /\ CanApprove(a)
  /\ applications' = [applications EXCEPT ![a].status = "approved"]
  /\ events' = Append(events, [entity |-> a, action |-> "approved"])
  /\ UNCHANGED <<clusters, reservations, routes, offers, scenes, communities,
                 assigned, applied>>

(* Seeded fault: a route is chosen for its capacity alone.                 *)
RouteAdmitsAnyone(route, app, mbps) ==
  route.active /\ route.capacity - route.allocated >= mbps

RouteAdmits(route, app, mbps) ==
  /\ route.tenant = app.tenant
  /\ route.country = app.country
  /\ route.active
  /\ route.capacity - route.allocated >= mbps

(* A route assigned earlier is replaced, and keeps what it allocated.      *)
AssignRoute(a, r, mbps) ==
  /\ a \in DOMAIN applications
  /\ r \in DOMAIN routes
  /\ RouteAdmits(routes[r], App(a), mbps)
  /\ routes' = [routes EXCEPT ![r].allocated = @ + mbps]
  /\ applications' = [applications EXCEPT ![a].route = r]
  /\ assigned' = assigned \cup {<<a, r>>}
  /\ UNCHANGED <<clusters, reservations, offers, scenes, communities, events,
                 applied>>

OfferOutsideWindow(offer, at) == at < offer.from \/ at > offer.to

(* Seeded fault: a full offer still admits one.                            *)
OfferAvailableOneOver(offer, country, at) ==
  /\ ~ OfferOutsideWindow(offer, at)
  /\ offer.used <= offer.capacity
  /\ country \in offer.countries

OfferAvailable(offer, country, at) ==
  /\ ~ OfferOutsideWindow(offer, at)
  /\ offer.used < offer.capacity
  /\ country \in offer.countries

(* Applied for again, the same offer is used again.                        *)
ApplyOffer(a, o, at) ==
  /\ a \in DOMAIN applications
  /\ o \in DOMAIN offers
  /\ OfferAvailable(offers[o], App(a).country, at)
  /\ offers' = [offers EXCEPT ![o].used = @ + 1]
  /\ applications' = [applications EXCEPT ![a].offer = o]
  /\ applied' = applied \cup {[app |-> a, offer |-> o, at |-> at]}
  /\ UNCHANGED <<clusters, reservations, routes, scenes, communities, events,
                 assigned>>

ResubmitApplication(a) ==
  /\ a \in DOMAIN applications
  /\ App(a).status = "returned"
  /\ App(a).attempt < MaxAttempt
  /\ applications' = [applications EXCEPT ![a].status = "pending",
                                          ![a].attempt = @ + 1]
  /\ UNCHANGED <<clusters, reservations, routes, offers, scenes, communities,
                 events, assigned, applied>>

CloseApplication(a) ==
  /\ a \in DOMAIN applications
  /\ ValidApplicationTransition(App(a).status, "closed")
  /\ applications' = [applications EXCEPT ![a].status = "closed"]
  /\ UNCHANGED <<clusters, reservations, routes, offers, scenes, communities,
                 events, assigned, applied>>

(* No method returns, activates or cancels an application: the tests write *)
(* those statuses into the registry.                                       *)
WriteStatus(a, to) ==
  /\ a \in DOMAIN applications
  /\ to \in {"returned", "active", "cancelled"}
  /\ ValidApplicationTransition(App(a).status, to)
  /\ applications' = [applications EXCEPT ![a].status = to]
  /\ UNCHANGED <<clusters, reservations, routes, offers, scenes, communities,
                 events, assigned, applied>>

-----------------------------------------------------------------------------
(* Scenes and communities.                                                 *)

PublishScene(s, a, tenant) ==
  /\ s \notin DOMAIN scenes
  /\ a \in DOMAIN applications
  /\ App(a).tenant = tenant
  /\ scenes' = Put(scenes, s, [tenant |-> tenant, application |-> a,
                               status |-> "submitted"])
  /\ UNCHANGED <<applications, clusters, reservations, routes, offers,
                 communities, events, assigned, applied>>

ApproveScene(s) ==
  /\ s \in DOMAIN scenes
  /\ scenes[s].status = "submitted"
  /\ scenes' = [scenes EXCEPT ![s].status = "approved"]
  /\ UNCHANGED <<applications, clusters, reservations, routes, offers,
                 communities, events, assigned, applied>>

Members(c) == {communities[c].members[i] : i \in DOMAIN communities[c].members}

(* Seeded fault: a member may enroll twice.                                *)
EnrollOPCTwice(c, m) ==
  /\ c \in DOMAIN communities
  /\ Len(communities[c].members) < communities[c].capacity
  /\ communities' = [communities EXCEPT ![c].members = Append(@, m)]
  /\ UNCHANGED <<applications, clusters, reservations, routes, offers,
                 scenes, events, assigned, applied>>

(* A member enrolled already keeps the seat it has.                        *)
EnrollOPC(c, m) ==
  /\ c \in DOMAIN communities
  /\ m \notin Members(c)
  /\ Len(communities[c].members) < communities[c].capacity
  /\ communities' = [communities EXCEPT ![c].members = Append(@, m)]
  /\ UNCHANGED <<applications, clusters, reservations, routes, offers,
                 scenes, events, assigned, applied>>

Next ==
  \/ \E c \in ClusterIds, n \in Amounts, g \in GivenAmounts : AddCluster(c, n, g)
  \/ \E r \in RouteIds, t \in Tenants, k \in Countries, n \in Amounts,
        g \in GivenAmounts, active \in BOOLEAN : AddRoute(r, t, k, n, g, active)
  \/ \E o \in OfferIds, ks \in SUBSET Countries, n \in Amounts,
        g \in GivenAmounts, from, to \in 0 .. MaxTime :
        AddOffer(o, ks, n, g, from, to)
  \/ \E c \in CommunityIds, n \in Amounts, ms \in GivenMembers :
        AddCommunity(c, n, ms)
  \/ \E a \in AppIds, t \in Tenants, k \in Countries, r \in GivenRoutes,
        o \in GivenOffers : SubmitApplication(a, t, k, r, o)
  \/ \E a \in AppIds, c \in ClusterIds, n \in Amounts : ReserveCompute(a, c, n)
  \/ \E a \in AppIds : ReleaseCompute(a)
  \/ \E a \in AppIds : ApproveApplication(a)
  \/ \E a \in AppIds, r \in RouteIds, n \in Amounts : AssignRoute(a, r, n)
  \/ \E a \in AppIds, o \in OfferIds, at \in 0 .. MaxTime : ApplyOffer(a, o, at)
  \/ \E a \in AppIds : ResubmitApplication(a)
  \/ \E a \in AppIds : CloseApplication(a)
  \/ \E a \in AppIds, to \in AppStatuses : WriteStatus(a, to)
  \/ \E s \in SceneIds, a \in AppIds, t \in Tenants : PublishScene(s, a, t)
  \/ \E s \in SceneIds : ApproveScene(s)
  \/ \E c \in CommunityIds, m \in MemberIds : EnrollOPC(c, m)

Spec == Init /\ [][Next]_vars

-----------------------------------------------------------------------------
(* Properties.                                                             *)

(* A map of the registry holds entries of one kind under ids of one kind.  *)
IsMap(map, ids, entries) ==
  /\ DOMAIN map \subseteq ids
  /\ \A id \in DOMAIN map : map[id] \in entries

(* Types of the variables.                                                 *)
TypeOK ==
  /\ IsMap(applications, AppIds, Applications)
  /\ IsMap(clusters, ClusterIds, Clusters)
  /\ IsMap(reservations, AppIds, Reservations)
  /\ IsMap(routes, RouteIds, Routes)
  /\ IsMap(offers, OfferIds, Offers)
  /\ IsMap(scenes, SceneIds, Scenes)
  /\ IsMap(communities, CommunityIds, Communities)
  /\ events \in Seq(Events)
  /\ assigned \subseteq AppIds \X RouteIds
  /\ applied \subseteq Uses

(* Compute in use in a cluster is what the cluster was added with and what *)
(* the live reservations ask for, no petaops lost or counted twice over    *)
(* reserving, releasing, moving to another cluster and every change of an  *)
(* application's status; and a cluster of which compute is reserved is not *)
(* overcommitted, whatever it was added with (ReserveCompute,              *)
(* ReleaseCompute).                                                        *)
ComputeLedger ==
  \A c \in DOMAIN clusters :
    LET live == {a \in DOMAIN reservations :
                   Held(a) /\ reservations[a].cluster = c}
    IN  /\ clusters[c].allocated =
             clusters[c].given
               + MapThenSumSet(LAMBDA a : reservations[a].petaops, live)
        /\ live # {} => clusters[c].allocated <= clusters[c].total

(* A route that was ever assigned does not carry more than its capacity,   *)
(* whatever it was added with; it has allocated at least a unit beyond     *)
(* that for every application it was assigned to, those that moved to      *)
(* another route included; and they are of its own tenant and country,     *)
(* whatever route they were submitted with (AssignRoute).                  *)
RouteLedger ==
  \A r \in DOMAIN routes :
    LET apps == {a \in DOMAIN applications : <<a, r>> \in assigned} IN
      /\ apps # {} => routes[r].allocated <= routes[r].capacity
      /\ routes[r].given + Cardinality(apps) <= routes[r].allocated
      /\ \A a \in apps : /\ App(a).tenant = routes[r].tenant
                         /\ App(a).country = routes[r].country

(* Whatever route an application was submitted with or assigned, once it   *)
(* is approved and while it runs, a route it names exists and is active    *)
(* (ApproveApplication).                                                   *)
ApprovedRouteServes ==
  \A a \in DOMAIN applications :
    App(a).status \in {"approved", "active", "closed"} /\ App(a).route # NoRoute
      => App(a).route \in DOMAIN routes /\ routes[App(a).route].active

(* The event log tells the life of an application in order and once: it    *)
(* was submitted before it was approved, and it was approved exactly if    *)
(* its status says so or comes after that (README.md:12).                  *)
ApprovalsAudited ==
  LET At(a, action) == {i \in DOMAIN events : /\ events[i].entity = a
                                             /\ events[i].action = action}
  IN  \A a \in DOMAIN applications :
        /\ Cardinality(At(a, "submitted")) = 1
        /\ Cardinality(At(a, "approved")) <= 1
        /\ \A i \in At(a, "submitted"), j \in At(a, "approved") : i < j
        /\ App(a).status \in {"approved", "active", "closed"}
             => At(a, "approved") # {}
        /\ App(a).status \in {"pending", "returned"}
             => At(a, "approved") = {}

(* An offer that was ever applied for is not used beyond its capacity,     *)
(* whatever it was added with; it has one use beyond that for every        *)
(* application and instant it was applied for, those that turned to        *)
(* another offer included; and each was in its window, ends included, by   *)
(* an application of a country it serves (ApplyOffer).                     *)
OfferLedger ==
  \A o \in DOMAIN offers :
    LET uses == {u \in applied : u.offer = o} IN
      /\ uses # {} => offers[o].used <= offers[o].capacity
      /\ offers[o].given + Cardinality(uses) <= offers[o].used
      /\ \A u \in uses : /\ App(u.app).country \in offers[o].countries
                         /\ offers[o].from <= u.at /\ u.at <= offers[o].to

(* Whatever members a community was added with, one twice or more of them  *)
(* than there are seats: those enrolled since are each new to it, and      *)
(* once anybody enrolled there are no more members than seats (EnrollOPC). *)
SeatsLedger ==
  \A c \in DOMAIN communities :
    LET members == communities[c].members
        given == communities[c].given
    IN  /\ \A i, j \in DOMAIN members :
             i < j /\ given < j => members[i] # members[j]
        /\ given < Len(members) => Len(members) <= communities[c].capacity
=============================================================================
