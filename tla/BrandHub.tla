------------------------------ MODULE BrandHub ------------------------------
(***************************************************************************)
(* The regional brand: licences, inspections, store catalogues, campaigns  *)
(* and recalls (Service over Registry in internal/hub).  A method reads    *)
(* and checks first, and saves under the registry's lock afterwards: two   *)
(* steps, with other callers and the clock in between.  What a check of    *)
(* one record does not tell apart is left out: a licence without open      *)
(* corrective actions whose last inspection passed is clean, a store that  *)
(* dines, sells and shows culture has the three models.                    *)
(***************************************************************************)
EXTENDS Integers, Sequences, FiniteSets, FiniteSetsExt, SequencesExt

CONSTANTS
  Clients,
  LicenseIds, InspectionIds, StoreIds, Cities, Skus,
  Terms,         (* the terms of the licences callers present              *)
  Profiles,      (* the store profiles callers present                     *)
  Reports,       (* the section lists of the inspections callers present   *)
  ListingLists,  (* the lists of listings callers present                  *)
  PassScore,     (* the score callers ask of an inspection                 *)
  Extensions,    (* the extensions callers ask for                         *)
  MaxExtension,  (* bound: the longest of them                             *)
  Window,        (* how long before its end a licence can be renewed       *)
  MaxTime,       (* bound: instants                                        *)
  MaxVersion     (* bound: versions of a licence or inspection             *)

None == [op |-> "none"]

TermsType == [store : StoreIds, owner : STRING, regions : SUBSET Cities,
              logo : Nat, from : Nat, to : Nat]

ProfileType == [id : StoreIds, owner : STRING, city : Cities,
                threeModels : BOOLEAN, approvedLogo : Nat,
                displayedLogo : Nat, brandName : BOOLEAN]

SectionType == [required : BOOLEAN, score : Int, evidence : BOOLEAN]

ListingType == [store : StoreIds, sku : Skus, traced : BOOLEAN,
                online : Int, price : Int, published : BOOLEAN]

ASSUME ConstantsOK ==
  /\ \A t \in Terms : t \in TermsType
  /\ \A p \in Profiles : p \in ProfileType
  /\ \A s \in Reports : s \in Seq(SectionType)
  /\ \A l \in ListingLists : l \in Seq(ListingType)
  /\ MaxExtension \in Int
  /\ \A e \in Extensions : e \in Int /\ e <= MaxExtension
  /\ PassScore \in Int
  /\ Window \in Nat
  /\ MaxTime \in Nat
  /\ MaxVersion \in Nat

VARIABLES
  now,
  licenses, inspections, catalogs,   (* the maps of the Registry           *)
  calls,      (* client -> what its call is about to save                  *)
  extended,   (* history: licence -> what renewals added since its grant   *)
  results,    (* history: inspection -> the answers to its completions     *)
  launched,   (* history: the listings campaigns were launched with        *)
  recalls,    (* client -> the copy of the recall it holds                 *)
  confirmed   (* history: the stores that acknowledged the recall          *)

registry == <<licenses, inspections, catalogs>>
history == <<extended, results, launched, confirmed>>
vars == <<now, registry, calls, history, recalls>>

Empty == [id \in {} |-> 0]

Put(map, id, value) ==
  [k \in DOMAIN map \cup {id} |-> IF k = id THEN value ELSE map[k]]

Idle(c) == calls[c] = None

(* The recall as it was issued, at the first instant, to every store.      *)
Issued == [acknowledged |-> <<>>, closed |-> FALSE]

Init ==
  /\ now = 0
  /\ licenses = Empty
  /\ inspections = Empty
  /\ catalogs = Empty
  /\ calls = [c \in Clients |-> None]
  /\ extended = Empty
  /\ results = Empty
  /\ launched = {}
  /\ recalls = [c \in Clients |-> Issued]
  /\ confirmed = {}

Tick ==
  /\ now < MaxTime
  /\ now' = now + 1
  /\ UNCHANGED <<registry, calls, history, recalls>>

-----------------------------------------------------------------------------
(* Checks of a licence and a store (license_policy.go).                    *)

ValidateLicenseAt(license, store, at) ==
  /\ license.terms.store = store.id
  /\ license.terms.owner = store.owner
  /\ license.status = "active"
  /\ license.terms.from <= at
  /\ at < license.to
  /\ store.city \in license.terms.regions

ValidateLogoVersion(license, store) ==
  /\ license.terms.logo > 0
  /\ store.approvedLogo = license.terms.logo
  /\ store.displayedLogo = store.approvedLogo

(* Seeded fault: the renewal window is not looked at.                      *)
CanRenewAnyTime(license, store) ==
  /\ license.status = "active"
  /\ license.terms.store = store.id
  /\ license.clean
  /\ store.threeModels

(* The window has no end: a licence that ran out can still be renewed.     *)
CanRenewLicense(license, store) ==
  /\ license.status = "active"
  /\ license.terms.store = store.id
  /\ license.clean
  /\ now >= license.to - Window
  /\ store.threeModels

-----------------------------------------------------------------------------
(* Licences.                                                               *)

Versions == 0 .. MaxVersion - 1

(* The licence as a caller presents it, with the version it expects.       *)
Presented(terms, clean, version) ==
  [terms |-> terms, to |-> terms.to, status |-> "active", clean |-> clean,
   version |-> version]

(* A call that comes to its save holds what it saves and the version it    *)
(* expects; `added` is what a renewal adds.                                *)
SaveCall(op, id, value, added) ==
  [op |-> op, id |-> id, value |-> value, added |-> added]

(* Whatever status the caller gave, the licence is checked and saved as    *)
(* active, with the caller's version expected.                             *)
ActivateLicense(c, id, license, store) ==
  /\ Idle(c)
  /\ store.threeModels
  /\ ValidateLogoVersion(license, store)
  /\ store.brandName
  /\ ValidateLicenseAt(license, store, now)
  /\ calls' = [calls EXCEPT ![c] = SaveCall("activate", id, license, 0)]
  /\ UNCHANGED <<now, registry, history, recalls>>

(* The registry's licence is read, checked and extended in a copy.         *)
RenewLicense(c, id, store, extension) ==
  /\ Idle(c)
  /\ id \in DOMAIN licenses
  /\ extension > 0
  /\ CanRenewLicense(licenses[id], store)
  /\ calls' = [calls EXCEPT ![c] =
                 SaveCall("renew", id,
                          [licenses[id] EXCEPT !.to = @ + extension],
                          extension)]
  /\ UNCHANGED <<now, registry, history, recalls>>

(* No method suspends a licence or notes its inspections: whoever does     *)
(* reads the licence and saves it with the version read.                   *)
AmendLicense(c, id, status, clean) ==
  /\ Idle(c)
  /\ id \in DOMAIN licenses
  /\ calls' = [calls EXCEPT ![c] =
                 SaveCall("amend", id,
                          [licenses[id] EXCEPT !.status = status,
                                               !.clean = clean], 0)]
  /\ UNCHANGED <<now, registry, history, recalls>>

(* An id nobody saved takes whatever version its caller expects.           *)
Expected(map, id, version) == id \in DOMAIN map => map[id].version = version

Added(map, call) ==
  IF call.op = "renew" THEN map[call.id] + call.added
  ELSE IF call.op = "amend" THEN map[call.id]
  ELSE 0

(* Seeded fault: the version is taken from what is stored.                 *)
SaveLicenseBlindly(c) ==
  LET call == calls[c]
      version == IF call.id \in DOMAIN licenses
                   THEN licenses[call.id].version ELSE call.value.version
  IN
  /\ call.op \in {"activate", "renew", "amend"}
  /\ version < MaxVersion
  /\ licenses' = Put(licenses, call.id,
                     [call.value EXCEPT !.version = version + 1])
  /\ extended' = Put(extended, call.id, Added(extended, call))
  /\ calls' = [calls EXCEPT ![c] = None]
  /\ UNCHANGED <<now, inspections, catalogs, results, launched, confirmed,
                 recalls>>

SaveLicense(c) ==
  LET call == calls[c] IN
  /\ call.op \in {"activate", "renew", "amend"}
  /\ Expected(licenses, call.id, call.value.version)
  /\ call.value.version < MaxVersion
  /\ licenses' = Put(licenses, call.id,
                     [call.value EXCEPT !.version = @ + 1])
  /\ extended' = Put(extended, call.id, Added(extended, call))
  /\ calls' = [calls EXCEPT ![c] = None]
  /\ UNCHANGED <<now, inspections, catalogs, results, launched, confirmed,
                 recalls>>

(* A conflict of versions, or a context that ended: nothing was saved.     *)
CallFails(c) ==
  /\ ~ Idle(c)
  /\ calls' = [calls EXCEPT ![c] = None]
  /\ UNCHANGED <<now, registry, history, recalls>>

-----------------------------------------------------------------------------
(* Inspections.                                                            *)

(* The scores of a report that can be scored, rounded down to their mean.  *)
Scorable(sections) ==
  /\ sections # <<>>
  /\ \A i \in DOMAIN sections :
       /\ sections[i].score \in 0 .. 100
       /\ sections[i].required => sections[i].evidence

(* Seeded fault: the sum is not divided.                                   *)
CalculateInspectionSum(sections) ==
  FoldSeq(LAMBDA section, total : total + section.score, 0, sections)

CalculateInspection(sections) ==
  FoldSeq(LAMBDA section, total : total + section.score, 0, sections)
    \div Len(sections)

(* The inspection is over: its time range lies behind the clock.           *)
CompleteInspection(c, id, sections, version) ==
  /\ Idle(c)
  /\ PassScore \in 1 .. 100
  /\ Scorable(sections)
  /\ calls' = [calls EXCEPT ![c] =
       LET score == CalculateInspection(sections) IN
         SaveCall("complete", id,
                  [score |-> score, passed |-> score >= PassScore,
                   version |-> version], 0)]
  /\ UNCHANGED <<now, registry, history, recalls>>

Answers(id) == IF id \in DOMAIN results THEN results[id] ELSE <<>>

(* Seeded fault: an older version is refused, a newer one is not.          *)
SaveInspectionUnlessOlder(c) ==
  LET call == calls[c] IN
  /\ call.op = "complete"
  /\ call.id \in DOMAIN inspections =>
       inspections[call.id].version <= call.value.version
  /\ call.value.version < MaxVersion
  /\ LET saved == [call.value EXCEPT !.version = @ + 1] IN
       /\ inspections' = Put(inspections, call.id, saved)
       /\ results' = Put(results, call.id, Append(Answers(call.id), saved))
  /\ calls' = [calls EXCEPT ![c] = None]
  /\ UNCHANGED <<now, licenses, catalogs, extended, launched, confirmed,
                 recalls>>

SaveInspection(c) ==
  LET call == calls[c] IN
  /\ call.op = "complete"
  /\ Expected(inspections, call.id, call.value.version)
  /\ call.value.version < MaxVersion
  /\ LET saved == [call.value EXCEPT !.version = @ + 1] IN
       /\ inspections' = Put(inspections, call.id, saved)
       /\ results' = Put(results, call.id, Append(Answers(call.id), saved))
  /\ calls' = [calls EXCEPT ![c] = None]
  /\ UNCHANGED <<now, licenses, catalogs, extended, launched, confirmed,
                 recalls>>

-----------------------------------------------------------------------------
(* Catalogues and campaigns.                                               *)

ValidateListingPrices(listing) ==
  /\ listing.online > 0
  /\ listing.price > 0
  /\ LET difference == listing.online - listing.price IN
       (IF difference < 0 THEN - difference ELSE difference) * 100
         <= listing.price * 5

(* Seeded fault: the last listing alone is checked.                        *)
PublishableLast(listings, store) ==
  listings # <<>> =>
    LET listing == Last(listings) IN
      /\ listing.store = store.id
      /\ listing.traced
      /\ ValidateListingPrices(listing)

(* Its lots are known and come from where the listing says (traced).       *)
Publishable(listings, store) ==
  \A i \in DOMAIN listings :
    /\ listings[i].store = store.id
    /\ listings[i].traced
    /\ ValidateListingPrices(listings[i])

(* The licence is the caller's: the registry's is not looked at.           *)
PublishStoreCatalog(c, store, license, listings) ==
  /\ Idle(c)
  /\ ValidateLicenseAt(license, store, now)
  /\ Publishable(listings, store)
  /\ calls' = [calls EXCEPT ![c] =
                 SaveCall("publish", store.id,
                          [listings |-> listings, at |-> now], 0)]
  /\ UNCHANGED <<now, registry, history, recalls>>

(* The catalogue present is replaced, also when it is the newer one.       *)
PublishCatalog(c) ==
  LET call == calls[c] IN
  /\ call.op = "publish"
  /\ catalogs' = Put(catalogs, call.id, call.value)
  /\ calls' = [calls EXCEPT ![c] = None]
  /\ UNCHANGED <<now, licenses, inspections, history, recalls>>

(* The last listing of a SKU counts.                                       *)
BySku(listings) ==
  [sku \in {listings[i].sku : i \in DOMAIN listings} |->
     listings[Max({i \in DOMAIN listings : listings[i].sku = sku})]]

ValidateCampaign(featured, store, bySku) ==
  \A sku \in featured :
    /\ sku \in DOMAIN bySku
    /\ bySku[sku].store = store.id
    /\ bySku[sku].published

(* The campaign is approved and within its own window.                     *)
LaunchCampaign(store, license, featured, destinations) ==
  /\ ValidateLicenseAt(license, store, now)
  /\ destinations # {}
  /\ destinations \subseteq license.terms.regions
  /\ store.id \in DOMAIN catalogs
  /\ LET bySku == BySku(catalogs[store.id].listings) IN
       /\ ValidateCampaign(featured, store, bySku)
       /\ launched' = launched \cup
            {[store |-> store.id, listing |-> bySku[sku]] : sku \in featured}
  /\ UNCHANGED <<now, registry, calls, extended, results, recalls, confirmed>>

-----------------------------------------------------------------------------
(* Recalls are values: what one caller acknowledges, another learns with   *)
(* the copy it is handed.                                                  *)

(* Seeded fault: any acknowledgement closes the recall.                    *)
CanCloseRecallEarly(recall) ==
  /\ ~ recall.closed
  /\ recall.acknowledged # <<>>

CanCloseRecall(recall) ==
  /\ ~ recall.closed
  /\ StoreIds \subseteq ToSet(recall.acknowledged)

(* Of a recall that is closed as well; a second time changes nothing.      *)
AcknowledgeRecall(c, store) ==
  /\ store \notin ToSet(recalls[c].acknowledged)
  /\ recalls' = [recalls EXCEPT ![c].acknowledged = Append(@, store)]
  /\ confirmed' = confirmed \cup {store}
  /\ UNCHANGED <<now, registry, calls, extended, results, launched>>

CloseRecall(c) ==
  /\ CanCloseRecall(recalls[c])
  /\ recalls' = [recalls EXCEPT ![c].closed = TRUE]
  /\ UNCHANGED <<now, registry, calls, history>>

(* Outside the code: a caller goes on with another's copy.                 *)
HandOver(c, d) ==
  /\ recalls[c] # recalls[d]
  /\ recalls' = [recalls EXCEPT ![d] = recalls[c]]
  /\ UNCHANGED <<now, registry, calls, history>>

-----------------------------------------------------------------------------

Next ==
  \/ Tick
  \/ \E c \in Clients, store \in Profiles, terms \in Terms,
        clean \in BOOLEAN, version \in Versions, id \in LicenseIds :
       ActivateLicense(c, id, Presented(terms, clean, version), store)
  \/ \E c \in Clients, id \in LicenseIds, store \in Profiles,
        extension \in Extensions : RenewLicense(c, id, store, extension)
  \/ \E c \in Clients, id \in LicenseIds,
        status \in {"active", "suspended"}, clean \in BOOLEAN :
       AmendLicense(c, id, status, clean)
  \/ \E c \in Clients, id \in InspectionIds, sections \in Reports,
        version \in Versions : CompleteInspection(c, id, sections, version)
  \/ \E c \in Clients, store \in Profiles, terms \in Terms,
        listings \in ListingLists :
       PublishStoreCatalog(c, store, Presented(terms, TRUE, 0), listings)
  \/ \E c \in Clients : SaveLicense(c)
  \/ \E c \in Clients : SaveInspection(c)
  \/ \E c \in Clients : PublishCatalog(c)
  \/ \E c \in Clients : CallFails(c)
  \/ \E store \in Profiles, terms \in Terms, featured \in SUBSET Skus,
        destinations \in SUBSET Cities :
       LaunchCampaign(store, Presented(terms, TRUE, 0), featured,
                      destinations)
  \/ \E c \in Clients, store \in StoreIds : AcknowledgeRecall(c, store)
  \/ \E c \in Clients : CloseRecall(c)
  \/ \E c, d \in Clients : HandOver(c, d)

Spec == Init /\ [][Next]_vars

-----------------------------------------------------------------------------
(* Properties.                                                             *)

Licenses == [terms : Terms, to : Nat, status : {"active", "suspended"},
             clean : BOOLEAN, version : 0 .. MaxVersion]
Completions == [score : 0 .. 100, passed : BOOLEAN, version : 0 .. MaxVersion]
Catalogs == [listings : ListingLists, at : 0 .. MaxTime]
Recalls == [acknowledged : Seq(StoreIds), closed : BOOLEAN]

(* A map of the registry holds entries of one kind under ids of one kind.  *)
IsMap(map, ids, entries) ==
  /\ DOMAIN map \subseteq ids
  /\ \A id \in DOMAIN map : map[id] \in entries

Call(ops, ids, values, adds) ==
  [op : ops, id : ids, value : values, added : adds]

(* Types of the variables.                                                 *)
TypeOK ==
  /\ now \in 0 .. MaxTime
  /\ IsMap(licenses, LicenseIds, Licenses)
  /\ IsMap(inspections, InspectionIds, Completions)
  /\ IsMap(catalogs, StoreIds, Catalogs)
  /\ \A c \in Clients :
       \/ Idle(c)
       \/ calls[c] \in Call({"activate", "amend"}, LicenseIds, Licenses, {0})
       \/ calls[c] \in Call({"renew"}, LicenseIds, Licenses, Extensions)
       \/ calls[c] \in Call({"complete"}, InspectionIds, Completions, {0})
       \/ calls[c] \in Call({"publish"}, StoreIds, Catalogs, {0})
  /\ DOMAIN extended = DOMAIN licenses
  /\ \A id \in DOMAIN extended : extended[id] \in Nat
  /\ DOMAIN results = DOMAIN inspections
  /\ \A id \in DOMAIN results : results[id] \in Seq(Completions)
  /\ launched \subseteq [store : StoreIds, listing : ListingType]
  /\ recalls \in [Clients -> Recalls]
  /\ confirmed \subseteq StoreIds

(* Renewals, amendments and activations by callers that overlap in any     *)
(* order are whole steps on the licence as it stands: no renewal is lost   *)
(* or counted twice, none reaches a licence that was suspended or is in    *)
(* default when it is saved, and versions follow one another               *)
(* (RenewLicense, ActivateLicense, Registry.SaveLicense).                  *)
Book == INSTANCE LicenseBook

BookSpec == Book!Spec

(* However many renewals race, and however late they are saved, a renewed  *)
(* licence never reaches further ahead than one extension past the window  *)
(* (CanRenewLicense, RenewLicense).                                        *)
RenewedWithinWindow ==
  \A id \in DOMAIN licenses :
    extended[id] > 0 => licenses[id].to <= now + Window + MaxExtension

(* Of callers that complete one inspection with one version, one is        *)
(* answered and the others are refused: versions answered follow one       *)
(* another and the last answer is what is stored (Registry.SaveInspection, *)
(* CompleteInspection).                                                    *)
CompletionsInLine ==
  \A id \in DOMAIN inspections :
    /\ inspections[id] = Last(results[id])
    /\ \A i \in 2 .. Len(results[id]) :
         results[id][i].version = results[id][i - 1].version + 1

(* What a campaign features was checked when the catalogue was published,  *)
(* whichever publication won: it is the store's own, its origin is that of *)
(* its lots, and its prices online and in the store are five percent apart *)
(* at most.  LaunchCampaign itself looks at none but the first             *)
(* (PublishStoreCatalog, PublishCatalog, LaunchCampaign).                  *)
FeaturedIsChecked ==
  \A f \in launched :
    /\ f.listing.store = f.store
    /\ f.listing.traced
    /\ f.listing.online * 100 \in 95 * f.listing.price .. 105 * f.listing.price

(* Whoever closes the recall, from whatever copy: every affected store has *)
(* acknowledged it itself, and none is named twice (AcknowledgeRecall,     *)
(* CloseRecall).                                                           *)
ClosedRecallIsCovered ==
  \A c \in Clients :
    /\ IsInjective(recalls[c].acknowledged)
    /\ recalls[c].closed => /\ ToSet(recalls[c].acknowledged) = StoreIds
                            /\ confirmed = StoreIds
=============================================================================
