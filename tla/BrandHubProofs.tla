--------------------------- MODULE BrandHubProofs ---------------------------
(***************************************************************************)
(* Proofs about BrandHub: licences implement LicenseBook, renewals stay    *)
(* within the window, completions of an inspection are in line, a closed   *)
(* recall is covered, listings featured were checked, and the variables    *)
(* keep their types.                                                       *)
(*                                                                         *)
(* A save replaces a licence by a copy made earlier.  What makes it a step *)
(* on the licence as it stands is that a version names one licence: as     *)
(* long as the version a call expects is still there, the copy it holds is *)
(* the present licence with the call's own change (Unspoilt).              *)
(***************************************************************************)
EXTENDS BrandHub, FiniteSetTheorems, WellFoundedInduction, TLAPS

LicenseOps == {"activate", "renew", "amend"}

(* The call's value is the present licence with the call's change.         *)
Unspoilt(call) ==
  /\ call.op = "renew" =>
       /\ licenses[call.id].status = "active"
       /\ licenses[call.id].clean
       /\ call.value = [licenses[call.id] EXCEPT !.to = @ + call.added]
  /\ call.op = "amend" =>
       \E status \in {"active", "suspended"}, clean \in BOOLEAN :
         call.value = [licenses[call.id] EXCEPT !.status = status,
                                                !.clean = clean]

(* What a call that will save a licence holds.                             *)
LicenseCall(call) ==
  /\ call.id \in LicenseIds
  /\ call.value \in Licenses
  /\ call.op = "activate" => call.value.status = "active"
  /\ call.op = "renew" => call.added \in Extensions /\ call.added > 0
  /\ call.op \in {"renew", "amend"} =>
       /\ call.id \in DOMAIN licenses
       /\ call.value.version <= licenses[call.id].version
       /\ call.value.version = licenses[call.id].version => Unspoilt(call)

LicensesOK ==
  /\ IsMap(licenses, LicenseIds, Licenses)
  /\ licenses = [id \in DOMAIN licenses |-> licenses[id]]
  /\ extended = [id \in DOMAIN licenses |-> extended[id]]
  /\ \A id \in DOMAIN licenses : extended[id] \in Nat

LicenseInv ==
  /\ calls = [c \in Clients |-> calls[c]]
  /\ LicensesOK
  /\ \A c \in Clients : calls[c].op \in LicenseOps => LicenseCall(calls[c])

-----------------------------------------------------------------------------
(* The types of a licence's fields.                                        *)
LEMMA LicenseFields ==
  ASSUME NEW l \in Licenses
  PROVE  /\ l = [terms |-> l.terms, to |-> l.to, status |-> l.status,
                 clean |-> l.clean, version |-> l.version]
         /\ l.terms \in Terms
         /\ l.to \in Nat
         /\ l.status \in {"active", "suspended"}
         /\ l.clean \in BOOLEAN
         /\ l.version \in 0 .. MaxVersion
  BY DEF Licenses

(* A step that saves no licence, and begins a call that is sound or none   *)
(* that will save one, keeps the invariant.                                *)
LEMMA CallBegins ==
  ASSUME LicenseInv, NEW c \in Clients, NEW call,
         UNCHANGED <<licenses, extended>>,
         calls' = [calls EXCEPT ![c] = call],
         call.op \in LicenseOps => LicenseCall(call)
  PROVE  LicenseInv'
<1>1. LicensesOK'
  BY DEF LicenseInv, LicensesOK, IsMap
<1>2. calls' = [d \in Clients |-> calls'[d]]
  BY DEF LicenseInv
<1>3. ASSUME NEW d \in Clients, calls'[d].op \in LicenseOps
      PROVE  LicenseCall(calls[d])'
  <2>1. calls'[d] = IF d = c THEN call ELSE calls[d]
    BY DEF LicenseInv
  <2> DEFINE e == calls'[d]
  <2>2. LicenseCall(e)
    BY <1>3, <2>1 DEF LicenseInv
  <2> QED
    BY <2>2 DEF LicenseCall, Unspoilt
<1> QED
  BY <1>1, <1>2, <1>3 DEF LicenseInv

(* A step that changes neither licences nor calls keeps the invariant.     *)
LEMMA LicensesUntouched ==
  ASSUME LicenseInv, UNCHANGED <<licenses, extended, calls>>
  PROVE  LicenseInv'
<1>1. LicensesOK' /\ calls' = [d \in Clients |-> calls'[d]]
  BY DEF LicenseInv, LicensesOK, IsMap
<1>2. ASSUME NEW d \in Clients, calls'[d].op \in LicenseOps
      PROVE  LicenseCall(calls[d])'
  <2>1. LicenseCall(calls[d])
    BY <1>2 DEF LicenseInv
  <2> QED
    BY <2>1 DEF LicenseCall, Unspoilt
<1> QED
  BY <1>1, <1>2 DEF LicenseInv

(* An activation holds a licence with the caller's terms.                  *)
LEMMA ActivateInv ==
  ASSUME ConstantsOK, LicenseInv,
         NEW c \in Clients, NEW store \in Profiles, NEW terms \in Terms,
         NEW clean \in BOOLEAN, NEW version \in Versions,
         NEW id \in LicenseIds,
         ActivateLicense(c, id, Presented(terms, clean, version), store)
  PROVE  LicenseInv'
<1> DEFINE license == Presented(terms, clean, version)
           call == SaveCall("activate", id, license, 0)
<1>1. license \in Licenses
  BY DEF Presented, Licenses, Versions, ConstantsOK, TermsType
<1>2. LicenseCall(call)
  BY <1>1 DEF LicenseCall, SaveCall, Presented
<1>3. UNCHANGED <<licenses, extended>> /\ calls' = [calls EXCEPT ![c] = call]
  BY DEF ActivateLicense, registry, history
<1> QED
  BY <1>2, <1>3, CallBegins

(* A renewal holds the licence it read, with its extension.                *)
LEMMA RenewInv ==
  ASSUME ConstantsOK, LicenseInv,
         NEW c \in Clients, NEW id \in LicenseIds, NEW store \in Profiles,
         NEW extension \in Extensions,
         RenewLicense(c, id, store, extension)
  PROVE  LicenseInv'
<1> DEFINE value == [licenses[id] EXCEPT !.to = @ + extension]
           call == SaveCall("renew", id, value, extension)
<1>1. id \in DOMAIN licenses /\ extension > 0 /\ extension \in Int
  BY DEF RenewLicense, ConstantsOK
<1>2. licenses[id] \in Licenses
  BY <1>1 DEF LicenseInv, LicensesOK, IsMap
<1>3. licenses[id].status = "active" /\ licenses[id].clean
  BY DEF RenewLicense, CanRenewLicense
<1>4. value \in Licenses /\ value.version = licenses[id].version
  BY <1>1, <1>2, LicenseFields DEF Licenses
<1>5. call.op = "renew" /\ call.id = id /\ call.value = value
        /\ call.added = extension
  BY DEF SaveCall
<1>6. licenses[id].version <= licenses[id].version
  BY <1>2, LicenseFields DEF ConstantsOK
<1>7. LicenseCall(call)
  BY <1>1, <1>3, <1>4, <1>5, <1>6 DEF LicenseCall, Unspoilt
<1>8. UNCHANGED <<licenses, extended>> /\ calls' = [calls EXCEPT ![c] = call]
  BY DEF RenewLicense, registry, history
<1> QED
  BY <1>7, <1>8, CallBegins

(* An amendment holds the licence it read, with its status and standing.   *)
LEMMA AmendInv ==
  ASSUME ConstantsOK, LicenseInv,
         NEW c \in Clients, NEW id \in LicenseIds,
         NEW status \in {"active", "suspended"}, NEW clean \in BOOLEAN,
         AmendLicense(c, id, status, clean)
  PROVE  LicenseInv'
<1> DEFINE value == [licenses[id] EXCEPT !.status = status, !.clean = clean]
           call == SaveCall("amend", id, value, 0)
<1>1. id \in DOMAIN licenses
  BY DEF AmendLicense
<1>2. licenses[id] \in Licenses
  BY <1>1 DEF LicenseInv, LicensesOK, IsMap
<1>4. value \in Licenses /\ value.version = licenses[id].version
  BY <1>1, <1>2, LicenseFields DEF Licenses
<1>5. call.op = "amend" /\ call.id = id /\ call.value = value
  BY DEF SaveCall
<1>6. licenses[id].version <= licenses[id].version
  BY <1>2, LicenseFields DEF ConstantsOK
<1>7. LicenseCall(call)
  BY <1>1, <1>4, <1>5, <1>6 DEF LicenseCall, Unspoilt
<1>8. UNCHANGED <<licenses, extended>> /\ calls' = [calls EXCEPT ![c] = call]
  BY DEF AmendLicense, registry, history
<1> QED
  BY <1>7, <1>8, CallBegins

(* A call that saves no licence begins or ends.                            *)
LEMMA OtherCallInv ==
  ASSUME LicenseInv, NEW c \in Clients, NEW call,
         call.op \notin LicenseOps,
         UNCHANGED <<licenses, extended>>,
         calls' = [calls EXCEPT ![c] = call]
  PROVE  LicenseInv'
  BY CallBegins

(* What a call saves is a licence with the next version.                   *)
LEMMA SavedLicense ==
  ASSUME ConstantsOK, LicenseInv, NEW c \in Clients, SaveLicense(c)
  PROVE  LET call == calls[c]
             saved == [call.value EXCEPT !.version = @ + 1]
         IN  /\ call.op \in LicenseOps
             /\ LicenseCall(call)
             /\ saved \in Licenses
             /\ saved.version = call.value.version + 1
             /\ saved.status = call.value.status
             /\ call.id \in DOMAIN licenses =>
                  licenses[call.id].version = call.value.version
             /\ licenses' = Put(licenses, call.id, saved)
             /\ extended' = Put(extended, call.id, Added(extended, call))
             /\ Added(extended, call) \in Nat
             /\ calls' = [calls EXCEPT ![c] = None]
<1> DEFINE call == calls[c]
           saved == [call.value EXCEPT !.version = @ + 1]
<1>1. call.op \in LicenseOps /\ LicenseCall(call)
  BY DEF SaveLicense, LicenseInv, LicenseOps
<1>2. call.value \in Licenses /\ call.value.version < MaxVersion
  BY <1>1 DEF LicenseCall, SaveLicense
<1>3. saved \in Licenses /\ saved.version = call.value.version + 1
        /\ saved.status = call.value.status
  BY <1>2, LicenseFields DEF Licenses, ConstantsOK
<1>4. Added(extended, call) \in Nat
  <2>1. CASE call.op = "renew"
    <3>1. call.added \in Int /\ call.added > 0 /\ call.id \in DOMAIN licenses
      BY <1>1, <2>1 DEF LicenseCall, ConstantsOK
    <3>2. extended[call.id] \in Nat
      BY <3>1 DEF LicenseInv, LicensesOK
    <3> QED
      BY <2>1, <3>1, <3>2 DEF Added
  <2>2. CASE call.op = "amend"
    <3>1. extended[call.id] \in Nat
      BY <1>1, <2>2 DEF LicenseCall, LicenseInv, LicensesOK
    <3> QED
      BY <2>2, <3>1 DEF Added
  <2>3. CASE call.op = "activate"
    BY <2>3 DEF Added
  <2> QED
    BY <1>1, <2>1, <2>2, <2>3 DEF LicenseOps
<1> QED
  BY <1>1, <1>3, <1>4 DEF SaveLicense, Expected

(* A save leaves the other calls with a version that is no longer there,   *)
(* or with a licence it did not touch.                                     *)
LEMMA SaveLicenseInv ==
  ASSUME ConstantsOK, LicenseInv, NEW c \in Clients, SaveLicense(c)
  PROVE  LicenseInv'
<1> DEFINE call == calls[c]
           saved == [call.value EXCEPT !.version = @ + 1]
<1>1. /\ call.op \in LicenseOps /\ LicenseCall(call)
      /\ saved \in Licenses /\ saved.version = call.value.version + 1
      /\ call.id \in DOMAIN licenses =>
           licenses[call.id].version = call.value.version
      /\ licenses' = Put(licenses, call.id, saved)
      /\ extended' = Put(extended, call.id, Added(extended, call))
      /\ Added(extended, call) \in Nat
      /\ calls' = [calls EXCEPT ![c] = None]
  BY SavedLicense
<1>0. DOMAIN extended = DOMAIN licenses
  BY DEF LicenseInv, LicensesOK
<1> HIDE DEF saved
<1>2. /\ DOMAIN licenses' = DOMAIN licenses \cup {call.id}
      /\ licenses'[call.id] = saved
      /\ \A id \in DOMAIN licenses :
           id # call.id => licenses'[id] = licenses[id]
  BY <1>1 DEF Put
<1>3. LicensesOK'
  <2>1. IsMap(licenses', LicenseIds, Licenses)
    BY <1>1, <1>2 DEF LicenseInv, LicensesOK, IsMap, LicenseCall
  <2>2. licenses' = [id \in DOMAIN licenses' |-> licenses'[id]]
    BY <1>1 DEF Put
  <2>3. extended' = [id \in DOMAIN licenses' |-> extended'[id]]
    BY <1>1, <1>2, <1>0 DEF Put
  <2>4. \A id \in DOMAIN licenses' : extended'[id] \in Nat
    <3>1. \A id \in DOMAIN licenses : extended[id] \in Nat
      BY DEF LicenseInv, LicensesOK
    <3>2. \A id \in DOMAIN licenses \cup {call.id} :
            extended'[id] = IF id = call.id THEN Added(extended, call)
                                            ELSE extended[id]
      BY <1>1, <1>0 DEF Put
    <3> QED
      BY <1>1, <1>2, <3>1, <3>2
  <2> QED
    BY <2>1, <2>2, <2>3, <2>4 DEF LicensesOK, IsMap
<1>4. calls' = [d \in Clients |-> calls'[d]]
  BY <1>1 DEF LicenseInv
<1>5. ASSUME NEW d \in Clients, calls'[d].op \in LicenseOps
      PROVE  LicenseCall(calls[d])'
  <2> DEFINE e == calls'[d]
  <2>1. e = calls[d] /\ LicenseCall(e)
    BY <1>1, <1>5 DEF LicenseInv, None, LicenseOps
  <2>2. CASE e.op \in {"renew", "amend"}
    <3>1. e.id \in DOMAIN licenses /\ e.id \in DOMAIN licenses'
      BY <1>2, <2>1, <2>2 DEF LicenseCall
    <3>2. CASE e.id # call.id
      <4>1. licenses'[e.id] = licenses[e.id]
        BY <1>2, <3>1, <3>2
      <4> QED
        BY <2>1, <2>2, <3>1, <4>1 DEF LicenseCall, Unspoilt
    <3>3. CASE e.id = call.id
      <4>1. licenses[e.id].version = call.value.version
        BY <1>1, <3>1, <3>3
      <4>2. e.value.version <= call.value.version
        BY <2>1, <2>2, <4>1 DEF LicenseCall
      <4>3. e.value \in Licenses /\ call.value \in Licenses
        BY <1>1, <2>1 DEF LicenseCall
      <4>4. e.value.version \in Int /\ call.value.version \in Int
        BY <4>3, LicenseFields
      <4>5. licenses'[e.id].version = call.value.version + 1
        BY <1>1, <1>2, <3>3
      <4>6. /\ e.value.version <= licenses'[e.id].version
            /\ e.value.version # licenses'[e.id].version
        BY <4>2, <4>4, <4>5
      <4> QED
        BY <2>1, <3>1, <4>6 DEF LicenseCall
    <3> QED
      BY <3>2, <3>3
  <2>3. CASE e.op \notin {"renew", "amend"}
    BY <2>1, <2>3 DEF LicenseCall
  <2> QED
    BY <2>2, <2>3
<1> QED
  BY <1>3, <1>4, <1>5 DEF LicenseInv

(* Steps that leave licences alone keep the invariant.                     *)
LEMMA OtherStepsInv ==
  ASSUME LicenseInv,
         \/ Tick
         \/ \E c \in Clients, id \in InspectionIds, sections \in Reports,
               version \in Versions :
              CompleteInspection(c, id, sections, version)
         \/ \E c \in Clients, store \in Profiles, terms \in Terms,
               listings \in ListingLists :
              PublishStoreCatalog(c, store, Presented(terms, TRUE, 0),
                                  listings)
         \/ \E c \in Clients : SaveInspection(c)
         \/ \E c \in Clients : PublishCatalog(c)
         \/ \E c \in Clients : CallFails(c)
         \/ \E store \in Profiles, terms \in Terms,
               featured \in SUBSET Skus, destinations \in SUBSET Cities :
              LaunchCampaign(store, Presented(terms, TRUE, 0), featured,
                             destinations)
         \/ \E c \in Clients, store \in StoreIds : AcknowledgeRecall(c, store)
         \/ \E c \in Clients : CloseRecall(c)
         \/ \E c, d \in Clients : HandOver(c, d)
         \/ UNCHANGED vars
  PROVE  LicenseInv' /\ UNCHANGED <<licenses, extended>>
<1>1. ASSUME NEW c \in Clients, NEW id \in InspectionIds,
             NEW sections \in Reports, NEW version \in Versions,
             CompleteInspection(c, id, sections, version)
      PROVE  LicenseInv' /\ UNCHANGED <<licenses, extended>>
  <2> DEFINE score == CalculateInspection(sections)
             call == SaveCall("complete", id,
                       [score |-> score, passed |-> score >= PassScore,
                        version |-> version], 0)
  <2>1. call.op \notin LicenseOps
    BY DEF SaveCall, LicenseOps
  <2>2. calls' = [calls EXCEPT ![c] = call]
          /\ UNCHANGED <<licenses, extended>>
    BY <1>1 DEF CompleteInspection, registry, history
  <2> QED
    BY <2>1, <2>2, OtherCallInv
<1>2. ASSUME NEW c \in Clients, NEW store \in Profiles, NEW terms \in Terms,
             NEW listings \in ListingLists,
             PublishStoreCatalog(c, store, Presented(terms, TRUE, 0), listings)
      PROVE  LicenseInv' /\ UNCHANGED <<licenses, extended>>
  <2> DEFINE call == SaveCall("publish", store.id,
                              [listings |-> listings, at |-> now], 0)
  <2>1. call.op \notin LicenseOps
    BY DEF SaveCall, LicenseOps
  <2>2. calls' = [calls EXCEPT ![c] = call]
          /\ UNCHANGED <<licenses, extended>>
    BY <1>2 DEF PublishStoreCatalog, registry, history
  <2> QED
    BY <2>1, <2>2, OtherCallInv
<1>3. ASSUME NEW c \in Clients,
             SaveInspection(c) \/ PublishCatalog(c) \/ CallFails(c)
      PROVE  LicenseInv' /\ UNCHANGED <<licenses, extended>>
  <2>1. None.op \notin LicenseOps
    BY DEF None, LicenseOps
  <2>2. calls' = [calls EXCEPT ![c] = None]
          /\ UNCHANGED <<licenses, extended>>
    BY <1>3 DEF SaveInspection, PublishCatalog, CallFails, registry, history
  <2> QED
    BY <2>1, <2>2, OtherCallInv
<1>4. CASE UNCHANGED <<licenses, extended, calls>>
  BY <1>4, LicensesUntouched
<1>5. ASSUME \/ Tick
             \/ \E store \in Profiles, terms \in Terms,
                   featured \in SUBSET Skus, destinations \in SUBSET Cities :
                  LaunchCampaign(store, Presented(terms, TRUE, 0), featured,
                                 destinations)
             \/ \E c \in Clients, store \in StoreIds :
                  AcknowledgeRecall(c, store)
             \/ \E c \in Clients : CloseRecall(c)
             \/ \E c, d \in Clients : HandOver(c, d)
             \/ UNCHANGED vars
      PROVE  UNCHANGED <<licenses, extended, calls>>
  BY <1>5 DEF Tick, LaunchCampaign, AcknowledgeRecall, CloseRecall, HandOver,
              vars, registry, history
<1> QED
  BY <1>1, <1>2, <1>3, <1>4, <1>5

(* A save is one step of the book.                                         *)
LEMMA SaveImplements ==
  ASSUME ConstantsOK, LicenseInv, NEW c \in Clients, SaveLicense(c)
  PROVE  Book!Next
<1> DEFINE call == calls[c]
           id == call.id
           saved == [call.value EXCEPT !.version = @ + 1]
<1>1. /\ call.op \in LicenseOps /\ LicenseCall(call)
      /\ saved \in Licenses /\ saved.version = call.value.version + 1
      /\ saved.status = call.value.status
      /\ id \in DOMAIN licenses =>
           licenses[id].version = call.value.version
      /\ licenses' = Put(licenses, id, saved)
      /\ extended' = Put(extended, id, Added(extended, call))
  BY SavedLicense
<1>2. /\ licenses = [k \in DOMAIN licenses |-> licenses[k]]
      /\ extended = [k \in DOMAIN licenses |-> extended[k]]
      /\ id \in LicenseIds
      /\ call.value \in Licenses
      /\ id \in DOMAIN licenses => licenses[id] \in Licenses
  BY <1>1 DEF LicenseInv, LicensesOK, LicenseCall, IsMap
<1>3. CASE call.op = "activate"
  <2>1. saved.status = "active" /\ Added(extended, call) = 0
    BY <1>1, <1>3 DEF LicenseCall, Added
  <2>2. licenses'[id] = saved /\ id \in DOMAIN licenses'
    BY <1>1 DEF Put
  <2>3. saved.version \in 1 .. MaxVersion
    BY <1>1, <1>2, LicenseFields DEF ConstantsOK
  <2>4. Book!Follows(id, saved.version)
    BY <1>1, <2>3 DEF Book!Follows
  <2>5. Book!Grant(id)
    BY <1>1, <2>1, <2>2, <2>4 DEF Book!Grant, Book!Put, Put
  <2> QED
    BY <1>2, <2>5 DEF Book!Next
<1>4. CASE call.op = "amend"
  <2>1. id \in DOMAIN licenses /\ Unspoilt(call)
    <3>1. id \in DOMAIN licenses /\ licenses[id].version = call.value.version
      BY <1>1, <1>4 DEF LicenseCall
    <3> QED
      BY <1>1, <1>4, <3>1 DEF LicenseCall
  <2>2. PICK status \in {"active", "suspended"}, clean \in BOOLEAN :
          call.value = [licenses[id] EXCEPT !.status = status, !.clean = clean]
    BY <1>4, <2>1 DEF Unspoilt
  <2>3. saved = [licenses[id] EXCEPT !.status = status, !.clean = clean,
                                     !.version = @ + 1]
    BY <1>2, <2>1, <2>2, LicenseFields DEF Licenses
  <2>4. Added(extended, call) = extended[id]
    BY <1>4 DEF Added
  <2>5. Book!Amend(id, status, clean)
    BY <1>1, <1>2, <2>1, <2>3, <2>4 DEF Book!Amend, Put
  <2> QED
    BY <1>2, <2>5 DEF Book!Next
<1>5. CASE call.op = "renew"
  <2>1. id \in DOMAIN licenses /\ Unspoilt(call)
    <3>1. id \in DOMAIN licenses /\ licenses[id].version = call.value.version
      BY <1>1, <1>5 DEF LicenseCall
    <3> QED
      BY <1>1, <1>5, <3>1 DEF LicenseCall
  <2>2. /\ licenses[id].status = "active" /\ licenses[id].clean
        /\ call.value = [licenses[id] EXCEPT !.to = @ + call.added]
    BY <1>5, <2>1 DEF Unspoilt
  <2>3. saved = [licenses[id] EXCEPT !.to = @ + call.added,
                                     !.version = @ + 1]
    BY <1>2, <2>1, <2>2, LicenseFields DEF Licenses
  <2>4. Added(extended, call) = extended[id] + call.added
    BY <1>5 DEF Added
  <2>5. call.added \in {e \in Extensions : e > 0}
    BY <1>1, <1>5 DEF LicenseCall
  <2>6. Book!Renew(id, call.added)
    <3>1. licenses' = [licenses EXCEPT ![id].to = @ + call.added,
                                       ![id].version = @ + 1]
      BY <1>1, <1>2, <2>1, <2>3 DEF Put
    <3>2. extended' = [extended EXCEPT ![id] = @ + call.added]
      BY <1>1, <1>2, <2>1, <2>4 DEF Put
    <3> QED
      BY <2>1, <2>2, <3>1, <3>2, Zenon DEF Book!Renew
  <2> QED
    BY <1>2, <2>5, <2>6 DEF Book!Next
<1> QED
  BY <1>1, <1>3, <1>4, <1>5 DEF LicenseOps

(* What holds of licences and of the calls that will save one.             *)
THEOREM LicenseInvariant == Spec => []LicenseInv
<1> USE ConstantsOK
<1>1. Init => LicenseInv
  BY DEF Init, LicenseInv, LicensesOK, IsMap, Empty, None, LicenseOps
<1>2. LicenseInv /\ [Next]_vars => LicenseInv'
  BY ActivateInv, RenewInv, AmendInv, SaveLicenseInv, OtherStepsInv DEF Next
<1> QED
  BY <1>1, <1>2, PTL DEF Spec

(* Activations, renewals and amendments that overlap in any order are      *)
(* whole steps on the licence as it stands, for every number of callers    *)
(* and licences: BrandHub implements LicenseBook.                          *)
THEOREM LicensesKeepTheBook == Spec => BookSpec
<1>1. Init => Book!Init
  BY DEF Init, Book!Init, Empty
<1>2. ConstantsOK /\ LicenseInv /\ [Next]_vars => [Book!Next]_(Book!vars)
  <2> SUFFICES ASSUME ConstantsOK, LicenseInv, [Next]_vars
               PROVE  Book!Next \/ UNCHANGED <<licenses, extended>>
    BY DEF Book!vars
  <2>1. CASE \E c \in Clients : SaveLicense(c)
    BY <2>1, SaveImplements
  <2>2. ASSUME \/ \E c \in Clients, store \in Profiles, terms \in Terms,
                    clean \in BOOLEAN, version \in Versions,
                    id \in LicenseIds :
                   ActivateLicense(c, id, Presented(terms, clean, version),
                                   store)
               \/ \E c \in Clients, id \in LicenseIds, store \in Profiles,
                    extension \in Extensions :
                   RenewLicense(c, id, store, extension)
               \/ \E c \in Clients, id \in LicenseIds,
                    status \in {"active", "suspended"}, clean \in BOOLEAN :
                   AmendLicense(c, id, status, clean)
        PROVE  UNCHANGED <<licenses, extended>>
    BY <2>2 DEF ActivateLicense, RenewLicense, AmendLicense, registry, history
  <2> QED
    BY <2>1, <2>2, OtherStepsInv DEF Next
<1> QED
  BY <1>1, <1>2, LicenseInvariant, ConstantsOK, PTL DEF Spec, BookSpec, Book!Spec

-----------------------------------------------------------------------------
(* How far renewals reach.                                                 *)

(* Neither what is stored nor what a renewal will save reaches further.    *)
WindowInv ==
  /\ now \in Nat
  /\ RenewedWithinWindow
  /\ \A c \in Clients :
       calls[c].op = "renew" => calls[c].value.to <= now + Window + MaxExtension

(* A step that saves no licence only has to see to what it begins.         *)
LEMMA WindowKept ==
  ASSUME ConstantsOK, LicenseInv, WindowInv,
         UNCHANGED <<licenses, extended>>,
         now' = now \/ now' = now + 1,
         \A c \in Clients :
           \/ calls'[c] = calls[c]
           \/ calls'[c].op # "renew"
           \/ calls'[c].value.to \in 0 .. now + Window + MaxExtension
  PROVE  WindowInv'
<1>1. /\ now' \in Nat /\ now \in Nat /\ now <= now'
      /\ Window \in Nat /\ MaxExtension \in Int
  BY DEF WindowInv, ConstantsOK
<1>2. ASSUME NEW id \in DOMAIN licenses, extended[id] > 0
      PROVE  licenses[id].to <= now' + Window + MaxExtension
  <2>1. licenses[id].to \in Nat
    BY LicenseFields DEF LicenseInv, LicensesOK, IsMap
  <2>2. licenses[id].to <= now + Window + MaxExtension
    BY <1>2 DEF WindowInv, RenewedWithinWindow
  <2> QED
    BY <1>1, <2>1, <2>2
<1>3. ASSUME NEW c \in Clients, calls'[c].op = "renew"
      PROVE  calls'[c].value.to <= now' + Window + MaxExtension
  <2>1. CASE calls'[c] = calls[c]
    <3>1. calls[c].value.to \in Nat
      BY <1>3, <2>1, LicenseFields DEF LicenseInv, LicenseCall, LicenseOps
    <3>2. calls[c].value.to <= now + Window + MaxExtension
      BY <1>3, <2>1 DEF WindowInv
    <3> QED
      BY <1>1, <2>1, <3>1, <3>2
  <2>2. CASE calls'[c].value.to \in 0 .. now + Window + MaxExtension
    BY <1>1, <2>2
  <2> QED
    BY <1>3, <2>1, <2>2
<1> QED
  BY <1>1, <1>2, <1>3 DEF WindowInv, RenewedWithinWindow

(* A save keeps within the window: a renewal brings the end it computed,   *)
(* an amendment the end that is there, an activation starts anew.          *)
LEMMA WindowSaved ==
  ASSUME ConstantsOK, LicenseInv, WindowInv, NEW c \in Clients, SaveLicense(c)
  PROVE  WindowInv'
<1> DEFINE call == calls[c]
           saved == [call.value EXCEPT !.version = @ + 1]
           bound == now + Window + MaxExtension
<1>1. /\ call.op \in LicenseOps /\ LicenseCall(call)
      /\ call.id \in DOMAIN licenses =>
           licenses[call.id].version = call.value.version
      /\ licenses' = Put(licenses, call.id, saved)
      /\ extended' = Put(extended, call.id, Added(extended, call))
      /\ calls' = [calls EXCEPT ![c] = None]
      /\ now' = now
  BY SavedLicense DEF SaveLicense
<1>2. saved.to = call.value.to
  BY <1>1, LicenseFields DEF LicenseCall
<1>3. Added(extended, call) > 0 => call.value.to <= bound
  <2>1. CASE call.op = "renew"
    BY <2>1 DEF WindowInv
  <2>2. CASE call.op = "amend"
    <3>1. call.id \in DOMAIN licenses /\ Unspoilt(call)
      <4>1. /\ call.id \in DOMAIN licenses
            /\ licenses[call.id].version = call.value.version
        BY <1>1, <2>2 DEF LicenseCall
      <4> QED
        BY <1>1, <2>2, <4>1 DEF LicenseCall
    <3>2. licenses[call.id] \in Licenses
      BY <3>1 DEF LicenseInv, LicensesOK, IsMap
    <3>3. call.value.to = licenses[call.id].to
      <4>1. PICK status \in {"active", "suspended"}, clean \in BOOLEAN :
              call.value = [licenses[call.id] EXCEPT !.status = status,
                                                     !.clean = clean]
        BY <2>2, <3>1 DEF Unspoilt
      <4> QED
        BY <3>2, <4>1 DEF Licenses
    <3>4. Added(extended, call) = extended[call.id]
      BY <2>2 DEF Added
    <3> QED
      BY <3>1, <3>3, <3>4 DEF WindowInv, RenewedWithinWindow
  <2>3. CASE call.op = "activate"
    BY <2>3 DEF Added
  <2> QED
    BY <1>1, <2>1, <2>2, <2>3 DEF LicenseOps
<1> HIDE DEF saved
<1>4. ASSUME NEW id \in DOMAIN licenses', extended'[id] > 0
      PROVE  licenses'[id].to <= bound
  <2>0. DOMAIN extended = DOMAIN licenses
    BY DEF LicenseInv, LicensesOK
  <2>1. CASE id = call.id
    <3>1. licenses'[id] = saved /\ extended'[id] = Added(extended, call)
      BY <1>1, <2>1 DEF Put
    <3> QED
      BY <1>2, <1>3, <1>4, <3>1
  <2>2. CASE id # call.id
    <3>1. /\ id \in DOMAIN licenses
          /\ licenses'[id] = licenses[id] /\ extended'[id] = extended[id]
      BY <1>1, <2>0, <2>2 DEF Put
    <3> QED
      BY <1>4, <3>1 DEF WindowInv, RenewedWithinWindow
  <2> QED
    BY <2>1, <2>2
<1>5. ASSUME NEW d \in Clients, calls'[d].op = "renew"
      PROVE  calls'[d].value.to <= bound
  BY <1>1, <1>5 DEF LicenseInv, WindowInv, None
<1> QED
  BY <1>1, <1>4, <1>5 DEF WindowInv, RenewedWithinWindow

(* However many renewals race, and however late they are saved: for every  *)
(* number of callers and licences, window and extensions.                  *)
THEOREM RenewalsStayInWindow == Spec => []RenewedWithinWindow
<1>1. Init => WindowInv
  BY DEF Init, WindowInv, RenewedWithinWindow, Empty, None
<1>2. ConstantsOK /\ LicenseInv /\ WindowInv /\ [Next]_vars => WindowInv'
  <2> SUFFICES ASSUME ConstantsOK, LicenseInv, WindowInv, [Next]_vars
               PROVE  WindowInv'
    OBVIOUS
  <2>1. ASSUME NEW c \in Clients, NEW id \in LicenseIds, NEW store \in Profiles,
               NEW extension \in Extensions,
               RenewLicense(c, id, store, extension)
        PROVE  WindowInv'
    <3> DEFINE value == [licenses[id] EXCEPT !.to = @ + extension]
    <3>1. /\ calls' = [calls EXCEPT ![c] =
                         SaveCall("renew", id, value, extension)]
          /\ UNCHANGED <<now, licenses, extended>>
          /\ id \in DOMAIN licenses /\ extension > 0
          /\ now >= licenses[id].to - Window
      BY <2>1 DEF RenewLicense, CanRenewLicense, registry, history
    <3>2. licenses[id] \in Licenses
      BY <3>1 DEF LicenseInv, LicensesOK, IsMap
    <3>3. licenses[id].to \in Nat /\ value.to = licenses[id].to + extension
      BY <3>2 DEF Licenses
    <3>4. value.to \in 0 .. now + Window + MaxExtension
      BY <3>1, <3>3 DEF WindowInv, ConstantsOK
    <3>5. \A d \in Clients :
            \/ calls'[d] = calls[d]
            \/ calls'[d].value.to \in 0 .. now + Window + MaxExtension
      BY <3>1, <3>4 DEF LicenseInv, SaveCall
    <3> QED
      BY <3>1, <3>5, WindowKept
  <2>2. ASSUME NEW c \in Clients, NEW call, call.op # "renew",
               calls' = [calls EXCEPT ![c] = call],
               UNCHANGED <<now, licenses, extended>>
        PROVE  WindowInv'
    <3>1. \A d \in Clients : calls'[d] = calls[d] \/ calls'[d].op # "renew"
      BY <2>2 DEF LicenseInv
    <3> QED
      BY <2>2, <3>1, WindowKept
  <2>3. ASSUME NEW c \in Clients, NEW store \in Profiles, NEW terms \in Terms,
               NEW clean \in BOOLEAN, NEW version \in Versions,
               NEW id \in LicenseIds,
               ActivateLicense(c, id, Presented(terms, clean, version), store)
        PROVE  WindowInv'
    <3> DEFINE license == Presented(terms, clean, version)
    <3>1. /\ calls' = [calls EXCEPT ![c] = SaveCall("activate", id, license, 0)]
          /\ UNCHANGED <<now, licenses, extended>>
      BY <2>3 DEF ActivateLicense, registry, history
    <3>2. SaveCall("activate", id, license, 0).op # "renew"
      BY DEF SaveCall
    <3> QED
      BY <2>2, <3>1, <3>2
  <2>4. ASSUME NEW c \in Clients, NEW id \in LicenseIds,
               NEW status \in {"active", "suspended"}, NEW clean \in BOOLEAN,
               AmendLicense(c, id, status, clean)
        PROVE  WindowInv'
    <3> DEFINE call == SaveCall("amend", id,
                          [licenses[id] EXCEPT !.status = status,
                                               !.clean = clean], 0)
    <3>1. calls' = [calls EXCEPT ![c] = call]
            /\ UNCHANGED <<now, licenses, extended>>
      BY <2>4 DEF AmendLicense, registry, history
    <3>2. call.op # "renew"
      BY DEF SaveCall
    <3> QED
      BY <2>2, <3>1, <3>2
  <2>5. ASSUME NEW c \in Clients, NEW id \in InspectionIds,
               NEW sections \in Reports, NEW version \in Versions,
               CompleteInspection(c, id, sections, version)
        PROVE  WindowInv'
    <3> DEFINE score == CalculateInspection(sections)
               call == SaveCall("complete", id,
                         [score |-> score, passed |-> score >= PassScore,
                          version |-> version], 0)
    <3>1. calls' = [calls EXCEPT ![c] = call]
            /\ UNCHANGED <<now, licenses, extended>>
      BY <2>5 DEF CompleteInspection, registry, history
    <3>2. call.op # "renew"
      BY DEF SaveCall
    <3> QED
      BY <2>2, <3>1, <3>2
  <2>6. ASSUME NEW c \in Clients, NEW store \in Profiles, NEW terms \in Terms,
               NEW listings \in ListingLists,
               PublishStoreCatalog(c, store, Presented(terms, TRUE, 0),
                                   listings)
        PROVE  WindowInv'
    <3> DEFINE call == SaveCall("publish", store.id,
                                [listings |-> listings, at |-> now], 0)
    <3>1. calls' = [calls EXCEPT ![c] = call]
            /\ UNCHANGED <<now, licenses, extended>>
      BY <2>6 DEF PublishStoreCatalog, registry, history
    <3>2. call.op # "renew"
      BY DEF SaveCall
    <3> QED
      BY <2>2, <3>1, <3>2
  <2>7. ASSUME NEW c \in Clients,
               SaveInspection(c) \/ PublishCatalog(c) \/ CallFails(c)
        PROVE  WindowInv'
    <3>1. calls' = [calls EXCEPT ![c] = None]
            /\ UNCHANGED <<now, licenses, extended>>
      BY <2>7 DEF SaveInspection, PublishCatalog, CallFails, registry, history
    <3>2. None.op # "renew"
      BY DEF None
    <3> QED
      BY <2>2, <3>1, <3>2
  <2>8. ASSUME UNCHANGED <<licenses, extended, calls>>,
               now' = now \/ now' = now + 1
        PROVE  WindowInv'
    BY <2>8, WindowKept
  <2>9. CASE Tick
    BY <2>8, <2>9 DEF Tick, registry, history
  <2>10. CASE \/ \E store \in Profiles, terms \in Terms,
                    featured \in SUBSET Skus, destinations \in SUBSET Cities :
                   LaunchCampaign(store, Presented(terms, TRUE, 0), featured,
                                  destinations)
              \/ \E c \in Clients, store \in StoreIds :
                   AcknowledgeRecall(c, store)
              \/ \E c \in Clients : CloseRecall(c)
              \/ \E c, d \in Clients : HandOver(c, d)
              \/ UNCHANGED vars
    <3>1. UNCHANGED <<now, licenses, extended, calls>>
      BY <2>10 DEF LaunchCampaign, AcknowledgeRecall, CloseRecall, HandOver,
                   vars, registry, history
    <3> QED
      BY <2>8, <3>1
  <2>11. CASE \E c \in Clients : SaveLicense(c)
    BY <2>11, WindowSaved
  <2> QED
    BY <2>1, <2>3, <2>4, <2>5, <2>6, <2>7, <2>9, <2>10, <2>11 DEF Next
<1>3. WindowInv => RenewedWithinWindow
  BY DEF WindowInv
<1> QED
  BY <1>1, <1>2, <1>3, LicenseInvariant, ConstantsOK, PTL DEF Spec

-----------------------------------------------------------------------------
(* Completions of inspections.                                             *)

(* What a completion saves is a record with a version, and every           *)
(* inspection stored has its answers.                                      *)
IsCompletion(value) ==
  value = [score |-> value.score, passed |-> value.passed,
           version |-> value.version]

CompletionInv ==
  /\ calls = [c \in Clients |-> calls[c]]
  /\ \A c \in Clients :
       calls[c].op = "complete" => IsCompletion(calls[c].value)
  /\ DOMAIN results = DOMAIN inspections
  /\ \A id \in DOMAIN inspections :
       \E S : results[id] \in Seq(S) /\ results[id] # <<>>
  /\ CompletionsInLine

(* The last of a sequence that grew, and its neighbours.                   *)
LEMMA AppendInLine ==
  ASSUME NEW S, NEW s \in Seq(S), NEW x
  PROVE  /\ Append(s, x) \in Seq(S \cup {x}) /\ Append(s, x) # <<>>
         /\ Len(Append(s, x)) = Len(s) + 1
         /\ Append(s, x)[Len(s) + 1] = x
         /\ \A i \in 1 .. Len(s) : Append(s, x)[i] = s[i]
         /\ Last(Append(s, x)) = x
<1>1. s \in Seq(S \cup {x})
  OBVIOUS
<1> QED
  BY <1>1 DEF Last

(* A step that saves no inspection only has to see to what it begins.      *)
LEMMA CompletionKept ==
  ASSUME CompletionInv, NEW c \in Clients, NEW call,
         UNCHANGED <<inspections, results>>,
         calls' = [calls EXCEPT ![c] = call],
         call.op = "complete" => IsCompletion(call.value)
  PROVE  CompletionInv'
<1>1. calls' = [d \in Clients |-> calls'[d]]
  BY DEF CompletionInv
<1>2. ASSUME NEW d \in Clients, calls'[d].op = "complete"
      PROVE  IsCompletion(calls'[d].value)
  BY <1>2 DEF CompletionInv
<1>3. /\ DOMAIN results' = DOMAIN inspections'
      /\ \A id \in DOMAIN inspections' :
           \E S : results'[id] \in Seq(S) /\ results'[id] # <<>>
      /\ CompletionsInLine'
  BY DEF CompletionInv, CompletionsInLine
<1> QED
  BY <1>1, <1>2, <1>3 DEF CompletionInv

(* A save answers with the version after the last one answered.            *)
LEMMA CompletionSaved ==
  ASSUME CompletionInv, NEW c \in Clients, SaveInspection(c)
  PROVE  CompletionInv'
<1> DEFINE call == calls[c]
           saved == [call.value EXCEPT !.version = @ + 1]
           answers == Append(Answers(call.id), saved)
<1>1. /\ call.op = "complete"
      /\ call.id \in DOMAIN inspections =>
           inspections[call.id].version = call.value.version
      /\ inspections' = Put(inspections, call.id, saved)
      /\ results' = Put(results, call.id, answers)
      /\ calls' = [calls EXCEPT ![c] = None]
      /\ DOMAIN results = DOMAIN inspections
  BY DEF SaveInspection, Expected, CompletionInv
<1>2. saved.version = call.value.version + 1
  BY <1>1 DEF CompletionInv, IsCompletion
<1>3. PICK S : Answers(call.id) \in Seq(S)
  BY DEF CompletionInv, Answers
<1> HIDE DEF saved
<1>4. \A i \in 2 .. Len(answers) :
        answers[i].version = answers[i - 1].version + 1
  <2>1. CASE call.id \in DOMAIN results
    <3>1. /\ Answers(call.id) = results[call.id]
          /\ results[call.id] # <<>>
          /\ results[call.id][Len(results[call.id])].version
               = call.value.version
      BY <1>1, <2>1 DEF Answers, CompletionInv, CompletionsInLine, Last
    <3>2. \A i \in 2 .. Len(results[call.id]) :
            results[call.id][i].version = results[call.id][i - 1].version + 1
      BY <1>1, <2>1 DEF CompletionInv, CompletionsInLine
    <3>3. /\ results[call.id] \in Seq(S)
          /\ Len(answers) = Len(results[call.id]) + 1
          /\ answers[Len(results[call.id]) + 1] = saved
          /\ \A i \in 1 .. Len(results[call.id]) :
               answers[i] = results[call.id][i]
      BY <1>3, <3>1, AppendInLine
    <3>4. Len(results[call.id]) \in Nat /\ Len(results[call.id]) # 0
      BY <3>1, <3>3
    <3> HIDE DEF answers
    <3>5. ASSUME NEW i \in 2 .. Len(answers)
          PROVE  answers[i].version = answers[i - 1].version + 1
      <4>1. CASE i = Len(results[call.id]) + 1
        <5>1. i - 1 \in 1 .. Len(results[call.id]) /\ i - 1 = Len(results[call.id])
          BY <4>1, <3>4
        <5> QED
          BY <5>1, <4>1, <3>1, <3>3, <1>2
      <4>2. CASE i # Len(results[call.id]) + 1
        <5>1. /\ i \in 2 .. Len(results[call.id])
              /\ i \in 1 .. Len(results[call.id])
              /\ i - 1 \in 1 .. Len(results[call.id])
          BY <4>2, <3>3, <3>4
        <5> QED
          BY <5>1, <3>2, <3>3
      <4> QED
        BY <4>1, <4>2
    <3> QED
      BY <3>5
  <2>2. CASE call.id \notin DOMAIN results
    <3>1. Answers(call.id) = <<>>
      BY <2>2 DEF Answers
    <3> QED
      BY <3>1
  <2> QED
    BY <2>1, <2>2
<1>5. /\ answers \in Seq(S \cup {saved}) /\ answers # <<>>
      /\ Last(answers) = saved
  <2> DEFINE prior == Answers(call.id)
  <2>1. prior \in Seq(S)
    BY <1>3
  <2> HIDE DEF prior
  <2>2. prior \in Seq(S \cup {saved})
    BY <2>1
  <2>3. /\ Append(prior, saved) \in Seq(S \cup {saved})
        /\ Append(prior, saved) # <<>> /\ Last(Append(prior, saved)) = saved
    BY <2>2 DEF Last
  <2> QED
    BY <2>3 DEF prior
<1> HIDE DEF answers
<1>6. /\ DOMAIN inspections' = DOMAIN inspections \cup {call.id}
      /\ DOMAIN results' = DOMAIN inspections'
      /\ inspections'[call.id] = saved /\ results'[call.id] = answers
      /\ \A id \in DOMAIN inspections :
           id # call.id => /\ inspections'[id] = inspections[id]
                           /\ results'[id] = results[id]
  BY <1>1 DEF Put
<1>7. ASSUME NEW id \in DOMAIN inspections'
      PROVE  /\ \E T : results'[id] \in Seq(T) /\ results'[id] # <<>>
             /\ inspections'[id] = Last(results'[id])
             /\ \A i \in 2 .. Len(results'[id]) :
                  results'[id][i].version = results'[id][i - 1].version + 1
  <2>1. CASE id = call.id
    BY <1>4, <1>5, <1>6, <2>1
  <2>2. CASE id # call.id
    <3>1. /\ id \in DOMAIN inspections
          /\ inspections'[id] = inspections[id] /\ results'[id] = results[id]
      BY <1>6, <2>2
    <3> QED
      BY <3>1 DEF CompletionInv, CompletionsInLine
  <2> QED
    BY <2>1, <2>2
<1>8. /\ calls' = [d \in Clients |-> calls'[d]]
      /\ \A d \in Clients :
           calls'[d].op = "complete" => IsCompletion(calls'[d].value)
  BY <1>1 DEF CompletionInv, None
<1> QED
  BY <1>6, <1>7, <1>8 DEF CompletionInv, CompletionsInLine

(* Of callers that complete one inspection with one version one is         *)
(* answered, for every number of callers, inspections and reports.         *)
THEOREM CompletionsStayInLine == Spec => []CompletionsInLine
<1>1. Init => CompletionInv
  BY DEF Init, CompletionInv, CompletionsInLine, Empty, None
<1>2. CompletionInv /\ [Next]_vars => CompletionInv'
  <2> SUFFICES ASSUME CompletionInv, [Next]_vars
               PROVE  CompletionInv'
    OBVIOUS
  <2>1. ASSUME NEW c \in Clients, NEW call, call.op # "complete",
               calls' = [calls EXCEPT ![c] = call],
               UNCHANGED <<inspections, results>>
        PROVE  CompletionInv'
    BY <2>1, CompletionKept
  <2>2. ASSUME NEW c \in Clients, NEW store \in Profiles, NEW terms \in Terms,
               NEW clean \in BOOLEAN, NEW version \in Versions,
               NEW id \in LicenseIds,
               ActivateLicense(c, id, Presented(terms, clean, version), store)
        PROVE  CompletionInv'
    <3> DEFINE call == SaveCall("activate", id,
                                Presented(terms, clean, version), 0)
    <3>1. calls' = [calls EXCEPT ![c] = call]
            /\ UNCHANGED <<inspections, results>>
      BY <2>2 DEF ActivateLicense, registry, history
    <3>2. call.op # "complete"
      BY DEF SaveCall
    <3> QED
      BY <2>1, <3>1, <3>2
  <2>3. ASSUME NEW c \in Clients, NEW id \in LicenseIds, NEW store \in Profiles,
               NEW extension \in Extensions,
               RenewLicense(c, id, store, extension)
        PROVE  CompletionInv'
    <3> DEFINE call == SaveCall("renew", id,
                         [licenses[id] EXCEPT !.to = @ + extension], extension)
    <3>1. calls' = [calls EXCEPT ![c] = call]
            /\ UNCHANGED <<inspections, results>>
      BY <2>3 DEF RenewLicense, registry, history
    <3>2. call.op # "complete"
      BY DEF SaveCall
    <3> QED
      BY <2>1, <3>1, <3>2
  <2>4. ASSUME NEW c \in Clients, NEW id \in LicenseIds,
               NEW status \in {"active", "suspended"}, NEW clean \in BOOLEAN,
               AmendLicense(c, id, status, clean)
        PROVE  CompletionInv'
    <3> DEFINE call == SaveCall("amend", id,
                          [licenses[id] EXCEPT !.status = status,
                                               !.clean = clean], 0)
    <3>1. calls' = [calls EXCEPT ![c] = call]
            /\ UNCHANGED <<inspections, results>>
      BY <2>4 DEF AmendLicense, registry, history
    <3>2. call.op # "complete"
      BY DEF SaveCall
    <3> QED
      BY <2>1, <3>1, <3>2
  <2>5. ASSUME NEW c \in Clients, NEW id \in InspectionIds,
               NEW sections \in Reports, NEW version \in Versions,
               CompleteInspection(c, id, sections, version)
        PROVE  CompletionInv'
    <3> DEFINE score == CalculateInspection(sections)
               value == [score |-> score, passed |-> score >= PassScore,
                         version |-> version]
    <3>1. calls' = [calls EXCEPT ![c] = SaveCall("complete", id, value, 0)]
            /\ UNCHANGED <<inspections, results>>
      BY <2>5 DEF CompleteInspection, registry, history
    <3>2. IsCompletion(SaveCall("complete", id, value, 0).value)
      BY DEF SaveCall, IsCompletion
    <3> QED
      BY <3>1, <3>2, CompletionKept
  <2>6. ASSUME NEW c \in Clients, NEW store \in Profiles, NEW terms \in Terms,
               NEW listings \in ListingLists,
               PublishStoreCatalog(c, store, Presented(terms, TRUE, 0),
                                   listings)
        PROVE  CompletionInv'
    <3> DEFINE call == SaveCall("publish", store.id,
                                [listings |-> listings, at |-> now], 0)
    <3>1. calls' = [calls EXCEPT ![c] = call]
            /\ UNCHANGED <<inspections, results>>
      BY <2>6 DEF PublishStoreCatalog, registry, history
    <3>2. call.op # "complete"
      BY DEF SaveCall
    <3> QED
      BY <2>1, <3>1, <3>2
  <2>7. ASSUME NEW c \in Clients,
               SaveLicense(c) \/ PublishCatalog(c) \/ CallFails(c)
        PROVE  CompletionInv'
    <3>1. calls' = [calls EXCEPT ![c] = None]
            /\ UNCHANGED <<inspections, results>>
      BY <2>7 DEF SaveLicense, PublishCatalog, CallFails, registry, history
    <3>2. None.op # "complete"
      BY DEF None
    <3> QED
      BY <2>1, <3>1, <3>2
  <2>8. ASSUME UNCHANGED <<inspections, results, calls>>
        PROVE  CompletionInv'
    BY <2>8 DEF CompletionInv, CompletionsInLine
  <2>9. CASE \/ Tick
             \/ \E store \in Profiles, terms \in Terms,
                  featured \in SUBSET Skus, destinations \in SUBSET Cities :
                 LaunchCampaign(store, Presented(terms, TRUE, 0), featured,
                                destinations)
             \/ \E c \in Clients, store \in StoreIds :
                 AcknowledgeRecall(c, store)
             \/ \E c \in Clients : CloseRecall(c)
             \/ \E c, d \in Clients : HandOver(c, d)
             \/ UNCHANGED vars
    <3>1. UNCHANGED <<inspections, results, calls>>
      BY <2>9 DEF Tick, LaunchCampaign, AcknowledgeRecall, CloseRecall,
                  HandOver, vars, registry, history
    <3> QED
      BY <2>8, <3>1
  <2>10. CASE \E c \in Clients : SaveInspection(c)
    BY <2>10, CompletionSaved
  <2> QED
    BY <2>2, <2>3, <2>4, <2>5, <2>6, <2>7, <2>9, <2>10 DEF Next
<1>3. CompletionInv => CompletionsInLine
  BY DEF CompletionInv
<1> QED
  BY <1>1, <1>2, <1>3, PTL DEF Spec

-----------------------------------------------------------------------------
(* Recalls.                                                                *)

(* Every copy names stores that did acknowledge.                           *)
RecallInv ==
  /\ recalls \in [Clients -> Recalls]
  /\ confirmed \subseteq StoreIds
  /\ \A c \in Clients : ToSet(recalls[c].acknowledged) \subseteq confirmed
  /\ ClosedRecallIsCovered

(* Acknowledging once more keeps a list without repetitions.               *)
LEMMA AppendOnce ==
  ASSUME NEW s \in Seq(StoreIds), NEW x \in StoreIds, x \notin ToSet(s),
         IsInjective(s)
  PROVE  /\ Append(s, x) \in Seq(StoreIds)
         /\ ToSet(Append(s, x)) = ToSet(s) \cup {x}
         /\ IsInjective(Append(s, x))
<1>1. /\ Append(s, x) \in Seq(StoreIds)
      /\ DOMAIN Append(s, x) = DOMAIN s \cup {Len(s) + 1}
      /\ \A i \in DOMAIN s : Append(s, x)[i] = s[i]
      /\ Append(s, x)[Len(s) + 1] = x
  OBVIOUS
<1>2. ToSet(Append(s, x)) = ToSet(s) \cup {x}
  BY <1>1 DEF ToSet
<1>3. IsInjective(Append(s, x))
  BY <1>1 DEF IsInjective, ToSet
<1> QED
  BY <1>1, <1>2, <1>3

(* Whoever closes the recall, from whatever copy, for every number of      *)
(* callers and affected stores.                                            *)
THEOREM ClosedRecallsAreCovered == Spec => []ClosedRecallIsCovered
<1>1. Init => RecallInv
  BY DEF Init, RecallInv, ClosedRecallIsCovered, Issued, Recalls, ToSet,
         IsInjective
<1>2. RecallInv /\ [Next]_vars => RecallInv'
  <2> SUFFICES ASSUME RecallInv, [Next]_vars
               PROVE  RecallInv'
    OBVIOUS
  <2>1. ASSUME NEW c \in Clients, NEW store \in StoreIds,
               AcknowledgeRecall(c, store)
        PROVE  RecallInv'
    <3> DEFINE s == recalls[c].acknowledged
               t == Append(s, store)
    <3>1. /\ store \notin ToSet(s)
          /\ recalls' = [recalls EXCEPT ![c].acknowledged = t]
          /\ confirmed' = confirmed \cup {store}
      BY <2>1 DEF AcknowledgeRecall
    <3>2. s \in Seq(StoreIds) /\ IsInjective(s) /\ ToSet(s) \subseteq confirmed
      BY DEF RecallInv, Recalls, ClosedRecallIsCovered
    <3>3. /\ t \in Seq(StoreIds) /\ IsInjective(t)
          /\ ToSet(t) = ToSet(s) \cup {store}
      BY <3>1, <3>2, AppendOnce
    <3>4. ~ recalls[c].closed
      BY <3>1 DEF RecallInv, ClosedRecallIsCovered
    <3> HIDE DEF t
    <3>5. recalls' \in [Clients -> Recalls]
      BY <3>1, <3>3 DEF RecallInv, Recalls
    <3>6. confirmed' \subseteq StoreIds
      BY <3>1 DEF RecallInv
    <3>7. ASSUME NEW d \in Clients
          PROVE  /\ IsInjective(recalls'[d].acknowledged)
                 /\ ToSet(recalls'[d].acknowledged) \subseteq confirmed'
                 /\ recalls'[d].closed =>
                      /\ ToSet(recalls'[d].acknowledged) = StoreIds
                      /\ confirmed' = StoreIds
      <4>1. CASE d = c
        <5>1. /\ recalls'[d].acknowledged = t
              /\ recalls'[d].closed = recalls[c].closed
          BY <3>1, <4>1 DEF RecallInv, Recalls
        <5> QED
          BY <3>1, <3>2, <3>3, <3>4, <5>1
      <4>2. CASE d # c
        <5>1. recalls'[d] = recalls[d]
          BY <3>1, <4>2 DEF RecallInv
        <5> QED
          BY <3>1, <5>1 DEF RecallInv, ClosedRecallIsCovered
      <4> QED
        BY <4>1, <4>2
    <3> QED
      BY <3>5, <3>6, <3>7 DEF RecallInv, ClosedRecallIsCovered
  <2>2. ASSUME NEW c \in Clients, CloseRecall(c)
        PROVE  RecallInv'
    <3>1. /\ StoreIds \subseteq ToSet(recalls[c].acknowledged)
          /\ recalls' = [recalls EXCEPT ![c].closed = TRUE]
          /\ confirmed' = confirmed
      BY <2>2 DEF CloseRecall, CanCloseRecall, history
    <3>2. confirmed = StoreIds /\ ToSet(recalls[c].acknowledged) = StoreIds
      BY <3>1 DEF RecallInv
    <3>3. recalls' \in [Clients -> Recalls]
      BY <3>1 DEF RecallInv, Recalls
    <3>4. \A d \in Clients :
            recalls'[d].acknowledged = recalls[d].acknowledged
      BY <3>1 DEF RecallInv, Recalls
    <3>5. \A d \in Clients : d # c => recalls'[d].closed = recalls[d].closed
      BY <3>1 DEF RecallInv, Recalls
    <3>6. ASSUME NEW d \in Clients
          PROVE  /\ IsInjective(recalls'[d].acknowledged)
                 /\ ToSet(recalls'[d].acknowledged) \subseteq confirmed'
                 /\ recalls'[d].closed =>
                      /\ ToSet(recalls'[d].acknowledged) = StoreIds
                      /\ confirmed' = StoreIds
      BY <3>1, <3>2, <3>4, <3>5 DEF RecallInv, ClosedRecallIsCovered
    <3> QED
      BY <3>1, <3>2, <3>3, <3>6 DEF RecallInv, ClosedRecallIsCovered
  <2>3. ASSUME NEW c \in Clients, NEW d \in Clients, HandOver(c, d)
        PROVE  RecallInv'
    <3>1. recalls' = [recalls EXCEPT ![d] = recalls[c]] /\ confirmed' = confirmed
      BY <2>3 DEF HandOver, history
    <3>2. \A e \in Clients :
            recalls'[e] = recalls[e] \/ recalls'[e] = recalls[c]
      BY <3>1 DEF RecallInv
    <3>3. recalls' \in [Clients -> Recalls]
      BY <3>1 DEF RecallInv
    <3> QED
      BY <3>1, <3>2, <3>3 DEF RecallInv, ClosedRecallIsCovered
  <2>4. CASE UNCHANGED <<recalls, confirmed>>
    BY <2>4 DEF RecallInv, ClosedRecallIsCovered
  <2>5. ASSUME \/ Tick
               \/ \E c \in Clients, store \in Profiles, terms \in Terms,
                    clean \in BOOLEAN, version \in Versions,
                    id \in LicenseIds :
                   ActivateLicense(c, id, Presented(terms, clean, version),
                                   store)
               \/ \E c \in Clients, id \in LicenseIds, store \in Profiles,
                    extension \in Extensions :
                   RenewLicense(c, id, store, extension)
               \/ \E c \in Clients, id \in LicenseIds,
                    status \in {"active", "suspended"}, clean \in BOOLEAN :
                   AmendLicense(c, id, status, clean)
               \/ \E c \in Clients, id \in InspectionIds,
                    sections \in Reports, version \in Versions :
                   CompleteInspection(c, id, sections, version)
               \/ \E c \in Clients, store \in Profiles, terms \in Terms,
                    listings \in ListingLists :
                   PublishStoreCatalog(c, store, Presented(terms, TRUE, 0),
                                       listings)
               \/ \E c \in Clients : SaveLicense(c)
               \/ \E c \in Clients : SaveInspection(c)
               \/ \E c \in Clients : PublishCatalog(c)
               \/ \E c \in Clients : CallFails(c)
               \/ \E store \in Profiles, terms \in Terms,
                    featured \in SUBSET Skus,
                    destinations \in SUBSET Cities :
                   LaunchCampaign(store, Presented(terms, TRUE, 0), featured,
                                  destinations)
               \/ UNCHANGED vars
        PROVE  UNCHANGED <<recalls, confirmed>>
    BY <2>5 DEF Tick, ActivateLicense, RenewLicense, AmendLicense,
       CompleteInspection, PublishStoreCatalog, SaveLicense, SaveInspection,
       PublishCatalog, CallFails, LaunchCampaign, vars, history
  <2> QED
    BY <2>1, <2>2, <2>3, <2>4, <2>5 DEF Next
<1>3. RecallInv => ClosedRecallIsCovered
  BY DEF RecallInv
<1> QED
  BY <1>1, <1>2, <1>3, PTL DEF Spec

-----------------------------------------------------------------------------
(* Numbers and folds.                                                      *)

(* The least of some naturals.                                             *)
LEMMA LeastNatural ==
  ASSUME NEW T \in SUBSET Nat, T # {}
  PROVE  \E n \in T : \A m \in T : n <= m
<1>1. PICK n \in T : \A m \in T : ~ (<<m, n>> \in OpToRel(<, Nat))
  BY NatLessThanWellFounded, WFMin
<1>2. ASSUME NEW m \in T
      PROVE  n <= m
  <2>1. ~ (m < n)
    BY <1>1 DEF OpToRel
  <2>2. m \in Nat /\ n \in Nat
    OBVIOUS
  <2> QED
    BY <2>1, <2>2
<1> QED
  BY <1>2

(* Max finds one of the places there are.                                  *)
LEMMA LastPlace ==
  ASSUME NEW n \in Nat, NEW S \in SUBSET (1 .. n), S # {}
  PROVE  Max(S) \in S
<1> DEFINE T == {n - i : i \in S}
<1>1. T \in SUBSET Nat /\ T # {}
  <2>1. \A i \in S : n - i \in Nat
    OBVIOUS
  <2> QED
    BY <2>1
<1>2. PICK t \in T : \A u \in T : t <= u
  BY <1>1, LeastNatural
<1>3. PICK i \in S : t = n - i
  OBVIOUS
<1>4. ASSUME NEW j \in S
      PROVE  i >= j
  <2>1. n - i <= n - j
    BY <1>2, <1>3
  <2> QED
    BY <2>1
<1> QED
  BY <1>4 DEF Max

(* The sum of the scores at some places, from that without the place the   *)
(* fold takes first.                                                       *)
SumStep(g, sections, s) ==
  IF s = {} THEN 0
  ELSE LET i == CHOOSE j \in s : TRUE IN g[s \ {i}] + sections[i].score

(* What the fold of a report is by the definition of FoldSeq.              *)
LEMMA FoldOfScores ==
  ASSUME NEW sections
  PROVE  FoldSeq(LAMBDA section, total : total + section.score, 0, sections)
         = (CHOOSE g : g = [s \in SUBSET DOMAIN sections |->
                               SumStep(g, sections, s)])[DOMAIN sections]
BY DEF FoldSeq, FoldFunction, FoldFunctionOnSet, MapThenFoldSet, SumStep

(* There are such sums: for the sets of n + 1 places they are made of      *)
(* those for the sets of n.                                                *)
LEMMA FoldExists ==
  ASSUME NEW sections, NEW D, IsFiniteSet(D),
         \A i \in D : sections[i].score \in Int
  PROVE  \E g : g = [s \in SUBSET D |-> SumStep(g, sections, s)]
<1> DEFINE Upto(g, n) == \A s \in SUBSET D :
             Cardinality(s) <= n => g[s] = SumStep(g, sections, s)
           Missing == {n \in Nat : ~ \E g \in [SUBSET D -> Int] : Upto(g, n)}
<1>1. \A s \in SUBSET D : IsFiniteSet(s) /\ Cardinality(s) \in 0 .. Cardinality(D)
  BY FS_Subset, FS_CardinalityType
<1>2. Cardinality(D) \in Nat
  BY FS_CardinalityType
<1>3. ASSUME NEW s \in SUBSET D, s # {}
      PROVE  LET i == CHOOSE j \in s : TRUE
             IN  i \in s /\ Cardinality(s \ {i}) = Cardinality(s) - 1
  BY <1>1, <1>3, FS_RemoveElement
<1>4. 0 \notin Missing
  <2> DEFINE g == [s \in SUBSET D |-> 0]
  <2>1. ASSUME NEW s \in SUBSET D, Cardinality(s) <= 0
        PROVE  s = {}
    BY <1>1, <2>1, FS_EmptySet
  <2>2. g \in [SUBSET D -> Int] /\ Upto(g, 0)
    BY <2>1 DEF SumStep
  <2> QED
    BY <2>2
<1>5. ASSUME NEW n \in Nat, NEW g \in [SUBSET D -> Int], Upto(g, n)
      PROVE  \E h \in [SUBSET D -> Int] : Upto(h, n + 1)
  <2> DEFINE h == [s \in SUBSET D |-> IF Cardinality(s) <= n THEN g[s]
                                      ELSE SumStep(g, sections, s)]
  <2>1. ASSUME NEW s \in SUBSET D
        PROVE  SumStep(g, sections, s) \in Int
    BY <1>3 DEF SumStep
  <2>2. h \in [SUBSET D -> Int]
    BY <2>1
  <2>3. ASSUME NEW s \in SUBSET D, Cardinality(s) <= n + 1
        PROVE  SumStep(h, sections, s) = SumStep(g, sections, s)
    <3>1. CASE s = {}
      BY <3>1 DEF SumStep
    <3>2. CASE s # {}
      <4> PICK i : i = CHOOSE j \in s : TRUE
        OBVIOUS
      <4>1. s \ {i} \in SUBSET D /\ Cardinality(s \ {i}) <= n
        BY <1>1, <1>3, <2>3, <3>2
      <4>2. h[s \ {i}] = g[s \ {i}]
        BY <4>1
      <4> HIDE DEF h
      <4> QED
        BY <3>2, <4>2 DEF SumStep
    <3> QED
      BY <3>1, <3>2
  <2>4. Upto(h, n + 1)
    BY <1>1, <1>5, <2>3
  <2> QED
    BY <2>2, <2>4
<1> HIDE DEF Upto
<1>6. Missing = {}
  <2> SUFFICES ASSUME Missing # {}
               PROVE  FALSE
    OBVIOUS
  <2>1. PICK n \in Missing : \A m \in Missing : n <= m
    <3>1. Missing \in SUBSET Nat
      OBVIOUS
    <3> HIDE DEF Missing
    <3> QED
      BY <3>1, LeastNatural
  <2>2. n \in Nat /\ n # 0 /\ n - 1 \in Nat /\ n - 1 \notin Missing
    <3>1. n \in Nat
      OBVIOUS
    <3> HIDE DEF Missing
    <3> QED
      BY <1>4, <2>1, <3>1
  <2>3. PICK g \in [SUBSET D -> Int] : Upto(g, n - 1)
    BY <2>2
  <2>4. (n - 1) + 1 = n
    BY <2>2
  <2>5. \E h \in [SUBSET D -> Int] : Upto(h, n)
    BY <1>5, <2>2, <2>3, <2>4
  <2> QED
    BY <2>1, <2>5
<1>7. PICK g \in [SUBSET D -> Int] : Upto(g, Cardinality(D))
  BY <1>2, <1>6
<1>8. \A s \in SUBSET D : g[s] = SumStep(g, sections, s)
  BY <1>1, <1>7 DEF Upto
<1>9. g = [s \in SUBSET D |-> SumStep(g, sections, s)]
  BY <1>8
<1> QED
  BY <1>9

(* Sums of scores up to 100 are bounded: a least set of places that broke  *)
(* the bound would be without the place taken first a smaller one.         *)
LEMMA FoldBounded ==
  ASSUME NEW sections, NEW D, IsFiniteSet(D),
         \A i \in D : sections[i].score \in 0 .. 100,
         NEW g, g = [s \in SUBSET D |-> SumStep(g, sections, s)]
  PROVE  g[D] \in 0 .. 100 * Cardinality(D)
<1> DEFINE Over == {n \in Nat : \E s \in SUBSET D :
                      Cardinality(s) = n /\ g[s] \notin 0 .. 100 * n}
<1>1. \A s \in SUBSET D : IsFiniteSet(s) /\ Cardinality(s) \in Nat
  BY FS_Subset, FS_CardinalityType
<1>2. \A s \in SUBSET D : g[s] = SumStep(g, sections, s)
  <2> PICK h : h = [s \in SUBSET D |-> SumStep(g, sections, s)]
    OBVIOUS
  <2>1. \A s \in SUBSET D : h[s] = SumStep(g, sections, s)
    OBVIOUS
  <2>2. g = h
    OBVIOUS
  <2> QED
    BY <2>1, <2>2
<1>3. Over = {}
  <2> SUFFICES ASSUME Over # {}
               PROVE  FALSE
    OBVIOUS
  <2>1. PICK n \in Over : \A m \in Over : n <= m
    <3>1. Over \in SUBSET Nat
      OBVIOUS
    <3> HIDE DEF Over
    <3> QED
      BY <3>1, LeastNatural
  <2>2. PICK s \in SUBSET D : Cardinality(s) = n /\ g[s] \notin 0 .. 100 * n
    OBVIOUS
  <2>3. s # {}
    <3> SUFFICES ASSUME s = {}
                 PROVE  FALSE
      OBVIOUS
    <3>1. n = 0 /\ g[s] = 0
      BY <1>2, <2>2, FS_EmptySet DEF SumStep
    <3> QED
      BY <2>2, <3>1
  <2> PICK i : i = CHOOSE j \in s : TRUE
    OBVIOUS
  <2> DEFINE t == s \ {i}
  <2>4. i \in s /\ t \in SUBSET D
    BY <2>3
  <2>5. n \in Nat /\ Cardinality(t) = n - 1 /\ n - 1 \in Nat
    <3>1. Cardinality(t) = Cardinality(s) - 1
      BY <1>1, <2>4, FS_RemoveElement
    <3>2. Cardinality(t) \in Nat
      BY <1>1, <2>4
    <3> QED
      BY <2>2, <3>1, <3>2
  <2>6. g[s] = g[t] + sections[i].score
    BY <1>2, <2>3 DEF SumStep
  <2>7. n - 1 \notin Over
    <3> HIDE DEF Over
    <3> QED
      BY <2>1, <2>5
  <2>8. g[t] \in 0 .. 100 * (n - 1)
    BY <2>4, <2>5, <2>7
  <2> QED
    BY <2>2, <2>4, <2>5, <2>6, <2>8
<1> QED
  BY <1>1, <1>3

(* A mean is no more than what bounds each.                                *)
LEMMA MeanBounded ==
  ASSUME NEW n \in Nat \ {0}, NEW x \in 0 .. 100 * n
  PROVE  x \div n \in 0 .. 100
OBVIOUS

(* A report that can be scored has a score from 0 to 100.                  *)
LEMMA InspectionScored ==
  ASSUME NEW sections \in Seq(SectionType), Scorable(sections)
  PROVE  CalculateInspection(sections) \in 0 .. 100
<1> DEFINE D == DOMAIN sections
           n == Len(sections)
           F(g) == g = [s \in SUBSET D |-> SumStep(g, sections, s)]
           fold == CHOOSE g : F(g)
<1>1. n \in Nat \ {0} /\ D = 1 .. n
  BY DEF Scorable
<1>2. IsFiniteSet(D) /\ Cardinality(D) = n
  <2>1. 1 \in Int /\ n \in Int
    BY <1>1
  <2> QED
    BY <1>1, <2>1, FS_Interval
<1>3. \A i \in D : sections[i].score \in 0 .. 100
  BY DEF Scorable
<1>4. \E g : F(g)
  <2>1. ASSUME NEW i \in D
        PROVE  sections[i].score \in Int
    <3>1. sections[i].score \in 0 .. 100
      BY <1>3
    <3>2. \A x \in 0 .. 100 : x \in Int
      OBVIOUS
    <3> QED
      BY <3>1, <3>2, Zenon
  <2> HIDE DEF D
  <2>2. \E g : g = [s \in SUBSET D |-> SumStep(g, sections, s)]
    BY <1>2, <2>1, FoldExists, Zenon
  <2> QED
    BY <2>2, Zenon
<1>5. F(fold)
  BY <1>4, Zenon
<1>6. CalculateInspection(sections) = fold[D] \div n
  BY FoldOfScores, Zenon DEF CalculateInspection
<1> HIDE DEF fold, D, n
<1>7. fold[D] \in 0 .. 100 * n
  BY <1>2, <1>3, <1>5, FoldBounded
<1> QED
  BY <1>1, <1>6, <1>7, MeanBounded

-----------------------------------------------------------------------------
(* Catalogues and campaigns.                                               *)

(* What was checked of a list of listings before it was published.         *)
Checked(id, listings) ==
  \A i \in DOMAIN listings :
    /\ listings[i].store = id
    /\ listings[i].traced
    /\ ValidateListingPrices(listings[i])

ListingInv ==
  /\ calls = [c \in Clients |-> calls[c]]
  /\ \A c \in Clients :
       calls[c].op = "publish" =>
         /\ calls[c].value.listings \in ListingLists
         /\ Checked(calls[c].id, calls[c].value.listings)
  /\ \A id \in DOMAIN catalogs :
       /\ catalogs[id].listings \in ListingLists
       /\ Checked(id, catalogs[id].listings)
  /\ FeaturedIsChecked

(* The listing that counts for a SKU is one of the list.                   *)
LEMMA SkuListed ==
  ASSUME NEW S, NEW listings \in Seq(S), NEW sku \in DOMAIN BySku(listings)
  PROVE  \E i \in DOMAIN listings : BySku(listings)[sku] = listings[i]
<1> DEFINE places == {i \in DOMAIN listings : listings[i].sku = sku}
<1>1. sku \in {listings[i].sku : i \in DOMAIN listings}
  BY DEF BySku
<1>2. places # {} /\ places \in SUBSET (1 .. Len(listings)) /\ Len(listings) \in Nat
  BY <1>1
<1>3. BySku(listings)[sku] = listings[Max(places)]
  BY <1>1 DEF BySku
<1>4. Max(places) \in places
  <2> HIDE DEF places
  <2> QED
    BY <1>2, LastPlace
<1> QED
  BY <1>3, <1>4

(* Prices no more than five percent apart, as the property puts it.        *)
LEMMA PricesApart ==
  ASSUME NEW listing \in ListingType, ValidateListingPrices(listing)
  PROVE  listing.online * 100 \in 95 * listing.price .. 105 * listing.price
<1>1. listing.online \in Int /\ listing.price \in Int
  BY DEF ListingType
<1> QED
  BY <1>1 DEF ValidateListingPrices

(* A step that only begins or ends a call: one that will publish holds     *)
(* listings that were checked.                                             *)
LEMMA ListingKept ==
  ASSUME ListingInv, NEW c \in Clients, NEW call,
         UNCHANGED <<catalogs, launched>>,
         calls' = [calls EXCEPT ![c] = call],
         call.op = "publish" => /\ call.value.listings \in ListingLists
                                /\ Checked(call.id, call.value.listings)
  PROVE  ListingInv'
<1>1. calls' = [d \in Clients |-> IF d = c THEN call ELSE calls[d]]
  BY DEF ListingInv
<1> QED
  BY <1>1 DEF ListingInv, FeaturedIsChecked

(* The catalogue published is the one that was checked.                    *)
LEMMA ListingPublished ==
  ASSUME ListingInv, NEW c \in Clients, PublishCatalog(c)
  PROVE  ListingInv'
<1> PICK call : call = calls[c]
  OBVIOUS
<1>1. /\ call.value.listings \in ListingLists
      /\ Checked(call.id, call.value.listings)
      /\ catalogs' = Put(catalogs, call.id, call.value)
      /\ calls' = [calls EXCEPT ![c] = None]
      /\ launched' = launched
  BY DEF PublishCatalog, ListingInv, history
<1>2. calls' = [d \in Clients |-> IF d = c THEN None ELSE calls[d]]
  BY <1>1 DEF ListingInv
<1>3. ASSUME NEW id \in DOMAIN catalogs'
      PROVE  /\ catalogs'[id].listings \in ListingLists
             /\ Checked(id, catalogs'[id].listings)
  BY <1>1 DEF ListingInv, Put
<1> QED
  BY <1>1, <1>2, <1>3 DEF ListingInv, FeaturedIsChecked, None

(* A campaign takes its listings out of a catalogue that was checked.      *)
LEMMA ListingLaunched ==
  ASSUME ConstantsOK, ListingInv, NEW store \in Profiles, NEW license,
         NEW featured, NEW destinations,
         LaunchCampaign(store, license, featured, destinations)
  PROVE  ListingInv'
<1> PICK id, listings : id = store.id /\ listings = catalogs[id].listings
  OBVIOUS
<1>1. /\ id \in DOMAIN catalogs
      /\ featured \subseteq DOMAIN BySku(listings)
      /\ launched' = launched \cup
           {[store |-> id, listing |-> BySku(listings)[sku]] : sku \in featured}
      /\ UNCHANGED <<catalogs, calls>>
  BY DEF LaunchCampaign, ValidateCampaign, registry
<1>2. listings \in Seq(ListingType) /\ Checked(id, listings)
  BY <1>1 DEF ListingInv, ConstantsOK
<1>3. ASSUME NEW sku \in featured
      PROVE  LET listing == BySku(listings)[sku] IN
               /\ listing.store = id
               /\ listing.traced
               /\ listing.online * 100 \in 95 * listing.price .. 105 * listing.price
  <2>1. PICK i \in DOMAIN listings : BySku(listings)[sku] = listings[i]
    BY <1>1, <1>2, SkuListed
  <2>2. listings[i] \in ListingType
    BY <1>2
  <2> QED
    BY <1>2, <2>1, <2>2, PricesApart DEF Checked
<1>4. FeaturedIsChecked'
  BY <1>1, <1>3 DEF ListingInv, FeaturedIsChecked
<1> QED
  BY <1>1, <1>4 DEF ListingInv

(* Every listing a campaign was launched with had been checked, whatever   *)
(* publications raced before it, for every list of listings.               *)
THEOREM FeaturedWereChecked == Spec => []FeaturedIsChecked
<1>1. Init => ListingInv
  BY DEF Init, ListingInv, FeaturedIsChecked, Empty, None
<1>2. ListingInv /\ [Next]_vars => ListingInv'
  <2> SUFFICES ASSUME ListingInv, [Next]_vars
               PROVE  ListingInv'
    OBVIOUS
  <2>1. ASSUME NEW c \in Clients, NEW call, call.op # "publish",
               calls' = [calls EXCEPT ![c] = call],
               UNCHANGED <<catalogs, launched>>
        PROVE  ListingInv'
    BY <2>1, ListingKept
  <2>2. ASSUME NEW c \in Clients, NEW store \in Profiles, NEW terms \in Terms,
               NEW listings \in ListingLists,
               PublishStoreCatalog(c, store, Presented(terms, TRUE, 0), listings)
        PROVE  ListingInv'
    <3> PICK call : call = SaveCall("publish", store.id,
                                    [listings |-> listings, at |-> now], 0)
      OBVIOUS
    <3>1. /\ calls' = [calls EXCEPT ![c] = call]
          /\ UNCHANGED <<catalogs, launched>>
      BY <2>2 DEF PublishStoreCatalog, registry, history
    <3>2. call.value.listings = listings /\ call.id = store.id
      BY DEF SaveCall
    <3>3. Checked(store.id, listings)
      BY <2>2 DEF PublishStoreCatalog, Publishable, Checked
    <3> QED
      BY <3>1, <3>2, <3>3, ListingKept
  <2>3. ASSUME NEW c \in Clients, NEW id \in LicenseIds, NEW store \in Profiles,
               NEW terms \in Terms, NEW clean \in BOOLEAN,
               NEW version \in Versions,
               ActivateLicense(c, id, Presented(terms, clean, version), store)
        PROVE  ListingInv'
    BY <2>1, <2>3 DEF ActivateLicense, SaveCall, registry, history
  <2>4. ASSUME NEW c \in Clients, NEW id \in LicenseIds, NEW store \in Profiles,
               NEW extension \in Extensions,
               RenewLicense(c, id, store, extension)
        PROVE  ListingInv'
    BY <2>1, <2>4 DEF RenewLicense, SaveCall, registry, history
  <2>5. ASSUME NEW c \in Clients, NEW id \in LicenseIds,
               NEW status \in {"active", "suspended"}, NEW clean \in BOOLEAN,
               AmendLicense(c, id, status, clean)
        PROVE  ListingInv'
    BY <2>1, <2>5 DEF AmendLicense, SaveCall, registry, history
  <2>6. ASSUME NEW c \in Clients, NEW id \in InspectionIds,
               NEW sections \in Reports, NEW version \in Versions,
               CompleteInspection(c, id, sections, version)
        PROVE  ListingInv'
    BY <2>1, <2>6 DEF CompleteInspection, SaveCall, registry, history
  <2>7. ASSUME NEW c \in Clients,
               SaveLicense(c) \/ SaveInspection(c) \/ CallFails(c)
        PROVE  ListingInv'
    <3>1. /\ calls' = [calls EXCEPT ![c] = None]
          /\ UNCHANGED <<catalogs, launched>>
      BY <2>7 DEF SaveLicense, SaveInspection, CallFails, registry, history
    <3> QED
      BY <2>1, <3>1 DEF None
  <2>8. CASE UNCHANGED <<catalogs, launched, calls>>
    BY <2>8 DEF ListingInv, FeaturedIsChecked
  <2>9. ASSUME \/ Tick
               \/ \E c \in Clients, store \in StoreIds : AcknowledgeRecall(c, store)
               \/ \E c \in Clients : CloseRecall(c)
               \/ \E c, d \in Clients : HandOver(c, d)
               \/ UNCHANGED vars
        PROVE  UNCHANGED <<catalogs, launched, calls>>
    BY <2>9 DEF Tick, AcknowledgeRecall, CloseRecall, HandOver, vars, registry,
                history
  <2> QED
    BY <2>2, <2>3, <2>4, <2>5, <2>6, <2>7, <2>8, <2>9, ListingPublished,
       ListingLaunched, ConstantsOK DEF Next
<1>3. ListingInv => FeaturedIsChecked
  BY DEF ListingInv
<1> QED
  BY <1>1, <1>2, <1>3, PTL DEF Spec

-----------------------------------------------------------------------------
(* Types.                                                                  *)

(* What a call holds, by its kind.                                         *)
CallTyped(call) ==
  \/ call = None
  \/ call \in Call({"activate", "amend"}, LicenseIds, Licenses, {0})
  \/ call \in Call({"renew"}, LicenseIds, Licenses, Extensions)
  \/ call \in Call({"complete"}, InspectionIds, Completions, {0})
  \/ call \in Call({"publish"}, StoreIds, Catalogs, {0})

TypeInv == TypeOK /\ LicenseInv

(* Whatever a client's call is, it is typed.                               *)
LEMMA TypedCalls ==
  ASSUME TypeInv, NEW c \in Clients
  PROVE  CallTyped(calls[c])
  BY DEF TypeInv, TypeOK, CallTyped, Idle

(* A step that only begins a call keeps the types when the call has its.   *)
LEMMA TypeKept ==
  ASSUME TypeInv, NEW c \in Clients, NEW call, CallTyped(call),
         UNCHANGED <<now, registry, history, recalls>>,
         calls' = [calls EXCEPT ![c] = call]
  PROVE  TypeOK'
<1>1. \A d \in Clients : CallTyped(calls'[d])
  <2>1. calls' = [d \in Clients |-> IF d = c THEN call ELSE calls[d]]
    BY DEF TypeInv, LicenseInv
  <2> QED
    BY <2>1, TypedCalls
<1> QED
  BY <1>1 DEF TypeInv, TypeOK, CallTyped, Idle, registry, history, IsMap

(* A step that ends a call leaves the others typed.                        *)
LEMMA CallEnds ==
  ASSUME TypeInv, NEW c \in Clients, calls' = [calls EXCEPT ![c] = None]
  PROVE  \A d \in Clients : CallTyped(calls'[d])
<1>1. calls' = [d \in Clients |-> IF d = c THEN None ELSE calls[d]]
  BY DEF TypeInv, LicenseInv
<1> QED
  BY <1>1, TypedCalls DEF CallTyped

(* An entry put into a map of its kind.                                    *)
LEMMA PutTyped ==
  ASSUME NEW map, NEW ids, NEW entries, IsMap(map, ids, entries),
         NEW id \in ids, NEW value \in entries
  PROVE  IsMap(Put(map, id, value), ids, entries)
  BY DEF IsMap, Put

(* The steps that read and check, and begin a call, or give one up.        *)
LEMMA TypeBegins ==
  ASSUME ConstantsOK, TypeInv, NEW c \in Clients,
         \/ \E id \in LicenseIds, store \in Profiles, terms \in Terms,
               clean \in BOOLEAN, version \in Versions :
              ActivateLicense(c, id, Presented(terms, clean, version), store)
         \/ \E id \in LicenseIds, store \in Profiles, extension \in Extensions :
              RenewLicense(c, id, store, extension)
         \/ \E id \in LicenseIds, status \in {"active", "suspended"},
               clean \in BOOLEAN : AmendLicense(c, id, status, clean)
         \/ \E id \in InspectionIds, sections \in Reports, version \in Versions :
              CompleteInspection(c, id, sections, version)
         \/ \E store \in Profiles, terms \in Terms, listings \in ListingLists :
              PublishStoreCatalog(c, store, Presented(terms, TRUE, 0), listings)
         \/ CallFails(c)
  PROVE  TypeOK'
<1>1. ASSUME NEW id \in LicenseIds, NEW store \in Profiles, NEW terms \in Terms,
             NEW clean \in BOOLEAN, NEW version \in Versions,
             ActivateLicense(c, id, Presented(terms, clean, version), store)
      PROVE  TypeOK'
  <2> DEFINE license == Presented(terms, clean, version)
             call == SaveCall("activate", id, license, 0)
  <2>1. license \in Licenses
    BY DEF Presented, Licenses, Versions, ConstantsOK, TermsType
  <2> HIDE DEF license
  <2>2. CallTyped(call)
    BY <2>1 DEF CallTyped, Call, SaveCall
  <2>3. /\ UNCHANGED <<now, registry, history, recalls>>
        /\ calls' = [calls EXCEPT ![c] = call]
    BY <1>1 DEF ActivateLicense, license
  <2> QED
    BY <2>2, <2>3, TypeKept
<1>2. ASSUME NEW id \in LicenseIds, NEW store \in Profiles,
             NEW extension \in Extensions, RenewLicense(c, id, store, extension)
      PROVE  TypeOK'
  <2> DEFINE license == [licenses[id] EXCEPT !.to = @ + extension]
             call == SaveCall("renew", id, license, extension)
  <2>1. /\ licenses[id] \in Licenses
        /\ extension \in Int /\ extension > 0
    BY <1>2 DEF RenewLicense, TypeInv, TypeOK, IsMap, ConstantsOK
  <2>2. license \in Licenses
    <3>1. licenses[id].to + extension \in Nat
      BY <2>1, LicenseFields
    <3> QED
      BY <2>1, <3>1 DEF Licenses
  <2> HIDE DEF license
  <2>3. CallTyped(call)
    BY <2>2 DEF CallTyped, Call, SaveCall
  <2>4. /\ UNCHANGED <<now, registry, history, recalls>>
        /\ calls' = [calls EXCEPT ![c] = call]
    BY <1>2 DEF RenewLicense, license
  <2> QED
    BY <2>3, <2>4, TypeKept
<1>3. ASSUME NEW id \in LicenseIds, NEW status \in {"active", "suspended"},
             NEW clean \in BOOLEAN, AmendLicense(c, id, status, clean)
      PROVE  TypeOK'
  <2> DEFINE license == [licenses[id] EXCEPT !.status = status, !.clean = clean]
             call == SaveCall("amend", id, license, 0)
  <2>1. license \in Licenses
    BY <1>3 DEF AmendLicense, TypeInv, TypeOK, IsMap, Licenses
  <2> HIDE DEF license
  <2>2. CallTyped(call)
    BY <2>1 DEF CallTyped, Call, SaveCall
  <2>3. /\ UNCHANGED <<now, registry, history, recalls>>
        /\ calls' = [calls EXCEPT ![c] = call]
    BY <1>3 DEF AmendLicense, license
  <2> QED
    BY <2>2, <2>3, TypeKept
<1>4. ASSUME NEW id \in InspectionIds, NEW sections \in Reports,
             NEW version \in Versions,
             CompleteInspection(c, id, sections, version)
      PROVE  TypeOK'
  <2> DEFINE score == CalculateInspection(sections)
             value == [score |-> score, passed |-> score >= PassScore,
                       version |-> version]
             call == SaveCall("complete", id, value, 0)
  <2>1. score \in 0 .. 100
    BY <1>4, InspectionScored DEF CompleteInspection, ConstantsOK
  <2>2. version \in 0 .. MaxVersion
    BY DEF Versions, ConstantsOK
  <2>3. /\ UNCHANGED <<now, registry, history, recalls>>
        /\ calls' = [calls EXCEPT ![c] = call]
    BY <1>4 DEF CompleteInspection
  <2> HIDE DEF score
  <2>4. value \in Completions
    BY <2>1, <2>2 DEF Completions
  <2> HIDE DEF value
  <2>5. CallTyped(call)
    BY <2>4 DEF CallTyped, Call, SaveCall
  <2> QED
    BY <2>3, <2>5, TypeKept
<1>5. ASSUME NEW store \in Profiles, NEW terms \in Terms,
             NEW listings \in ListingLists,
             PublishStoreCatalog(c, store, Presented(terms, TRUE, 0), listings)
      PROVE  TypeOK'
  <2> DEFINE value == [listings |-> listings, at |-> now]
             call == SaveCall("publish", store.id, value, 0)
  <2>1. value \in Catalogs /\ store.id \in StoreIds
    BY DEF TypeInv, TypeOK, Catalogs, ConstantsOK, ProfileType
  <2>2. /\ UNCHANGED <<now, registry, history, recalls>>
        /\ calls' = [calls EXCEPT ![c] = call]
    BY <1>5 DEF PublishStoreCatalog
  <2> HIDE DEF value
  <2>3. CallTyped(call)
    BY <2>1 DEF CallTyped, Call, SaveCall
  <2> QED
    BY <2>2, <2>3, TypeKept
<1>6. CASE CallFails(c)
  <2>1. CallTyped(None)
    BY DEF CallTyped
  <2> QED
    BY <1>6, <2>1, TypeKept DEF CallFails
<1> QED
  BY <1>1, <1>2, <1>3, <1>4, <1>5, <1>6

(* A saved licence has its types, and what was added to it.                *)
LEMMA TypeSavesLicense ==
  ASSUME ConstantsOK, TypeInv, NEW c \in Clients, SaveLicense(c)
  PROVE  TypeOK'
<1> PICK call : call = calls[c]
  OBVIOUS
<1> PICK saved : saved = [call.value EXCEPT !.version = @ + 1]
  OBVIOUS
<1> PICK added : added = Added(extended, call)
  OBVIOUS
<1>1. /\ call.id \in LicenseIds /\ saved \in Licenses /\ added \in Nat
      /\ licenses' = Put(licenses, call.id, saved)
      /\ extended' = Put(extended, call.id, added)
      /\ calls' = [calls EXCEPT ![c] = None]
  BY SavedLicense DEF TypeInv, LicenseCall
<1>2. UNCHANGED <<now, inspections, catalogs, results, launched, confirmed,
                  recalls>>
  BY DEF SaveLicense
<1>3. \A d \in Clients : CallTyped(calls'[d])
  BY <1>1, CallEnds
<1>4. /\ IsMap(licenses', LicenseIds, Licenses)
      /\ DOMAIN licenses' = DOMAIN licenses \cup {call.id}
  <2>1. IsMap(licenses, LicenseIds, Licenses)
    BY DEF TypeInv, TypeOK
  <2>2. call.id \in LicenseIds /\ saved \in Licenses
    BY <1>1
  <2>3. IsMap(Put(licenses, call.id, saved), LicenseIds, Licenses)
    BY <2>1, <2>2, PutTyped
  <2>4. /\ licenses' = Put(licenses, call.id, saved)
        /\ DOMAIN licenses' = DOMAIN licenses \cup {call.id}
    BY <1>1 DEF Put
  <2> QED
    BY <2>3, <2>4
<1>5. /\ DOMAIN extended' = DOMAIN licenses'
      /\ \A id \in DOMAIN extended' : extended'[id] \in Nat
  BY <1>1, <1>4 DEF TypeInv, TypeOK, Put
<1> QED
  BY <1>2, <1>3, <1>4, <1>5 DEF TypeInv, TypeOK, CallTyped, Idle

(* So has a saved inspection, and the list of its answers.                 *)
LEMMA TypeSavesInspection ==
  ASSUME ConstantsOK, TypeInv, NEW c \in Clients, SaveInspection(c)
  PROVE  TypeOK'
<1> PICK call : call = calls[c]
  OBVIOUS
<1> PICK saved : saved = [call.value EXCEPT !.version = @ + 1]
  OBVIOUS
<1> PICK prior : prior = Answers(call.id)
  OBVIOUS
<1>1. /\ call.op = "complete" /\ call.value.version < MaxVersion
      /\ inspections' = Put(inspections, call.id, saved)
      /\ results' = Put(results, call.id, Append(prior, saved))
      /\ calls' = [calls EXCEPT ![c] = None]
      /\ UNCHANGED <<now, licenses, catalogs, extended, launched, confirmed,
                     recalls>>
  BY DEF SaveInspection
<1>2. call.id \in InspectionIds /\ call.value \in Completions
  BY <1>1, TypedCalls DEF CallTyped, Call, None
<1>3. saved \in Completions
  <2>1. call.value.version + 1 \in 0 .. MaxVersion
    BY <1>1, <1>2 DEF Completions, ConstantsOK
  <2> QED
    BY <1>2, <2>1 DEF Completions
<1>4. prior \in Seq(Completions)
  BY DEF TypeInv, TypeOK, Answers
<1>5. Append(prior, saved) \in Seq(Completions)
  BY <1>3, <1>4
<1>6. \A d \in Clients : CallTyped(calls'[d])
  BY <1>1, CallEnds
<1>7. /\ IsMap(inspections', InspectionIds, Completions)
      /\ DOMAIN inspections' = DOMAIN inspections \cup {call.id}
  <2>1. IsMap(inspections, InspectionIds, Completions)
    BY DEF TypeInv, TypeOK
  <2>2. call.id \in InspectionIds
    BY <1>2
  <2>3. IsMap(Put(inspections, call.id, saved), InspectionIds, Completions)
    BY <1>3, <2>1, <2>2, PutTyped
  <2>4. /\ inspections' = Put(inspections, call.id, saved)
        /\ DOMAIN inspections' = DOMAIN inspections \cup {call.id}
    BY <1>1 DEF Put
  <2> QED
    BY <2>3, <2>4
<1> PICK answers : answers = Append(prior, saved)
  OBVIOUS
<1>8. /\ DOMAIN results' = DOMAIN inspections'
      /\ \A id \in DOMAIN results' : results'[id] \in Seq(Completions)
  <2>1. answers \in Seq(Completions) /\ results' = Put(results, call.id, answers)
    BY <1>1, <1>5
  <2> QED
    BY <1>7, <2>1 DEF TypeInv, TypeOK, Put
<1> QED
  BY <1>1, <1>6, <1>7, <1>8 DEF TypeInv, TypeOK, CallTyped, Idle

(* And a catalogue that replaces another.                                  *)
LEMMA TypePublishes ==
  ASSUME TypeInv, NEW c \in Clients, PublishCatalog(c)
  PROVE  TypeOK'
<1> PICK call : call = calls[c]
  OBVIOUS
<1>1. /\ call.op = "publish"
      /\ catalogs' = Put(catalogs, call.id, call.value)
      /\ calls' = [calls EXCEPT ![c] = None]
      /\ UNCHANGED <<now, licenses, inspections, history, recalls>>
  BY DEF PublishCatalog
<1>2. call.id \in StoreIds /\ call.value \in Catalogs
  BY <1>1, TypedCalls DEF CallTyped, Call, None
<1>3. IsMap(catalogs', StoreIds, Catalogs)
  BY <1>1, <1>2, PutTyped DEF TypeInv, TypeOK
<1>4. \A d \in Clients : CallTyped(calls'[d])
  BY <1>1, CallEnds
<1> QED
  BY <1>1, <1>3, <1>4 DEF TypeInv, TypeOK, CallTyped, Idle, history

(* A campaign features listings of the catalogue of a store.               *)
LEMMA TypeLaunches ==
  ASSUME ConstantsOK, TypeInv, NEW store \in Profiles, NEW license,
         NEW featured, NEW destinations,
         LaunchCampaign(store, license, featured, destinations)
  PROVE  TypeOK'
<1> PICK id, listings : id = store.id /\ listings = catalogs[id].listings
  OBVIOUS
<1>1. /\ id \in DOMAIN catalogs
      /\ featured \subseteq DOMAIN BySku(listings)
      /\ launched' = launched \cup
           {[store |-> id, listing |-> BySku(listings)[sku]] : sku \in featured}
      /\ UNCHANGED <<now, registry, calls, extended, results, recalls, confirmed>>
  BY DEF LaunchCampaign, ValidateCampaign
<1>2. id \in StoreIds /\ listings \in Seq(ListingType)
  BY <1>1 DEF TypeInv, TypeOK, IsMap, Catalogs, ConstantsOK, ProfileType
<1>3. ASSUME NEW sku \in featured
      PROVE  BySku(listings)[sku] \in ListingType
  <2>1. PICK i \in DOMAIN listings : BySku(listings)[sku] = listings[i]
    BY <1>1, <1>2, SkuListed
  <2> QED
    BY <1>2, <2>1
<1>4. launched' \subseteq [store : StoreIds, listing : ListingType]
  BY <1>1, <1>2, <1>3 DEF TypeInv, TypeOK
<1> QED
  BY <1>1, <1>4 DEF TypeInv, TypeOK, Idle, registry

(* The copies of the recall.                                               *)
LEMMA TypeRecalls ==
  ASSUME TypeInv,
         \/ \E c \in Clients, store \in StoreIds : AcknowledgeRecall(c, store)
         \/ \E c \in Clients : CloseRecall(c)
         \/ \E c, d \in Clients : HandOver(c, d)
  PROVE  TypeOK'
<1>1. recalls \in [Clients -> Recalls] /\ confirmed \subseteq StoreIds
  BY DEF TypeInv, TypeOK
<1>2. ASSUME NEW c \in Clients, NEW store \in StoreIds,
             AcknowledgeRecall(c, store)
      PROVE  TypeOK'
  <2> PICK s : s = Append(recalls[c].acknowledged, store)
    OBVIOUS
  <2>1. recalls[c].acknowledged \in Seq(StoreIds)
    BY <1>1 DEF Recalls
  <2>2. s \in Seq(StoreIds)
    BY <2>1
  <2>3. /\ recalls' = [recalls EXCEPT ![c].acknowledged = s]
        /\ confirmed' = confirmed \cup {store}
        /\ UNCHANGED <<now, registry, calls, extended, results, launched>>
    BY <1>2 DEF AcknowledgeRecall
  <2>4. recalls' \in [Clients -> Recalls] /\ confirmed' \subseteq StoreIds
    BY <1>1, <2>2, <2>3 DEF Recalls
  <2> QED
    BY <2>3, <2>4 DEF TypeInv, TypeOK, Idle, registry
<1>3. ASSUME NEW c \in Clients, CloseRecall(c)
      PROVE  TypeOK'
  <2>1. recalls' \in [Clients -> Recalls]
    BY <1>1, <1>3 DEF CloseRecall, Recalls
  <2> QED
    BY <1>3, <2>1 DEF CloseRecall, TypeInv, TypeOK, Idle, registry, history
<1>4. ASSUME NEW c \in Clients, NEW d \in Clients, HandOver(c, d)
      PROVE  TypeOK'
  <2>1. recalls' \in [Clients -> Recalls]
    BY <1>1, <1>4 DEF HandOver
  <2> QED
    BY <1>4, <2>1 DEF HandOver, TypeInv, TypeOK, Idle, registry, history
<1> QED
  BY <1>2, <1>3, <1>4

(* The types of the variables, for every number of callers, licences,      *)
(* inspections, stores and listings: among them, that a score kept is      *)
(* between nought and a hundred (CalculateInspection).                     *)
THEOREM HubKeepsItsTypes == Spec => []TypeOK
<1> USE ConstantsOK
<1>1. Init => TypeOK
  BY DEF Init, TypeOK, IsMap, Empty, Idle, Recalls, Issued
<1>2. TypeOK /\ LicenseInv /\ [Next]_vars => TypeOK'
  <2> SUFFICES ASSUME TypeInv, [Next]_vars
               PROVE  TypeOK'
    BY DEF TypeInv
  <2>1. CASE Tick
    BY <2>1 DEF Tick, TypeInv, TypeOK, Idle, registry, history
  <2>2. CASE UNCHANGED vars
    BY <2>2 DEF vars, TypeInv, TypeOK, Idle, registry, history
  <2> QED
    BY <2>1, <2>2, TypeBegins, TypeSavesLicense, TypeSavesInspection,
       TypePublishes, TypeLaunches, TypeRecalls DEF Next
<1> QED
  BY <1>1, <1>2, LicenseInvariant, PTL DEF Spec
=============================================================================
