---------------------------- MODULE LicenseBook ----------------------------
(***************************************************************************)
(* What the registry of brand licences promises its callers: a licence is  *)
(* granted, amended and renewed one whole step at a time.  A renewal adds  *)
(* its extension to the end of the licence as it stands, whatever else is  *)
(* asked for meanwhile, and every change takes the next version.           *)
(***************************************************************************)
EXTENDS Integers

CONSTANTS
  LicenseIds,
  Extensions,   (* what a renewal may add                                  *)
  MaxVersion    (* bound: versions of a licence                            *)

VARIABLES
  licenses,     (* id -> [terms, to, status, clean, version]               *)
  extended      (* id -> what renewals added since the licence was granted *)

vars == <<licenses, extended>>

Put(map, id, value) ==
  [k \in DOMAIN map \cup {id} |-> IF k = id THEN value ELSE map[k]]

Init ==
  /\ licenses = [id \in {} |-> 0]
  /\ extended = [id \in {} |-> 0]

(* The first version is the caller's choice, every other the next.         *)
Follows(id, version) ==
  IF id \in DOMAIN licenses THEN version = licenses[id].version + 1
                            ELSE version \in 1 .. MaxVersion

(* A licence with terms of the caller's takes the place of the present one.*)
Grant(id) ==
  /\ id \in DOMAIN licenses'
  /\ licenses'[id].status = "active"
  /\ Follows(id, licenses'[id].version)
  /\ licenses' = Put(licenses, id, licenses'[id])
  /\ extended' = Put(extended, id, 0)

Amend(id, status, clean) ==
  /\ id \in DOMAIN licenses
  /\ licenses' = [licenses EXCEPT ![id].status = status,
                                  ![id].clean = clean,
                                  ![id].version = @ + 1]
  /\ UNCHANGED extended

(* Only a licence in force and in good standing is renewed.                *)
Renew(id, extension) ==
  /\ id \in DOMAIN licenses
  /\ licenses[id].status = "active"
  /\ licenses[id].clean
  /\ licenses' = [licenses EXCEPT ![id].to = @ + extension,
                                  ![id].version = @ + 1]
  /\ extended' = [extended EXCEPT ![id] = @ + extension]

Next ==
  \E id \in LicenseIds :
    \/ Grant(id)
    \/ \E status \in {"active", "suspended"}, clean \in BOOLEAN :
         Amend(id, status, clean)
    \/ \E extension \in {e \in Extensions : e > 0} : Renew(id, extension)

Spec == Init /\ [][Next]_vars
=============================================================================
