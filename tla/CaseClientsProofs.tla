------------------------- MODULE CaseClientsProofs --------------------------
(***************************************************************************)
(* Proofs about the clients of CaseService that need many of its steps.    *)
(*                                                                         *)
(* An import is one more client, so every step is a step of the service as *)
(* anyone may take it (AnyonesStep), and what such steps never take back   *)
(* (Grown) is what these clients rest on: a reader finds the records its   *)
(* copy came from; the rows before an item in a list only get more; what   *)
(* an import reported stays registered.  Joined is the service that all of *)
(* it implements.                                                          *)
(***************************************************************************)
EXTENDS CaseClients, CaseServiceProofs, FiniteSetTheorems

-----------------------------------------------------------------------------
(* Rows in order.                                                          *)

(* In a finite set with a strict total order, given as the members ahead   *)
(* of each, the numbers of members ahead are 0, 1, ... without a gap.      *)
LEMMA RankBijective ==
  ASSUME NEW S, IsFiniteSet(S), NEW ahead \in [S -> SUBSET S],
         \A x \in S : x \notin ahead[x],
         \A x, y \in S : x = y \/ x \in ahead[y] \/ y \in ahead[x],
         \A x, y \in S : x \in ahead[y] => ahead[x] \subseteq ahead[y]
  PROVE  [x \in S |-> Cardinality(ahead[x])]
           \in Bijection(S, 0 .. Cardinality(S) - 1)
<1> DEFINE n == Cardinality(S)
           rank == [x \in S |-> Cardinality(ahead[x])]
<1>1. n \in Nat
  BY FS_CardinalityType
<1>2. ASSUME NEW x \in S
      PROVE  /\ IsFiniteSet(ahead[x])
             /\ Cardinality(ahead[x]) \in 0 .. n - 1
  <2>1. ahead[x] \in SUBSET (S \ {x})
    OBVIOUS
  <2>2. IsFiniteSet(S \ {x}) /\ Cardinality(S \ {x}) = n - 1
    BY FS_RemoveElement
  <2>3. /\ IsFiniteSet(ahead[x])
        /\ Cardinality(ahead[x]) <= n - 1
    BY <2>1, <2>2, FS_Subset
  <2>4. Cardinality(ahead[x]) \in Nat
    BY <2>3, FS_CardinalityType
  <2> QED
    BY <1>1, <2>3, <2>4
<1>3. rank \in [S -> 0 .. n - 1]
  BY <1>2
<1>4. ASSUME NEW x \in S, NEW y \in S, x \in ahead[y]
      PROVE  rank[x] # rank[y]
  <2>1. ahead[x] \in SUBSET ahead[y] /\ ahead[x] # ahead[y]
    BY <1>4
  <2>2. Cardinality(ahead[x]) # Cardinality(ahead[y])
    BY <1>2, <2>1, FS_Subset
  <2> QED
    BY <2>2
<1>5. IsInjective(rank)
  <2> SUFFICES ASSUME NEW x \in S, NEW y \in S, rank[x] = rank[y], x # y
               PROVE  FALSE
    BY DEF IsInjective
  <2> QED
    BY <1>4
<1> HIDE DEF rank
<1>6. rank \in Injection(S, 0 .. n - 1)
  BY <1>3, <1>5 DEF Injection
<1>7. IsFiniteSet(0 .. n - 1) /\ Cardinality(0 .. n - 1) = n
  <2>1. 0 \in Int /\ n - 1 \in Int
    BY <1>1
  <2> QED
    BY <1>1, <2>1, FS_Interval
<1>8. rank \in Surjection(S, 0 .. n - 1)
  BY <1>6, <1>7, FS_Injection
<1> QED
  BY <1>6, <1>8 DEF Bijection, rank

(* Of members so numbered, those from lo on and below lo + k are k, unless *)
(* there are no others behind them.                                        *)
LEMMA SliceOfRanks ==
  ASSUME NEW S, IsFiniteSet(S), NEW rank,
         rank \in Bijection(S, 0 .. Cardinality(S) - 1),
         NEW lo \in Nat, NEW k \in Nat \ {0},
         NEW slice, slice = {x \in S : rank[x] \in lo .. lo + k - 1}
  PROVE  \/ Cardinality(slice) = k
         \/ /\ \A x \in S : rank[x] < lo + k
            /\ lo + Cardinality(slice) >= Cardinality(S)
<1> DEFINE n == Cardinality(S)
<1>1. n \in Nat
  BY FS_CardinalityType
<1>2. /\ rank \in [S -> 0 .. n - 1]
      /\ IsInjective(rank)
      /\ \A t \in 0 .. n - 1 : \E x \in S : rank[x] = t
  BY DEF Bijection, Injection, Surjection
<1>3. IsFiniteSet(slice) /\ Cardinality(slice) \in Nat
  BY FS_Subset, FS_CardinalityType
<1>4. CASE n >= lo + k
  <2> DEFINE f == [x \in slice |-> rank[x]]
  <2>1. f \in Injection(slice, lo .. lo + k - 1)
    BY <1>2 DEF Injection, IsInjective
  <2>2. f \in Surjection(slice, lo .. lo + k - 1)
    <3> SUFFICES ASSUME NEW t \in lo .. lo + k - 1
                 PROVE  \E x \in slice : f[x] = t
      BY <2>1 DEF Injection, Surjection
    <3>1. t \in 0 .. n - 1
      BY <1>1, <1>4
    <3> QED
      BY <1>2, <3>1
  <2>3. Cardinality(lo .. lo + k - 1) = k
    <3>1. lo \in Int /\ lo + k - 1 \in Int
      OBVIOUS
    <3> QED
      BY <3>1, FS_Interval
  <2>4. ExistsBijection(slice, lo .. lo + k - 1)
    BY <2>1, <2>2 DEF ExistsBijection, Bijection
  <2>5. Cardinality(lo .. lo + k - 1) = Cardinality(slice)
    BY <1>3, <2>4, FS_Bijection
  <2> QED
    BY <2>3, <2>5
<1>5. CASE n < lo + k
  <2> DEFINE low == {x \in S : rank[x] < lo}
             f == [x \in low |-> rank[x]]
  <2>1. \A x \in S : rank[x] < lo + k
    BY <1>1, <1>2, <1>5
  <2>2. S = slice \cup low
    BY <1>2, <2>1
  <2>3. f \in Injection(low, 0 .. lo - 1)
    BY <1>2 DEF Injection, IsInjective
  <2>4. IsFiniteSet(0 .. lo - 1) /\ Cardinality(0 .. lo - 1) = lo
    <3>1. 0 \in Int /\ lo - 1 \in Int
      OBVIOUS
    <3> QED
      BY <3>1, FS_Interval
  <2>5. IsFiniteSet(low) /\ Cardinality(low) <= lo
    BY <2>3, <2>4, FS_Injection
  <2>6. /\ Cardinality(slice \cup low)
             = Cardinality(slice) + Cardinality(low) - Cardinality(slice \cap low)
    BY <1>3, <2>5, FS_Union
  <2>7. Cardinality(low) \in Nat /\ Cardinality(slice \cap low) \in Nat
    BY <1>3, <2>5, FS_Intersection, FS_CardinalityType
  <2>8. n = Cardinality(slice \cup low)
    BY <2>2, Zenon
  <2>9. lo + Cardinality(slice) >= n
    BY <1>3, <2>5, <2>6, <2>7, <2>8
  <2> QED
    BY <2>1, <2>9
<1> QED
  BY <1>1, <1>4, <1>5

(* A sequence of the members of a set, each once.                          *)
ListsOnce(seq, S) ==
  /\ seq \in Seq(S)
  /\ IsInjective(seq)
  /\ \A x \in S : \E i \in DOMAIN seq : seq[i] = x

(* SetToSeq is one, of a finite set.                                       *)
LEMMA ListedOnce ==
  ASSUME NEW S, IsFiniteSet(S)
  PROVE  ListsOnce(SetToSeq(S), S)
<1> DEFINE n == Cardinality(S)
           s == SetToSeq(S)
<1>1. n \in Nat /\ \E f \in [1 .. n -> S] : IsInjective(f)
  BY FS_CardinalityType DEF ExistsBijection, Bijection, Injection
<1>2. s \in [1 .. n -> S] /\ IsInjective(s)
  BY <1>1, Zenon DEF SetToSeq
<1> HIDE DEF s, n
<1>3. s \in Injection(1 .. n, S)
  BY <1>2 DEF Injection
<1>4. IsFiniteSet(1 .. n) /\ Cardinality(1 .. n) = n
  <2>1. 1 \in Int /\ n \in Int
    BY <1>1
  <2> QED
    BY <1>1, <2>1, FS_Interval
<1>5. s \in Surjection(1 .. n, S)
  BY <1>3, <1>4, FS_Injection DEF n
<1>6. s \in Seq(S)
  BY <1>1, <1>2
<1> QED
  BY <1>2, <1>5, <1>6 DEF Surjection, s, ListsOnce

(* In a list without repetition each place is the only one of its member.  *)
LEMMA OnePlace ==
  ASSUME NEW seq, IsInjective(seq), NEW i \in DOMAIN seq, NEW x, seq[i] = x
  PROVE  (CHOOSE j \in DOMAIN seq : seq[j] = x) = i
BY DEF IsInjective

-----------------------------------------------------------------------------
(* What the clients rest on.                                               *)

(* The rows as they were inserted: each item once.                         *)
OrderOK == ListsOnce(order, DOMAIN items)

(* A reader's copy of the item came from records that were in the logs     *)
(* when it was taken, and are in what it reads of them afterwards.         *)
DetailOK ==
  detail # None =>
    /\ detail.phase \in {"item", "referrals", "told"}
    /\ detail.id \in DOMAIN items
    /\ detail.phase = "item" => WasReferred(detail.id, detail.row)
    /\ detail.phase = "referrals" =>
         \E i \in DOMAIN detail.referrals :
           /\ detail.referrals[i].lead = detail.row.lead
           /\ detail.referrals[i].version = detail.row.version
    /\ detail.phase # "told" => LevelAccounted(detail.id, detail.row)
    /\ DetailExplained

Walks == [phase : {"count", "page", "read"}, filter : Filters, offset : Nat,
          total : Nat, page : SUBSET ItemIds, seen : SUBSET ItemIds,
          steady : SUBSET ItemIds, left : BOOLEAN]

Unseen == walk.steady \ walk.seen

(* Whatever has stayed in the list and was not shown has as many rows      *)
(* ahead of it as were passed over.                                        *)
WalkOK ==
  walk # None =>
    /\ walk \in Walks
    /\ walk.steady \subseteq Listed(walk.filter)
    /\ ~ walk.left =>
         /\ walk.phase # "read" =>
              \A id \in Unseen :
                Cardinality(Ahead(walk.filter, id)) >= walk.offset
         /\ walk.phase = "page" =>
              walk.total <= Cardinality(Listed(walk.filter))
         /\ walk.phase = "read" =>
              \A id \in Unseen :
                Cardinality(Ahead(walk.filter, id)) >= walk.offset + PageMax
         /\ WalkIsComplete

Rows == Seq([ref : Refs, subject : Subjects])
Imports == [phase : {"rows"}, rows : Rows,
            results : Seq([ref : Refs, id : ItemIds \cup {Failed}]),
            made : SUBSET ItemIds]

(* The request of an import is for the row it has come to.                 *)
ImportOK ==
  /\ import # None => import \in Imports
  /\ Importer \in DOMAIN request =>
       /\ import # None
       /\ import.rows # <<>>
       /\ request[Importer].kind = "register"
       /\ request[Importer].row.ref = Head(import.rows).ref
  /\ ImportTellsTruth

ClientsInv == SafeInv /\ OrderOK /\ DetailOK /\ WalkOK /\ ImportOK

-----------------------------------------------------------------------------
(* Every step is a step of the service.                                    *)

(* An import's request is a request like any other.                        *)
LEMMA ImportRows ==
  ASSUME ImportOK, ImportGoesOn
  PROVE  /\ import \in Imports
         /\ Head(import.rows) \in [ref : Refs, subject : Subjects]
         /\ Tail(import.rows) \in Rows
<1> DEFINE R == [ref : Refs, subject : Subjects]
<1>1. import \in Imports /\ import.rows \in Seq(R) /\ import.rows # <<>>
  BY DEF ImportOK, ImportGoesOn, None, Imports, Rows
<1>2. ASSUME NEW s, s \in Seq(R), s # <<>>
      PROVE  Head(s) \in R /\ Tail(s) \in Seq(R)
  <2> HIDE DEF R
  <2> QED
    BY <1>2
<1> QED
  BY <1>1, <1>2 DEF Rows

LEMMA AllNextIsAnyonesStep ==
  ASSUME ImportOK, [AllNext]_allVars
  PROVE  [AnyonesStep]_vars
<1>1. CASE ServiceStep
  BY <1>1, NextIsAnyonesStep DEF ServiceStep
<1>2. CASE ImportRegister
  <2>1. /\ Head(import.rows).ref \in Refs
        /\ Head(import.rows).subject \in Subjects
    BY <1>2, ImportRows DEF ImportRegister
  <2> QED
    BY <1>2, <2>1 DEF ImportRegister, AnyonesStep, ReadSteps
<1>3. CASE ImportCommit
  BY <1>3 DEF ImportCommit, AnyonesStep, WriteSteps
<1>4. CASE ImportRowFails
  BY <1>4 DEF ImportRowFails, AnyonesStep, Ended
<1>5. CASE UNCHANGED vars
  BY <1>5
<1> QED
  BY <1>1, <1>2, <1>3, <1>4, <1>5
     DEF AllNext, allVars, DetailSteps, DetailItem, DetailReferrals,
         DetailEscalations, DetailEnds, WalkSteps, WalkBegin, WalkCount,
         WalkPage, WalkOn, WalkEnds, ImportSteps, ImportBegin, ImportKnown,
         ImportEnds

(* A step inserts one row at most.                                         *)
LEMMA OneArrives ==
  ASSUME StateOK, [AnyonesStep]_vars
  PROVE  \E id : DOMAIN items' \subseteq DOMAIN items \cup {id}
<1>1. ASSUME NEW id, NEW row, items' = Put(items, id, row)
      PROVE  \E x : DOMAIN items' \subseteq DOMAIN items \cup {x}
  BY <1>1 DEF Put
<1>2. CASE \E c : WriteSteps(c)
  BY <1>1, <1>2 DEF WriteSteps, CommitRegister, CommitUpdate, CommitRule
<1>3. CASE \E e \in sweep.todo : Escalate(e)
  BY <1>1, <1>3 DEF Escalate
<1>4. CASE \E p \in reeval.pending : ReevalCommit(p)
  BY <1>1, <1>4 DEF ReevalCommit
<1>5. CASE UNCHANGED items
  BY <1>5
<1> QED
  BY <1>2, <1>3, <1>4, <1>5, Zenon
     DEF AnyonesStep, vars, Tick, ReadSteps, Register, Prepare,
         StartProcessing, Modify, ReturnForCorrection, Resubmit, Cancel,
         Complete, CreateRule, SweepSteps, SweepBegin, SweepRefused,
         SweepFails, ReevalSteps, ReevalBegin, ReevalRules, ReevalCollect,
         ReevalSkip, ReevalRead, ReevalFails, ReevalStops, Ended

-----------------------------------------------------------------------------
(* The order of insertion.                                                 *)

(* A longer sequence with everything in its place.                         *)
Continues(longer, seq) ==
  \A i \in DOMAIN seq : i \in DOMAIN longer /\ longer[i] = seq[i]

(* Listing the new after the old lists everything once, the old where they *)
(* were.                                                                   *)
LEMMA ListedAfter ==
  ASSUME NEW A, NEW B, A \cap B = {},
         NEW s, ListsOnce(s, A), NEW t, ListsOnce(t, B)
  PROVE  /\ ListsOnce(s \o t, A \cup B)
         /\ Continues(s \o t, s)
<1>0. /\ s \in Seq(A) /\ IsInjective(s)
      /\ \A x \in A : \E i \in DOMAIN s : s[i] = x
      /\ t \in Seq(B) /\ IsInjective(t)
      /\ \A x \in B : \E i \in DOMAIN t : t[i] = x
  BY DEF ListsOnce
<1>1. /\ s \in Seq(A \cup B)
      /\ t \in Seq(A \cup B)
  BY <1>0
<1>2. s \o t \in Seq(A \cup B)
  BY <1>1
<1>3. Len(s) \in Nat /\ Len(t) \in Nat
  BY <1>0
<1>4. DOMAIN (s \o t) = 1 .. Len(s) + Len(t)
  BY <1>1, <1>3
<1>5. \A i \in 1 .. Len(s) : (s \o t)[i] = s[i] /\ s[i] \in A
  BY <1>0
<1>6. \A i \in 1 .. Len(s) + Len(t) :
        i > Len(s) => /\ i - Len(s) \in 1 .. Len(t)
                      /\ (s \o t)[i] = t[i - Len(s)]
                      /\ t[i - Len(s)] \in B
  BY <1>0, <1>3
<1>7. DOMAIN s = 1 .. Len(s) /\ DOMAIN t = 1 .. Len(t)
  BY <1>0
<1> DEFINE st == s \o t
<1> HIDE DEF st
<1>8. ASSUME NEW i \in DOMAIN st, NEW j \in DOMAIN st, st[i] = st[j]
      PROVE  i = j
  <2>1. i \in 1 .. Len(s) + Len(t) /\ j \in 1 .. Len(s) + Len(t)
    BY <1>4 DEF st
  <2>2. CASE i <= Len(s) /\ j <= Len(s)
    <3>1. i \in 1 .. Len(s) /\ j \in 1 .. Len(s)
      BY <1>3, <2>1, <2>2
    <3> QED
      BY <1>0, <1>5, <1>7, <1>8, <3>1 DEF st, IsInjective
  <2>3. CASE i > Len(s) /\ j > Len(s)
    <3>1. i - Len(s) = j - Len(s)
      BY <1>0, <1>6, <1>7, <1>8, <2>1, <2>3 DEF st, IsInjective
    <3> QED
      BY <1>3, <2>1, <3>1
  <2>4. CASE i <= Len(s) /\ j > Len(s)
    <3>1. i \in 1 .. Len(s)
      BY <1>3, <2>1, <2>4
    <3> QED
      BY <1>5, <1>6, <1>8, <2>1, <2>4, <3>1 DEF st
  <2>5. CASE i > Len(s) /\ j <= Len(s)
    <3>1. j \in 1 .. Len(s)
      BY <1>3, <2>1, <2>5
    <3> QED
      BY <1>5, <1>6, <1>8, <2>1, <2>5, <3>1 DEF st
  <2> QED
    BY <1>3, <2>1, <2>2, <2>3, <2>4, <2>5
<1>9. IsInjective(st)
  BY <1>8 DEF IsInjective
<1>10. \A i \in DOMAIN s : i \in DOMAIN st /\ st[i] = s[i]
  BY <1>3, <1>4, <1>5, <1>7 DEF st
<1>11. ASSUME NEW x \in A \cup B
       PROVE  \E i \in DOMAIN st : st[i] = x
  <2>1. CASE x \in A
    BY <1>0, <1>10, <2>1
  <2>2. CASE x \in B
    <3>1. PICK j \in 1 .. Len(t) : t[j] = x
      BY <1>0, <1>7, <2>2
    <3>2. Len(s) + j \in 1 .. Len(s) + Len(t) /\ (Len(s) + j) - Len(s) = j /\ Len(s) + j > Len(s)
      BY <1>3, <3>1
    <3>3. st[Len(s) + j] = t[j]
      BY <1>6, <3>2 DEF st
    <3> QED
      BY <1>4, <3>1, <3>2, <3>3 DEF st
  <2> QED
    BY <2>1, <2>2
<1> QED
  BY <1>2, <1>9, <1>10, <1>11 DEF st, ListsOnce, Continues

(* What a sequence lists in full is finite.                                *)
LEMMA ListedFinite ==
  ASSUME NEW S, NEW seq, ListsOnce(seq, S)
  PROVE  IsFiniteSet(S)
<1>1. Len(seq) \in Nat /\ DOMAIN seq = 1 .. Len(seq) /\ seq \in [1 .. Len(seq) -> S]
  BY DEF ListsOnce
<1>2. IsFiniteSet(1 .. Len(seq))
  <2>1. 1 \in Int /\ Len(seq) \in Int
    BY <1>1
  <2> QED
    BY <2>1, FS_Interval
<1>3. seq \in Surjection(1 .. Len(seq), S)
  BY <1>1 DEF Surjection, ListsOnce
<1> QED
  BY <1>2, <1>3, FS_Surjection

(* The rows inserted keep their places.                                    *)
PlacesKept == Continues(order', order)

LEMMA OrderKept ==
  ASSUME StateOK, OrderOK, Grown, [AnyonesStep]_vars, Arrive
  PROVE  OrderOK' /\ PlacesKept
<1> DEFINE new == DOMAIN items' \ DOMAIN items
<1>1. PICK id : DOMAIN items' \subseteq DOMAIN items \cup {id}
  BY OneArrives
<1>2. IsFiniteSet(new)
  <2>1. new \subseteq {id}
    BY <1>1
  <2> HIDE DEF new
  <2> QED
    BY <2>1, FS_Singleton, FS_Subset
<1>3. DOMAIN items' = DOMAIN items \cup new /\ DOMAIN items \cap new = {}
  BY DEF Grown, ItemsGrown
<1>4. order' = order \o SetToSeq(new)
  BY DEF Arrive
<1> HIDE DEF new
<1>5. ListsOnce(SetToSeq(new), new)
  BY <1>2, ListedOnce
<1> DEFINE last == SetToSeq(new)
           old == DOMAIN items
<1>6. old \cap new = {} /\ ListsOnce(order, old) /\ ListsOnce(last, new)
  BY <1>3, <1>5 DEF OrderOK
<1> HIDE DEF last, old
<1>7. /\ ListsOnce(order \o last, old \cup new)
      /\ Continues(order \o last, order)
  BY <1>6, ListedAfter
<1> QED
  BY <1>3, <1>4, <1>7 DEF OrderOK, PlacesKept, last, old

-----------------------------------------------------------------------------
(* Walks.                                                                  *)

(* Where a row was inserted.                                               *)
LEMMA InsertedAt ==
  ASSUME OrderOK, NEW id \in DOMAIN items
  PROVE  /\ Inserted(id) \in DOMAIN order
         /\ order[Inserted(id)] = id
         /\ Inserted(id) \in Nat
<1>1. PICK i \in DOMAIN order : order[i] = id
  BY DEF OrderOK, ListsOnce
<1>2. Inserted(id) = i
  BY <1>1, OnePlace, Zenon DEF OrderOK, ListsOnce, Inserted
<1>3. i \in Nat
  BY DEF OrderOK, ListsOnce
<1> QED
  BY <1>1, <1>2, <1>3

LEMMA InsertedKept ==
  ASSUME OrderOK, OrderOK', PlacesKept, NEW id \in DOMAIN items
  PROVE  Inserted(id)' = Inserted(id)
<1>1. PICK i \in DOMAIN order : order[i] = id
  BY DEF OrderOK, ListsOnce
<1>2. i \in DOMAIN order' /\ order'[i] = id
  BY <1>1 DEF PlacesKept, Continues
<1>3. IsInjective(order) /\ IsInjective(order')
  BY DEF OrderOK, ListsOnce
<1>4. (CHOOSE j \in DOMAIN order : order[j] = id) = i
  BY <1>1, <1>3, OnePlace, Zenon
<1>5. (CHOOSE j \in DOMAIN order' : order'[j] = id) = i
  BY <1>2, <1>3, OnePlace, Zenon
<1> QED
  BY <1>4, <1>5 DEF Inserted

(* The rows of a list, each with those ahead of it, are strictly ordered.  *)
LEMMA ListOrder ==
  ASSUME StateOK, OrderOK, NEW filter
  PROVE  /\ IsFiniteSet(Listed(filter))
         /\ \A a \in Listed(filter) : a \notin Ahead(filter, a)
         /\ \A a, b \in Listed(filter) :
              a = b \/ a \in Ahead(filter, b) \/ b \in Ahead(filter, a)
         /\ \A a, b \in Listed(filter) :
              a \in Ahead(filter, b) => Ahead(filter, a) \subseteq Ahead(filter, b)
<1>1. Listed(filter) \subseteq DOMAIN items
  BY DEF Listed, ListedIn
<1>2. IsFiniteSet(Listed(filter))
  BY <1>1, ListedFinite, FS_Subset DEF OrderOK
<1>3. \A a \in DOMAIN items : items[a].registeredAt \in Nat
  BY DEF StateOK, TablesOK, IsPartial, ItemRow
<1>4. \A a \in DOMAIN items : Inserted(a) \in Nat /\ order[Inserted(a)] = a
  BY InsertedAt
<1>5. \A a \in DOMAIN items : ~ Before(filter, a, a)
  BY <1>3, <1>4 DEF Before
<1>6. \A a, b \in DOMAIN items : a = b \/ Before(filter, a, b) \/ Before(filter, b, a)
  <2> SUFFICES ASSUME NEW a \in DOMAIN items, NEW b \in DOMAIN items, a # b
               PROVE  Before(filter, a, b) \/ Before(filter, b, a)
    OBVIOUS
  <2>1. Inserted(a) # Inserted(b)
    BY <1>4
  <2> QED
    BY <1>3, <1>4, <2>1 DEF Before
<1>7. \A a, b, c \in DOMAIN items :
        Before(filter, a, b) /\ Before(filter, b, c) => Before(filter, a, c)
  BY <1>3, <1>4 DEF Before
<1> QED
  BY <1>1, <1>2, <1>5, <1>6, <1>7 DEF Ahead

(* The rows ahead of an item: a finite number.                             *)
LEMMA AheadFinite ==
  ASSUME StateOK, OrderOK, NEW filter, NEW id
  PROVE  /\ IsFiniteSet(Ahead(filter, id))
         /\ Cardinality(Ahead(filter, id)) \in Nat
<1>1. Ahead(filter, id) \subseteq Listed(filter)
  BY DEF Ahead
<1> QED
  BY <1>1, ListOrder, FS_Subset, FS_CardinalityType

(* A full page, or the last one: nothing of the list is behind it.         *)
LEMMA PageOfList ==
  ASSUME StateOK, OrderOK, NEW filter, NEW offset \in Nat
  PROVE  \/ Cardinality(Page(filter, offset)) = PageMax
         \/ /\ \A id \in Listed(filter) :
                 Cardinality(Ahead(filter, id)) < offset + PageMax
            /\ offset + Cardinality(Page(filter, offset))
                 >= Cardinality(Listed(filter))
<1> DEFINE S == Listed(filter)
           ahead == [x \in S |-> Ahead(filter, x)]
           rank == [x \in S |-> Cardinality(ahead[x])]
           page == Page(filter, offset)
<1>1. /\ IsFiniteSet(S)
      /\ ahead \in [S -> SUBSET S]
      /\ \A x \in S : x \notin ahead[x]
      /\ \A x, y \in S : x = y \/ x \in ahead[y] \/ y \in ahead[x]
      /\ \A x, y \in S : x \in ahead[y] => ahead[x] \subseteq ahead[y]
  <2>1. \A x \in S : Ahead(filter, x) \in SUBSET S
    BY DEF Ahead
  <2> QED
    BY <2>1, ListOrder
<1>2. page = {x \in S : rank[x] \in offset .. offset + PageMax - 1}
  BY DEF Page
<1>3. \A x \in S : rank[x] = Cardinality(Ahead(filter, x))
  OBVIOUS
<1> HIDE DEF S, ahead, page
<1>4. rank \in Bijection(S, 0 .. Cardinality(S) - 1)
  BY <1>1, RankBijective
<1>5. PageMax \in Nat \ {0}
  BY ClientsAssumption
<1> HIDE DEF rank
<1>6. \/ Cardinality(page) = PageMax
      \/ /\ \A x \in S : rank[x] < offset + PageMax
         /\ offset + Cardinality(page) >= Cardinality(S)
  BY <1>1, <1>2, <1>4, <1>5, SliceOfRanks
<1> QED
  BY <1>3, <1>6 DEF S, page

(* Rows stay where they are in a list, and others come in ahead of them.   *)
LEMMA AheadGrows ==
  ASSUME StateOK, StateOK', OrderOK, OrderOK', Grown, PlacesKept,
         NEW filter, Listed(filter) \subseteq Listed(filter)',
         NEW id \in DOMAIN items
  PROVE  Cardinality(Ahead(filter, id)) <= Cardinality(Ahead(filter, id)')
<1>1. \A a \in DOMAIN items :
        /\ a \in DOMAIN items'
        /\ items'[a].registeredAt = items[a].registeredAt
        /\ Inserted(a)' = Inserted(a)
  BY InsertedKept DEF Grown, ItemsGrown
<1>2. Listed(filter) \subseteq DOMAIN items
  BY DEF Listed, ListedIn
<1>3. \A a \in Listed(filter) : Before(filter, a, id) => Before(filter, a, id)'
  BY <1>1, <1>2 DEF Before
<1>4. Ahead(filter, id) \subseteq Ahead(filter, id)'
  BY <1>3 DEF Ahead
<1>5. IsFiniteSet(Ahead(filter, id)')
  <2>1. IsFiniteSet(DOMAIN items')
    BY ListedFinite DEF OrderOK
  <2>2. Ahead(filter, id)' \subseteq DOMAIN items'
    BY DEF Ahead, Listed, ListedIn
  <2> QED
    BY <2>1, <2>2, FS_Subset
<1> QED
  BY <1>4, <1>5, FS_Subset

(* So does the length of the list.                                         *)
LEMMA ListGrows ==
  ASSUME OrderOK', NEW filter, Listed(filter) \subseteq Listed(filter)'
  PROVE  Cardinality(Listed(filter)) <= Cardinality(Listed(filter)')
<1>1. IsFiniteSet(DOMAIN items')
  BY ListedFinite DEF OrderOK
<1>2. Listed(filter)' \subseteq DOMAIN items'
  BY DEF Listed, ListedIn
<1> QED
  BY <1>1, <1>2, FS_Subset

(* While others take steps, a walk loses nothing it has passed over.       *)
LEMMA WatchKept ==
  ASSUME StateOK, StateOK', OrderOK, OrderOK', Grown, PlacesKept, WalkOK, Watch
  PROVE  WalkOK'
<1>1. CASE walk = None
  BY <1>1 DEF Watch, WalkOK
<1>2. CASE walk # None
  <2> PICK f : f = walk.filter
    OBVIOUS
  <2>1. walk \in Walks /\ walk.steady \subseteq Listed(f)
    BY <1>2 DEF WalkOK
  <2>2. /\ walk' = [walk EXCEPT !.steady = @ \cap Listed(f)',
                                !.left = @ \/ ~ Listed(f) \subseteq Listed(f)']
        /\ walk'.steady = walk.steady \cap Listed(f)'
        /\ walk'.left = (walk.left \/ ~ Listed(f) \subseteq Listed(f)')
        /\ walk'.phase = walk.phase /\ walk'.filter = f
        /\ walk'.offset = walk.offset /\ walk'.total = walk.total
        /\ walk'.page = walk.page /\ walk'.seen = walk.seen
    <3>1. walk' = [walk EXCEPT !.steady = @ \cap Listed(f)',
                               !.left = @ \/ ~ Listed(f) \subseteq Listed(f)']
      BY <1>2 DEF Watch, Listed
    <3> QED
      BY <2>1, <3>1 DEF Walks
  <2>3. walk' \in Walks
    BY <2>1, <2>2 DEF Walks
  <2>4. walk'.steady \subseteq walk.steady /\ Unseen' \subseteq Unseen
    BY <2>2 DEF Unseen
  <2>5. Unseen \subseteq DOMAIN items
    BY <2>1 DEF Unseen, Listed, ListedIn
  <2>6. walk.offset \in Nat /\ walk.total \in Nat /\ PageMax \in Nat
    BY <2>1, ClientsAssumption DEF Walks
  <2>7. ASSUME ~ walk'.left
        PROVE  /\ ~ walk.left
               /\ Cardinality(Listed(f)) <= Cardinality(Listed(f)')
               /\ \A id \in Unseen : Cardinality(Ahead(f, id))
                                      <= Cardinality(Ahead(f, id)')
    <3>1. ~ walk.left /\ Listed(f) \subseteq Listed(f)'
      BY <2>2, <2>7
    <3> QED
      BY <2>5, <3>1, AheadGrows, ListGrows
  <2>8. \A id : Cardinality(Ahead(f, id)) \in Nat /\ Cardinality(Ahead(f, id)') \in Nat
    <3>1. \A id : Ahead(f, id) \subseteq DOMAIN items /\ Ahead(f, id)' \subseteq DOMAIN items'
      BY DEF Ahead, Listed, ListedIn
    <3>2. IsFiniteSet(DOMAIN items) /\ IsFiniteSet(DOMAIN items')
      BY ListedFinite DEF OrderOK
    <3> QED
      BY <3>1, <3>2, FS_Subset, FS_CardinalityType
  <2>9. Cardinality(Listed(f)) \in Nat /\ Cardinality(Listed(f)') \in Nat
    <3>1. Listed(f) \subseteq DOMAIN items /\ Listed(f)' \subseteq DOMAIN items'
      BY DEF Listed, ListedIn
    <3>2. IsFiniteSet(DOMAIN items) /\ IsFiniteSet(DOMAIN items')
      BY ListedFinite DEF OrderOK
    <3> QED
      BY <3>1, <3>2, FS_Subset, FS_CardinalityType
  <2>10. ASSUME ~ walk'.left
         PROVE  /\ walk'.phase # "read" =>
                     \A id \in Unseen' :
                       Cardinality(Ahead(f, id)') >= walk'.offset
                /\ walk'.phase = "page" =>
                     walk'.total <= Cardinality(Listed(f)')
                /\ walk'.phase = "read" =>
                     \A id \in Unseen' :
                       Cardinality(Ahead(f, id)') >= walk'.offset + PageMax
                /\ WalkIsComplete'
    <3>1. /\ walk.phase # "read" =>
               \A id \in Unseen : Cardinality(Ahead(f, id)) >= walk.offset
          /\ walk.phase = "page" => walk.total <= Cardinality(Listed(f))
          /\ walk.phase = "read" =>
               \A id \in Unseen :
                 Cardinality(Ahead(f, id)) >= walk.offset + PageMax
          /\ WalkIsComplete
      BY <1>2, <2>7, <2>10 DEF WalkOK
    <3>2. WalkIsComplete'
      BY <2>2, <2>4, <2>7, <2>10, <3>1 DEF WalkIsComplete
    <3> QED
      BY <2>2, <2>4, <2>6, <2>7, <2>8, <2>9, <2>10, <3>1, <3>2
  <2> QED
    BY <2>2, <2>3, <2>10 DEF WalkOK
<1> QED
  BY <1>1, <1>2

(* Nothing a walk's own steps depend on changes with them.                 *)
LEMMA SameList ==
  ASSUME UNCHANGED <<items, order>>
  PROVE  \A f : /\ Listed(f)' = Listed(f)
                /\ \A id : Ahead(f, id)' = Ahead(f, id)
BY DEF Listed, ListedIn, Ahead, Before, Inserted

(* A walk's own steps pass over what they show, and nothing else.          *)
LEMMA WalkStepsKeep ==
  ASSUME StateOK, OrderOK, WalkOK, WalkSteps
  PROVE  WalkOK'
<1>1. UNCHANGED <<items, order>>
  BY DEF WalkSteps, WalkBegin, WalkCount, WalkPage, WalkOn, WalkEnds, vars
<1>2. \A f : /\ Listed(f)' = Listed(f)
             /\ \A id : Ahead(f, id)' = Ahead(f, id)
  BY <1>1, SameList
<1>3. \A f, id : Cardinality(Ahead(f, id)) \in Nat
  BY AheadFinite
<1>4. \A f : Cardinality(Listed(f)) \in Nat
  BY ListOrder, FS_CardinalityType
<1>5. \A f : Listed(f) \subseteq ItemIds
  BY DEF StateOK, TablesOK, IsPartial, Listed, ListedIn
<1>6. PageMax \in Nat \ {0}
  BY ClientsAssumption
<1>7. ASSUME NEW filter \in Filters, WalkBegin(filter)
      PROVE  WalkOK'
  <2>1. walk' = [phase |-> "count", filter |-> filter, offset |-> 0,
                 total |-> 0, page |-> {}, seen |-> {},
                 steady |-> Listed(filter), left |-> FALSE]
    BY <1>7 DEF WalkBegin
  <2>2. walk' \in Walks
    BY <1>5, <2>1 DEF Walks
  <2>3. WalkIsComplete'
    BY <2>1 DEF WalkIsComplete
  <2>4. /\ walk'.phase = "count" /\ walk'.filter = filter /\ walk'.offset = 0
        /\ walk'.steady = Listed(filter)
    BY <2>1
  <2> QED
    BY <1>2, <1>3, <2>2, <2>3, <2>4 DEF WalkOK
<1>8. ASSUME walk # None
      PROVE  walk \in Walks /\ walk.steady \subseteq Listed(walk.filter)
  BY <1>8 DEF WalkOK
<1>9. ASSUME WalkCount
      PROVE  WalkOK'
  <2> PICK f : f = walk.filter
    OBVIOUS
  <2>1. walk # None /\ walk.phase = "count"
    BY <1>9 DEF WalkCount, None
  <2>2. walk \in Walks
    BY <1>8, <2>1
  <2>3. walk' = [walk EXCEPT !.phase = "page", !.total = Cardinality(Listed(f))]
    BY <1>9 DEF WalkCount
  <2>4. walk' \in Walks
    BY <1>4, <2>2, <2>3 DEF Walks
  <2>5. /\ walk'.phase = "page" /\ walk'.filter = f
        /\ walk'.offset = walk.offset /\ walk'.total = Cardinality(Listed(f))
        /\ walk'.page = walk.page /\ walk'.seen = walk.seen
        /\ walk'.steady = walk.steady /\ walk'.left = walk.left
    BY <2>2, <2>3 DEF Walks
  <2>6. Unseen' = Unseen
    BY <2>5 DEF Unseen
  <2>7. ~ walk.left =>
          \A id \in Unseen : Cardinality(Ahead(f, id)) >= walk.offset
    BY <2>1 DEF WalkOK
  <2>8. WalkIsComplete'
    BY <2>5 DEF WalkIsComplete
  <2> QED
    BY <1>2, <1>4, <1>8, <2>1, <2>4, <2>5, <2>6, <2>7, <2>8 DEF WalkOK
<1>10. ASSUME WalkPage
       PROVE  WalkOK'
  <2> PICK f : f = walk.filter
    OBVIOUS
  <2> PICK page : page = Page(f, walk.offset)
    OBVIOUS
  <2>1. walk # None /\ walk.phase = "page"
    BY <1>10 DEF WalkPage, None
  <2>2. walk \in Walks
    BY <1>8, <2>1
  <2>3. walk' = [walk EXCEPT !.phase = "read", !.page = page,
                             !.seen = @ \cup page]
    BY <1>10 DEF WalkPage
  <2>4. page \subseteq Listed(f)
    BY DEF Page
  <2>5. walk' \in Walks
    BY <1>5, <2>2, <2>3, <2>4 DEF Walks
  <2>6. /\ walk'.phase = "read" /\ walk'.filter = f
        /\ walk'.offset = walk.offset /\ walk'.total = walk.total
        /\ walk'.page = page /\ walk'.seen = walk.seen \cup page
        /\ walk'.steady = walk.steady /\ walk'.left = walk.left
    BY <2>2, <2>3 DEF Walks
  <2>7. Unseen' = Unseen \ page /\ Unseen \subseteq Listed(f)
    BY <1>8, <2>1, <2>6 DEF Unseen
  <2>8. walk.offset \in Nat /\ walk.total \in Nat
    BY <2>2 DEF Walks
  <2>9. ASSUME ~ walk.left
        PROVE  /\ \A id \in Unseen : Cardinality(Ahead(f, id)) >= walk.offset
               /\ walk.total <= Cardinality(Listed(f))
    BY <2>1, <2>9 DEF WalkOK
  <2>10. ASSUME ~ walk.left, NEW id \in Unseen'
         PROVE  Cardinality(Ahead(f, id)) >= walk.offset + PageMax
    <3>1. id \in Listed(f) /\ id \notin page
      BY <2>7
    <3>2. Cardinality(Ahead(f, id)) \notin walk.offset .. walk.offset + PageMax - 1
      BY <3>1 DEF Page
    <3> QED
      BY <1>3, <1>6, <2>7, <2>8, <2>9, <2>10, <3>2
  <2>11. ASSUME ~ walk.left
         PROVE  WalkIsComplete'
    <3>1. \/ Cardinality(page) = PageMax
          \/ /\ \A id \in Listed(f) :
                  Cardinality(Ahead(f, id)) < walk.offset + PageMax
             /\ walk.offset + Cardinality(page) >= Cardinality(Listed(f))
      BY <2>8, PageOfList
    <3>2. Cardinality(page) \in Nat
      BY <2>4, ListOrder, FS_Subset, FS_CardinalityType
    <3>3. CASE Cardinality(page) = PageMax
      BY <2>6, <3>3 DEF WalkIsComplete
    <3>4. CASE /\ \A id \in Listed(f) :
                    Cardinality(Ahead(f, id)) < walk.offset + PageMax
               /\ walk.offset + Cardinality(page) >= Cardinality(Listed(f))
      <4>1. Unseen' = {}
        BY <1>3, <1>6, <2>7, <2>8, <2>10, <2>11, <3>4
      <4>2. walk'.steady \subseteq walk'.seen
        BY <4>1 DEF Unseen
      <4>3. walk.offset + Cardinality(page) >= walk.total
        BY <1>4, <2>8, <2>9, <2>11, <3>2, <3>4
      <4> QED
        BY <2>6, <4>2, <4>3 DEF WalkIsComplete
    <3> QED
      BY <3>1, <3>3, <3>4
  <2>12. walk.steady \subseteq Listed(f)
    BY <1>8, <2>1
  <2> QED
    BY <1>2, <2>5, <2>6, <2>10, <2>11, <2>12 DEF WalkOK
<1>11. ASSUME WalkOn
       PROVE  WalkOK'
  <2> PICK f : f = walk.filter
    OBVIOUS
  <2>1. walk # None /\ walk.phase = "read"
    BY <1>11 DEF WalkOn, None
  <2>2. walk \in Walks
    BY <1>8, <2>1
  <2>3. walk' = [walk EXCEPT !.phase = "count", !.page = {},
                             !.offset = @ + PageMax]
    BY <1>11 DEF WalkOn, NextOffset
  <2>4. walk' \in Walks
    <3>1. walk.offset + PageMax \in Nat
      BY <1>6, <2>2 DEF Walks
    <3> QED
      BY <2>2, <2>3, <3>1 DEF Walks
  <2>5. /\ walk'.phase = "count" /\ walk'.filter = f
        /\ walk'.offset = walk.offset + PageMax
        /\ walk'.seen = walk.seen
        /\ walk'.steady = walk.steady /\ walk'.left = walk.left
    BY <2>2, <2>3 DEF Walks
  <2>6. Unseen' = Unseen
    BY <2>5 DEF Unseen
  <2>7. ~ walk.left =>
          \A id \in Unseen : Cardinality(Ahead(f, id)) >= walk.offset + PageMax
    BY <2>1 DEF WalkOK
  <2>8. WalkIsComplete'
    BY <2>5 DEF WalkIsComplete
  <2> QED
    BY <1>2, <1>8, <2>1, <2>4, <2>5, <2>6, <2>7, <2>8 DEF WalkOK
<1>12. CASE WalkEnds
  BY <1>12 DEF WalkEnds, WalkOK
<1> QED
  BY <1>7, <1>9, <1>10, <1>11, <1>12 DEF WalkSteps

-----------------------------------------------------------------------------
(* Details.                                                                *)

(* The logs only grow: a reader finds later what its copy came from.       *)
LEMMA DetailKept ==
  ASSUME Grown, DetailOK, UNCHANGED detail
  PROVE  DetailOK'
<1> SUFFICES ASSUME detail # None
             PROVE  DetailOK'
  BY DEF DetailOK
<1> PICK d : d = detail
  OBVIOUS
<1>1. d.id \in DOMAIN items /\ d.id \in DOMAIN items'
  BY DEF DetailOK, Grown, ItemsGrown
<1>2. WasReferred(d.id, d.row) => WasReferred(d.id, d.row)'
  BY <1>1, StaysReferred
<1>3. LevelAccounted(d.id, d.row) => LevelAccounted(d.id, d.row)'
  BY <1>1, StaysAccounted
<1>4. detail' = d
  OBVIOUS
<1> QED
  BY <1>1, <1>2, <1>3, <1>4 DEF DetailOK, DetailExplained

LEMMA DetailStepsKeep ==
  ASSUME SafeInv, DetailOK, DetailSteps
  PROVE  DetailOK'
<1>1. UNCHANGED vars
  BY DEF DetailSteps, DetailItem, DetailReferrals, DetailEscalations, DetailEnds
<1>2. UNCHANGED <<items, referrals, escalations>>
  BY <1>1 DEF vars
<1>3. \A id, row : /\ WasReferred(id, row)' = WasReferred(id, row)
                   /\ LevelAccounted(id, row)' = LevelAccounted(id, row)
  BY <1>2 DEF WasReferred, LevelAccounted
<1>4. ASSUME NEW id \in DOMAIN items, DetailItem(id)
      PROVE  DetailOK'
  <2> PICK row : row = items[id]
    OBVIOUS
  <2>1. detail' = [phase |-> "item", id |-> id, row |-> row]
    BY <1>4 DEF DetailItem
  <2>2. WasReferred(id, row) /\ LevelAccounted(id, row)
    BY <1>4 DEF SafeInv, TablesSafe, RoutingWasReferred, LevelBacked
  <2>3. /\ detail'.phase = "item" /\ detail'.id = id /\ detail'.row = row
    BY <2>1
  <2>4. DetailExplained'
    BY <2>3 DEF DetailExplained
  <2> QED
    BY <1>2, <1>3, <1>4, <2>2, <2>3, <2>4 DEF DetailOK
<1>5. ASSUME DetailReferrals
      PROVE  DetailOK'
  <2> PICK d : d = detail
    OBVIOUS
  <2>1. detail # None /\ d.phase = "item"
    BY <1>5 DEF DetailReferrals, None
  <2>2. /\ d.id \in DOMAIN items
        /\ WasReferred(d.id, d.row)
        /\ LevelAccounted(d.id, d.row)
    BY <2>1 DEF DetailOK
  <2>3. /\ detail'.phase = "referrals" /\ detail'.id = d.id /\ detail'.row = d.row
        /\ detail'.referrals = referrals[d.id]
    BY <1>5 DEF DetailReferrals
  <2>4. DetailExplained'
    BY <2>3 DEF DetailExplained
  <2> QED
    BY <1>2, <1>3, <2>2, <2>3, <2>4 DEF DetailOK, WasReferred
<1>6. ASSUME DetailEscalations
      PROVE  DetailOK'
  <2> PICK d : d = detail
    OBVIOUS
  <2>1. detail # None /\ d.phase = "referrals"
    BY <1>6 DEF DetailEscalations, None
  <2>2. /\ d.id \in DOMAIN items
        /\ \E i \in DOMAIN d.referrals :
             /\ d.referrals[i].lead = d.row.lead
             /\ d.referrals[i].version = d.row.version
        /\ LevelAccounted(d.id, d.row)
    BY <2>1 DEF DetailOK
  <2>3. /\ detail'.phase = "told" /\ detail'.id = d.id /\ detail'.row = d.row
        /\ detail'.referrals = d.referrals
        /\ detail'.escalations = escalations[d.id]
    BY <1>6 DEF DetailEscalations
  <2>4. DetailExplained'
    BY <2>2, <2>3 DEF DetailExplained, LevelAccounted
  <2> QED
    BY <1>2, <2>2, <2>3, <2>4 DEF DetailOK
<1>7. CASE DetailEnds
  BY <1>7 DEF DetailEnds, DetailOK, DetailExplained, None
<1> QED
  BY <1>4, <1>5, <1>6, <1>7 DEF DetailSteps

-----------------------------------------------------------------------------
(* Imports.                                                                *)

(* What an import has reported stays true, whoever takes a step, if its    *)
(* own request stays what it was.                                          *)
LEMMA ImportKept ==
  ASSUME Grown, ImportOK, UNCHANGED import,
         Importer \in DOMAIN request' =>
           Importer \in DOMAIN request /\ request'[Importer] = request[Importer]
  PROVE  ImportOK'
<1>1. ImportTellsTruth'
  BY DEF ImportOK, ImportTellsTruth, Grown, ItemsGrown
<1> QED
  BY <1>1 DEF ImportOK

(* A row done: it is reported with an id there is for its reference, or as *)
(* failed.                                                                 *)
LEMMA RowDone ==
  ASSUME StateOK, StateOK', Grown, ImportOK, ImportGoesOn,
         NEW id, NEW made,
         import' = [Reported(id) EXCEPT !.made = made],
         made \subseteq import.made \cup {id}, made \subseteq ItemIds,
         \/ id = Failed /\ made = import.made
         \/ id \in DOMAIN items' /\ items'[id].ref = Head(import.rows).ref,
         Importer \notin DOMAIN request'
  PROVE  ImportOK'
<1> DEFINE result == [ref |-> Head(import.rows).ref, id |-> id]
           old == import.results
           new == Append(old, result)
           R == [ref : Refs, id : ItemIds \cup {Failed}]
<1>1. /\ import \in Imports
      /\ Head(import.rows) \in [ref : Refs, subject : Subjects]
      /\ Tail(import.rows) \in Rows
  BY ImportRows
<1>2. result \in R
  BY <1>1 DEF StateOK, TablesOK, IsPartial
<1>3. old \in Seq(R) /\ import.made \subseteq ItemIds
  BY <1>1 DEF Imports
<1>4. /\ import'.phase = "rows" /\ import'.rows = Tail(import.rows)
      /\ import'.results = new /\ import'.made = made
      /\ import' \in [phase : {"rows"}, rows : {Tail(import.rows)},
                      results : {new}, made : {made}]
  BY <1>1 DEF Reported, Imports
<1> HIDE DEF R
<1>5. /\ new \in Seq(R)
      /\ DOMAIN new = 1 .. Len(old) + 1
      /\ \A i \in 1 .. Len(old) : new[i] = old[i]
      /\ new[Len(old) + 1] = result
      /\ DOMAIN old = 1 .. Len(old) /\ Len(old) \in Nat
  <2> HIDE DEF result
  <2> QED
    BY <1>2, <1>3
<1>6. import' \in Imports
  BY <1>1, <1>4, <1>5 DEF Imports, R
<1>7. /\ \A i \in DOMAIN old :
           old[i].id # Failed =>
             old[i].id \in DOMAIN items /\ items[old[i].id].ref = old[i].ref
      /\ import.made \subseteq {old[i].id : i \in DOMAIN old}
  BY DEF ImportOK, ImportTellsTruth, ImportGoesOn, None
<1>8. ASSUME NEW i \in DOMAIN new, new[i].id # Failed
      PROVE  new[i].id \in DOMAIN items' /\ items'[new[i].id].ref = new[i].ref
  <2>1. CASE i \in 1 .. Len(old)
    <3>1. new[i] = old[i] /\ i \in DOMAIN old
      BY <1>5, <2>1
    <3> QED
      BY <1>7, <1>8, <3>1 DEF Grown, ItemsGrown
  <2>2. CASE i = Len(old) + 1
    <3>1. new[i] = result
      BY <1>5, <2>2
    <3> QED
      BY <1>8, <3>1
  <2> QED
    BY <1>5, <2>1, <2>2
<1>9. ASSUME NEW x \in made
      PROVE  \E i \in DOMAIN new : new[i].id = x
  <2>1. CASE x \in import.made
    <3>1. PICK i \in DOMAIN old : old[i].id = x
      BY <1>7, <2>1
    <3> QED
      BY <1>5, <3>1
  <2>2. CASE x = id
    <3>1. new[Len(old) + 1].id = x /\ Len(old) + 1 \in DOMAIN new
      BY <1>5, <2>2
    <3> QED
      BY <3>1
  <2> QED
    BY <2>1, <2>2
<1> HIDE DEF new
<1>10. ImportTellsTruth'
  BY <1>4, <1>8, <1>9 DEF ImportTellsTruth
<1> QED
  BY <1>6, <1>10 DEF ImportOK

LEMMA ImportStepsKeep ==
  ASSUME StateOK, StateOK', Grown, ImportOK, ImportSteps
  PROVE  ImportOK'
<1>1. ASSUME NEW batch \in Batches, ImportBegin(batch)
      PROVE  ImportOK'
  <2>1. Importer \notin DOMAIN request'
    BY <1>1 DEF ImportBegin, ImportOK, vars
  <2>2. import' = [phase |-> "rows", rows |-> batch, results |-> <<>>,
                   made |-> {}]
    BY <1>1 DEF ImportBegin
  <2>3. import' \in Imports
    <3>1. batch \in Rows
      BY ClientsAssumption DEF Rows
    <3>2. <<>> \in Seq([ref : Refs, id : ItemIds \cup {Failed}])
      OBVIOUS
    <3> QED
      BY <2>2, <3>1, <3>2 DEF Imports
  <2>4. ImportTellsTruth'
    BY <2>2 DEF ImportTellsTruth
  <2> QED
    BY <2>1, <2>3, <2>4 DEF ImportOK
<1>2. ASSUME ImportGoesOn, NEW id, import' = Reported(id)
      PROVE  import' = [Reported(id) EXCEPT !.made = import.made]
  <2>1. import \in Imports
    BY <1>2, ImportRows
  <2> QED
    BY <1>2, <2>1 DEF Reported, Imports
<1>3. ImportGoesOn => import.made \subseteq ItemIds
  BY ImportRows DEF Imports
<1>4. CASE ImportKnown
  <2> PICK id \in DOMAIN items :
        items[id].ref = Head(import.rows).ref /\ import' = Reported(id)
    BY <1>4 DEF ImportKnown
  <2>1. ImportGoesOn /\ Importer \notin DOMAIN request' /\ items' = items
    BY <1>4 DEF ImportKnown, vars
  <2>2. import' = [Reported(id) EXCEPT !.made = import.made]
    BY <1>2, <2>1
  <2> QED
    BY <1>3, <2>1, <2>2, RowDone
<1>5. CASE ImportRegister
  <2>1. PICK new : /\ request' = Put(request, Importer, new)
                   /\ new.kind = "register"
                   /\ new.row.ref = Head(import.rows).ref
    BY <1>5 DEF ImportRegister, Register
  <2>2. /\ request'[Importer].kind = "register"
        /\ request'[Importer].row.ref = Head(import.rows).ref
    BY <2>1 DEF Put
  <2>3. import # None /\ import.rows # <<>> /\ UNCHANGED <<import, items>>
    BY <1>5 DEF ImportRegister, Register, ImportGoesOn, None, clients
  <2> QED
    BY <2>2, <2>3 DEF ImportOK, ImportTellsTruth
<1>6. CASE ImportCommit
  <2> PICK id \in DOMAIN items' \ DOMAIN items :
        import' = [Reported(id) EXCEPT !.made = @ \cup {id}]
    BY <1>6 DEF ImportCommit
  <2>1. /\ ImportGoesOn
        /\ CommitRegister(Importer)
        /\ Importer \in DOMAIN request
    BY <1>6 DEF ImportCommit, CommitRegister, InFlight
  <2>2. PICK new : items' = Put(items, new, request[Importer].row)
    BY <2>1 DEF CommitRegister
  <2>3. items'[id] = request[Importer].row
    BY <2>2 DEF Put
  <2>4. items'[id].ref = Head(import.rows).ref
    BY <2>1, <2>3 DEF ImportOK
  <2>5. Importer \notin DOMAIN request'
    BY <2>1 DEF CommitRegister, Without
  <2>6. import' = [Reported(id) EXCEPT !.made = import.made \cup {id}]
    <3>1. import \in Imports
      BY <2>1, ImportRows
    <3> QED
      BY <3>1 DEF Reported, Imports
  <2>7. id \in ItemIds
    BY DEF StateOK, TablesOK, IsPartial
  <2> QED
    BY <1>3, <2>1, <2>4, <2>5, <2>6, <2>7, RowDone
<1>7. CASE ImportRowFails
  <2>1. /\ ImportGoesOn
        /\ import' = Reported(Failed)
        /\ Importer \notin DOMAIN request'
    BY <1>7 DEF ImportRowFails, Without
  <2>2. import' = [Reported(Failed) EXCEPT !.made = import.made]
    BY <1>2, <2>1
  <2> QED
    BY <1>3, <2>1, <2>2, RowDone
<1>8. CASE ImportEnds
  <2>1. Importer \notin DOMAIN request'
    BY <1>8 DEF ImportEnds, ImportOK, vars
  <2> QED
    BY <1>8, <2>1 DEF ImportEnds, ImportOK, ImportTellsTruth
<1> QED
  BY <1>1, <1>4, <1>5, <1>6, <1>7, <1>8 DEF ImportSteps

-----------------------------------------------------------------------------
(* All together.                                                           *)

LEMMA ClientsInit == AllInit => ClientsInv
<1> SUFFICES ASSUME AllInit PROVE ClientsInv
  OBVIOUS
<1>1. SafeInv
  BY InitSafe DEF AllInit
<1>2. DOMAIN items = {} /\ DOMAIN request = {}
  BY DEF AllInit, Init, Empty
<1>3. OrderOK
  BY <1>2 DEF AllInit, OrderOK, ListsOnce, IsInjective
<1>4. DetailOK
  BY DEF AllInit, DetailOK
<1>5. WalkOK
  BY DEF AllInit, WalkOK
<1>6. ImportOK
  BY <1>2 DEF AllInit, ImportOK, ImportTellsTruth
<1> QED
  BY <1>1, <1>3, <1>4, <1>5, <1>6 DEF ClientsInv

LEMMA ClientsNext == ClientsInv /\ [AllNext]_allVars => ClientsInv'
<1> SUFFICES ASSUME ClientsInv, [AllNext]_allVars
             PROVE  ClientsInv'
  OBVIOUS
<1> USE DEF ClientsInv
<1>1. [AnyonesStep]_vars
  BY AllNextIsAnyonesStep
<1>2. SafeInv' /\ Grown
  BY <1>1, NextSafe, NextGrown
<1>3. StateOK /\ StateOK'
  BY <1>2 DEF SafeInv
<1>4. CASE ServiceStep \/ ImportCommit
  <2>1. Arrive /\ Watch /\ UNCHANGED detail
    BY <1>4 DEF ServiceStep, ImportCommit
  <2>2. OrderOK' /\ PlacesKept
    BY <1>1, <1>2, <1>3, <2>1, OrderKept
  <2>3. WalkOK'
    BY <1>2, <1>3, <2>1, <2>2, WatchKept
  <2>4. DetailOK'
    BY <1>2, <2>1, DetailKept
  <2>5. ImportOK'
    <3>1. CASE ServiceStep
      <4>1. Importer \in DOMAIN request' =>
              Importer \in DOMAIN request /\ request'[Importer] = request[Importer]
        BY <3>1, NextOthers, ClientsAssumption DEF ServiceStep
      <4> QED
        BY <1>2, <3>1, <4>1, ImportKept DEF ServiceStep
    <3>2. CASE ImportCommit
      BY <1>2, <1>3, <3>2, ImportStepsKeep DEF ImportSteps
    <3> QED
      BY <1>4, <3>1, <3>2
  <2> QED
    BY <1>2, <2>2, <2>3, <2>4, <2>5
<1>5. ASSUME UNCHANGED <<items, order>>
      PROVE  OrderOK' /\ (UNCHANGED walk => WalkOK')
  <2>1. OrderOK'
    BY <1>5 DEF OrderOK
  <2>2. ASSUME UNCHANGED walk PROVE WalkOK'
    <3> PICK w : w = walk
      OBVIOUS
    <3>1. walk' = w
      BY <2>2
    <3>2. \A f : Listed(f)' = Listed(f) /\ \A id : Ahead(f, id)' = Ahead(f, id)
      BY <1>5, SameList
    <3>3. Unseen' = Unseen /\ WalkIsComplete' = WalkIsComplete
      BY <2>2 DEF Unseen, WalkIsComplete
    <3> QED
      BY <3>1, <3>2, <3>3 DEF WalkOK
  <2> QED
    BY <2>1, <2>2
<1>6. CASE DetailSteps
  <2>1. UNCHANGED <<vars, order, walk, import>>
    BY <1>6 DEF DetailSteps, DetailItem, DetailReferrals, DetailEscalations,
                DetailEnds
  <2>2. ImportOK'
    BY <1>2, <2>1, ImportKept DEF vars
  <2> QED
    BY <1>2, <1>5, <1>6, <2>1, <2>2, DetailStepsKeep DEF vars
<1>7. CASE WalkSteps
  <2>1. UNCHANGED <<vars, order, detail, import>>
    BY <1>7 DEF WalkSteps, WalkBegin, WalkCount, WalkPage, WalkOn, WalkEnds
  <2>2. ImportOK' /\ DetailOK'
    BY <1>2, <2>1, ImportKept, DetailKept DEF vars
  <2> QED
    BY <1>2, <1>3, <1>5, <1>7, <2>1, <2>2, WalkStepsKeep DEF vars
<1>8. CASE ImportSteps /\ ~ ImportCommit
  <2>1. UNCHANGED <<items, order, detail, walk>>
    BY <1>8 DEF ImportSteps, ImportBegin, ImportKnown, ImportRegister, Register,
                ImportRowFails, ImportEnds, vars, clients
  <2>2. ImportOK'
    BY <1>2, <1>3, <1>8, ImportStepsKeep
  <2> QED
    BY <1>2, <1>5, <2>1, <2>2, DetailKept
<1>9. CASE UNCHANGED allVars
  <2>1. UNCHANGED <<items, order, detail, walk, import, request>>
    BY <1>9 DEF allVars, vars, clients
  <2> QED
    BY <1>2, <1>5, <2>1, DetailKept, ImportKept
<1> QED
  BY <1>4, <1>6, <1>7, <1>8, <1>9 DEF AllNext

(* The invariant holds always.                                             *)
THEOREM ClientsInvariant == AllSpec => []ClientsInv
BY ClientsInit, ClientsNext, PTL DEF AllSpec

(* With an import among the requests the tables stay as safe as without,   *)
(* and the copies in flight agree with them (batch_service.go:38 calls     *)
(* Register like any handler).                                             *)
THEOREM SafeBesideImports == AllSpec => []SafeInv
<1>1. ClientsInv => SafeInv
  BY DEF ClientsInv
<1> QED
  BY <1>1, ClientsInvariant, PTL

(* GetItemDetail reads the row, then the referrals, then the escalations,  *)
(* with any number of steps of anyone in between, and still shows where    *)
(* the row's routing and level come from (query_service.go:29).            *)
THEOREM DetailsAreExplained == AllSpec => []DetailExplained
<1>1. ClientsInv => DetailExplained
  BY DEF ClientsInv, DetailOK, DetailExplained, None
<1> QED
  BY <1>1, ClientsInvariant, PTL

(* A walk by offsets over a list others insert into misses nothing that    *)
(* stays in it, for any page size and number of pages (queries.go:268).    *)
THEOREM WalksAreComplete == AllSpec => []WalkIsComplete
<1>1. ClientsInv => WalkIsComplete
  BY DEF ClientsInv, WalkOK, WalkIsComplete, None
<1> QED
  BY <1>1, ClientsInvariant, PTL

(* What an import answers is so, for any batch and any requests beside it  *)
(* (batch_service.go:38).                                                  *)
THEOREM ImportsTellTruth == AllSpec => []ImportTellsTruth
<1>1. ClientsInv => ImportTellsTruth
  BY DEF ClientsInv, ImportOK
<1> QED
  BY <1>1, ClientsInvariant, PTL

-----------------------------------------------------------------------------
(* An import is one more client.                                           *)

(* The service with the import among its clients.                          *)
Joined == INSTANCE CaseService WITH Clients <- Clients \cup {Importer}

(* Nothing else of the service depends on who its clients are: what a      *)
(* client may read or write is the same with one more of them.             *)
LEMMA SameReads ==
  ASSUME NEW c
  PROVE  Joined!ReadSteps(c) <=> ReadSteps(c)
<1> USE DEF Free, Joined!Free, Put, Joined!Put
<1>1. ASSUME NEW ref, NEW s
      PROVE  Joined!Register(c, ref, s) <=> Register(c, ref, s)
  BY DEF Joined!Register, Register, Adjudicate, Joined!Adjudicate,
         ActiveRules, Joined!ActiveRules, IsActiveAt, Joined!IsActiveAt,
         Matches, Joined!Matches, Outranks, Joined!Outranks,
         RuleLead, Joined!RuleLead, Never, Joined!Never
<1>2. ASSUME NEW id
      PROVE  /\ Joined!StartProcessing(c, id) <=> StartProcessing(c, id)
             /\ \A s : Joined!Modify(c, id, s) <=> Modify(c, id, s)
             /\ Joined!ReturnForCorrection(c, id) <=> ReturnForCorrection(c, id)
             /\ Joined!Resubmit(c, id) <=> Resubmit(c, id)
             /\ Joined!Cancel(c, id) <=> Cancel(c, id)
             /\ Joined!Complete(c, id) <=> Complete(c, id)
  <2> USE DEF Prepare, Joined!Prepare
  <2>1. ASSUME NEW from, NEW to
        PROVE  Joined!ValidTransition(from, to) <=> ValidTransition(from, to)
    BY DEF ValidTransition, CanTransition, TransitionTable, Joined!TransitionTable,
           Joined!ValidTransition, Joined!CanTransition
  <2>2. Joined!StartProcessing(c, id) <=> StartProcessing(c, id)
    BY <2>1 DEF StartProcessing, Joined!StartProcessing
  <2>3. \A s : Joined!Modify(c, id, s) <=> Modify(c, id, s)
    BY DEF Modify, Joined!Modify, IsTerminal, Joined!IsTerminal
  <2>4. Joined!ReturnForCorrection(c, id) <=> ReturnForCorrection(c, id)
    BY <2>1 DEF ReturnForCorrection, Joined!ReturnForCorrection
  <2>5. Joined!Resubmit(c, id) <=> Resubmit(c, id)
    BY <2>1 DEF Resubmit, Joined!Resubmit
  <2>6. Joined!Cancel(c, id) <=> Cancel(c, id)
    BY <2>1 DEF Cancel, Joined!Cancel
  <2>7. Joined!Complete(c, id) <=> Complete(c, id)
    BY <2>1 DEF Complete, Joined!Complete
  <2> QED
    BY <2>2, <2>3, <2>4, <2>5, <2>6, <2>7
<1>3. ASSUME NEW body, NEW v
      PROVE  Joined!CreateRule(c, body, v) <=> CreateRule(c, body, v)
  BY DEF CreateRule, Joined!CreateRule, CurrentRuleVersion,
         Joined!CurrentRuleVersion, HighestOf, Joined!HighestOf
<1> HIDE DEF Free, Joined!Free, Put, Joined!Put
<1> QED
  BY <1>1, <1>2, <1>3 DEF ReadSteps, Joined!ReadSteps

(* So is what a request writes, or how it fails.                           *)
LEMMA SameWrites ==
  ASSUME NEW c
  PROVE  /\ Joined!WriteSteps(c) <=> WriteSteps(c)
         /\ Joined!RequestFails(c) <=> RequestFails(c)
BY DEF WriteSteps, Joined!WriteSteps, CommitRegister, Joined!CommitRegister,
       CommitUpdate, Joined!CommitUpdate, CommitRule, Joined!CommitRule,
       InFlight, Joined!InFlight, RefIsFree, Joined!RefIsFree,
       VersionIsFree, Joined!VersionIsFree, SupersedeRule, Joined!SupersedeRule,
       Put, Joined!Put, Without, Joined!Without, RequestFails, Joined!RequestFails

(* And the clock and both loops.                                           *)
LEMMA SameLoops ==
  /\ Joined!Tick <=> Tick
  /\ Joined!SweepSteps <=> SweepSteps
  /\ Joined!SweepFails <=> SweepFails
  /\ Joined!ReevalSteps <=> ReevalSteps
  /\ \A p : Joined!ReevalFails(p) <=> ReevalFails(p)
  /\ Joined!ReevalStops <=> ReevalStops
<1>1. Joined!Tick <=> Tick
  BY DEF Tick, Joined!Tick
<1>2. Joined!SweepBegin <=> SweepBegin
  BY DEF SweepBegin, Joined!SweepBegin, NoSweep, Joined!NoSweep,
     FindOverdueItems, Joined!FindOverdueItems, Overdue, Joined!Overdue,
     IsTerminal, Joined!IsTerminal
<1>3. ASSUME NEW e
      PROVE  /\ Joined!Escalate(e) <=> Escalate(e)
             /\ Joined!SweepRefused(e) <=> SweepRefused(e)
  BY DEF Escalate, Joined!Escalate, SweepRefused, Joined!SweepRefused,
     NoSweep, Joined!NoSweep, IsNext, Joined!IsNext, AfterItem, Joined!AfterItem,
     Reroute, Joined!Reroute, Supersede, Joined!Supersede, Put, Joined!Put,
     EscalatedRow, Joined!EscalatedRow, EscalationDepartmentName,
     Joined!EscalationDepartmentName, ValidTransition, CanTransition,
     TransitionTable, Joined!TransitionTable, Joined!ValidTransition,
     Joined!CanTransition
<1>4. Joined!SweepFails <=> SweepFails
  BY DEF SweepFails, Joined!SweepFails, NoSweep, Joined!NoSweep
<1>5. Joined!Idle = Idle /\ \A s : Joined!Reevaluable(s) <=> Reevaluable(s)
  BY DEF Idle, Joined!Idle, Reevaluable, Joined!Reevaluable
<1>6. /\ Joined!ReevalBegin <=> ReevalBegin
      /\ Joined!ReevalStops <=> ReevalStops
  BY <1>5 DEF ReevalBegin, Joined!ReevalBegin, ReevalStops, Joined!ReevalStops,
     CurrentRuleVersion, Joined!CurrentRuleVersion, HighestOf, Joined!HighestOf
<1>7. Joined!ReevalRules <=> ReevalRules
  BY DEF ReevalRules, Joined!ReevalRules, ActiveRules, Joined!ActiveRules,
     IsActiveAt, Joined!IsActiveAt
<1>8. Joined!ReevalCollect <=> ReevalCollect
  BY DEF ReevalCollect, Joined!ReevalCollect, StaleItems, Joined!StaleItems,
     Idle, Joined!Idle, Reevaluable, Joined!Reevaluable
<1>9. ASSUME NEW id
      PROVE  /\ Joined!NextItem(id) = NextItem(id)
             /\ Joined!Rerouting(id) = Rerouting(id)
  BY DEF NextItem, Joined!NextItem, Rerouting, Joined!Rerouting,
     Idle, Joined!Idle, Reevaluable, Joined!Reevaluable, Adjudicate,
     Joined!Adjudicate, Matches, Joined!Matches, Outranks, Joined!Outranks
<1>10. ASSUME NEW id
       PROVE  /\ Joined!ReevalSkip(id) <=> ReevalSkip(id)
              /\ Joined!ReevalRead(id) <=> ReevalRead(id)
  BY <1>9 DEF ReevalSkip, Joined!ReevalSkip, ReevalRead, Joined!ReevalRead,
     RuleLead, Joined!RuleLead
<1>11. ASSUME NEW p
       PROVE  /\ Joined!ReevalCommit(p) <=> ReevalCommit(p)
              /\ Joined!ReevalFails(p) <=> ReevalFails(p)
  BY <1>9 DEF ReevalCommit, Joined!ReevalCommit, ReevalFails, Joined!ReevalFails,
     Reroute, Joined!Reroute, Supersede, Joined!Supersede, Put, Joined!Put
<1>12. Joined!SweepSteps <=> SweepSteps
  BY <1>2, <1>3 DEF SweepSteps, Joined!SweepSteps
<1>13. Joined!ReevalSteps <=> ReevalSteps
  BY <1>6, <1>7, <1>8, <1>10, <1>11 DEF ReevalSteps, Joined!ReevalSteps
<1> QED
  BY <1>1, <1>4, <1>6, <1>11, <1>12, <1>13

(* The requests in flight are a table: to end one that is not there        *)
(* changes nothing.                                                        *)
RequestTable == request = [c \in DOMAIN request |-> request[c]]

LEMMA RequestTableKept ==
  ASSUME RequestTable, [AnyonesStep]_vars
  PROVE  RequestTable'
<1> DEFINE IsTable(f) == f = [c \in DOMAIN f |-> f[c]]
<1>1. ASSUME NEW c, NEW r
      PROVE  IsTable(Put(request, c, r)) /\ IsTable(Without(request, c))
  BY DEF Put, Without
<1>2. \/ UNCHANGED request
      \/ \E c, r : request' = Put(request, c, r)
      \/ \E c : request' = Without(request, c)
  BY DEF AnyonesStep, Tick, ReadSteps, Register, StartProcessing, Modify,
         ReturnForCorrection, Resubmit, Cancel, Complete, Prepare, CreateRule,
         WriteSteps, CommitRegister, CommitUpdate, CommitRule, SweepSteps,
         SweepBegin, Escalate, SweepRefused, SweepFails, ReevalSteps,
         ReevalBegin, ReevalRules, ReevalCollect, ReevalSkip, ReevalRead,
         ReevalCommit, ReevalFails, ReevalStops, Ended, vars
<1> HIDE DEF IsTable
<1>3. CASE UNCHANGED request
  BY <1>3 DEF RequestTable
<1>4. CASE ~ UNCHANGED request
  <2>1. IsTable(request')
    BY <1>1, <1>2, <1>4
  <2> QED
    BY <2>1 DEF IsTable, RequestTable
<1> QED
  BY <1>3, <1>4

(* Ending a request that is not in flight changes nothing.                 *)
LEMMA NothingEnds ==
  ASSUME RequestTable, Importer \notin DOMAIN request
  PROVE  Without(request, Importer) = request
<1>1. DOMAIN request \ {Importer} = DOMAIN request
  OBVIOUS
<1> QED
  BY <1>1 DEF Without, RequestTable

(* Every step beside imports is a step of the service with one client      *)
(* more, or none of it.                                                    *)
LEMMA AllNextIsJoined ==
  ASSUME ImportOK, RequestTable, [AllNext]_allVars
  PROVE  [Joined!Next]_vars
<1>1. ASSUME Next PROVE Joined!Next
  BY <1>1, SameReads, SameWrites, SameLoops
     DEF Next, Joined!Next, Failures, Joined!Failures
<1>2. CASE ServiceStep
  BY <1>1, <1>2 DEF ServiceStep
<1>3. CASE ImportRegister
  <2>1. /\ Head(import.rows).ref \in Refs
        /\ Head(import.rows).subject \in Subjects
    BY <1>3, ImportRows DEF ImportRegister
  <2>2. ReadSteps(Importer)
    BY <1>3, <2>1 DEF ImportRegister, ReadSteps
  <2> QED
    BY <2>2, SameReads DEF Joined!Next
<1>4. CASE ImportCommit
  <2>1. WriteSteps(Importer)
    BY <1>4 DEF ImportCommit, WriteSteps
  <2> QED
    BY <2>1, SameWrites DEF Joined!Next
<1>5. CASE ImportRowFails
  <2>1. CASE Importer \in DOMAIN request
    <3>1. RequestFails(Importer)
      BY <1>5, <2>1 DEF ImportRowFails, RequestFails
    <3> QED
      BY <3>1, SameWrites DEF Joined!Next, Joined!Failures
  <2>2. CASE Importer \notin DOMAIN request
    BY <1>5, <2>2, NothingEnds DEF ImportRowFails, vars
  <2> QED
    BY <2>1, <2>2
<1>6. CASE UNCHANGED vars
  BY <1>6
<1> QED
  BY <1>2, <1>3, <1>4, <1>5, <1>6
     DEF AllNext, allVars, DetailSteps, DetailItem, DetailReferrals,
         DetailEscalations, DetailEnds, WalkSteps, WalkBegin, WalkCount,
         WalkPage, WalkOn, WalkEnds, ImportSteps, ImportBegin, ImportKnown,
         ImportEnds

(* A batch is imported by calling Register row by row, while details and   *)
(* lists are read: what happens to the tables is what the service alone    *)
(* would do with one client more, so whatever is true of the service for   *)
(* any clients is true beside imports (batch_service.go:38).               *)
THEOREM ImportIsOneMoreClient == AllSpec => Joined!Spec
<1>1. AllInit => Joined!Init
  BY DEF AllInit, Init, Joined!Init, Empty, Joined!Empty, NoSweep,
         Joined!NoSweep, Idle, Joined!Idle
<1>2. AllInit => RequestTable
  BY DEF AllInit, Init, Empty, RequestTable
<1>3. ClientsInv /\ RequestTable /\ [AllNext]_allVars => RequestTable'
  BY AllNextIsAnyonesStep, RequestTableKept DEF ClientsInv
<1>4. ClientsInv /\ RequestTable /\ [AllNext]_allVars => [Joined!Next]_Joined!vars
  BY AllNextIsJoined DEF ClientsInv, vars, Joined!vars
<1> QED
  BY <1>1, <1>2, <1>3, <1>4, ClientsInvariant, PTL DEF AllSpec, Joined!Spec
=============================================================================
