------------------------- MODULE DurableStoreProofs -------------------------
(***************************************************************************)
(* ShardedStore implements DurableTables where nothing but the index is    *)
(* lost: a transaction is one step of the tables, seen when it commits,    *)
(* and what a rebuild would make of the shards is what the index held.     *)
(*                                                                         *)
(* The invariant says that the tables, of the index or of the open         *)
(* transaction, are what the log says last of each id (Settled), with the  *)
(* rules the audit names marked (Marked), and that what the transaction    *)
(* has left to do will make them one step of DurableTables from the index  *)
(* (Underway).                                                             *)
(***************************************************************************)
EXTENDS ShardedStoreProofs

(* No transaction fails, none overlaps, no file fills up (a transaction    *)
(* appends four records at most), and rebuild-index and the server are run *)
(* one after the other.                                                    *)
Undisturbed ==
  /\ Faults \subseteq {"loss"}
  /\ ~ SupersedeAny
  /\ MaxLines >= 4 * MaxStamp

(* The types whose records are written once and never again.               *)
Fixed == {"rules", "escalations", "audit"}

WrittenOnce(l) ==
  \A i, j \in DOMAIN l :
    (/\ l[i].file.type \in Fixed
     /\ l[i].file.type = l[j].file.type
     /\ l[i].row.id = l[j].row.id) => i = j

-----------------------------------------------------------------------------
(* What the log says last of each id.                                      *)

IsLatest(l, i) ==
  \A j \in DOMAIN l :
    l[j].file.type = l[i].file.type /\ l[j].row.id = l[i].row.id => j <= i

LatestOf(l, type) == {i \in DOMAIN l : l[i].file.type = type /\ IsLatest(l, i)}

Latest(l, type) == {l[i].row : i \in LatestOf(l, type)}

LEMMA LatestAppended ==
  ASSUME NEW l \in Seq(Records), NEW type, NEW d, NEW row, NEW new,
         Extended(l, type, d, row, new)
  PROVE  /\ Latest(new, type) = {r \in Latest(l, type) : r.id # row.id} \cup {row}
         /\ \A t : t # type => Latest(new, t) = Latest(l, t)
<1> DEFINE last == Len(l) + 1
<1>1. /\ DOMAIN l = 1 .. Len(l) /\ Len(l) \in Nat
      /\ DOMAIN new = 1 .. last
      /\ \A i \in 1 .. Len(l) : new[i].file = l[i].file /\ new[i].row = l[i].row
      /\ new[last].file.type = type
      /\ new[last].row = row
  BY DEF Extended
<1>2. /\ last \in DOMAIN new
      /\ last \notin DOMAIN l
      /\ DOMAIN new = DOMAIN l \cup {last}
      /\ \A i \in DOMAIN new : i <= last
      /\ \A i \in DOMAIN l : ~ (last <= i)
  BY <1>1
<1>3. IsLatest(new, last)
  BY <1>2 DEF IsLatest
<1>4. ASSUME NEW i \in DOMAIN l
      PROVE  IsLatest(new, i) <=>
               IsLatest(l, i) /\ ~ (l[i].file.type = type /\ l[i].row.id = row.id)
  BY <1>1, <1>2 DEF IsLatest
<1>5. ASSUME NEW t
      PROVE  LatestOf(new, t) =
               {i \in LatestOf(l, t) : ~ (t = type /\ l[i].row.id = row.id)}
                 \cup {i \in {last} : t = type}
  BY <1>1, <1>2, <1>3, <1>4 DEF LatestOf
<1>6. \A t : \A i \in LatestOf(l, t) : new[i].row = l[i].row
  BY <1>1 DEF LatestOf
<1>7. Latest(new, type) = {r \in Latest(l, type) : r.id # row.id} \cup {row}
  <2>1. ASSUME NEW r
        PROVE  r \in Latest(new, type) <=>
                 (r \in Latest(l, type) /\ r.id # row.id) \/ r = row
    BY <1>1, <1>5, <1>6 DEF Latest
  <2> QED
    BY <2>1
<1>8. ASSUME NEW t, t # type
      PROVE  Latest(new, t) = Latest(l, t)
  <2>1. LatestOf(new, t) = LatestOf(l, t)
    BY <1>5, <1>8
  <2> QED
    BY <1>6, <2>1 DEF Latest
<1> QED
  BY <1>7, <1>8

(* Whatever was logged has a latest record, and only one.                  *)
LEMMA LatestIds ==
  ASSUME NEW l \in Seq(Records), NEW i \in DOMAIN l
  PROVE  l[i].row.id \in Ids(Latest(l, l[i].file.type))
<1> DEFINE same == {j \in DOMAIN l : /\ l[j].file.type = l[i].file.type
                                     /\ l[j].row.id = l[i].row.id}
<1>1. Len(l) \in Nat /\ same \in SUBSET (0 .. Len(l)) /\ i \in same
  BY DEF same
<1>2. PICK k \in same : \A m \in same : m <= k
  BY <1>1, GreatestNatural, Zenon
<1>3. k \in LatestOf(l, l[i].file.type)
  BY <1>2 DEF LatestOf, IsLatest
<1> QED
  BY <1>2, <1>3 DEF Latest, Ids

LEMMA LatestUnique ==
  ASSUME NEW l \in Seq(Records), NEW type,
         NEW r \in Latest(l, type), NEW s \in Latest(l, type), r.id = s.id
  PROVE  r = s
<1>1. PICK i \in LatestOf(l, type), j \in LatestOf(l, type) :
        r = l[i].row /\ s = l[j].row
  BY DEF Latest
<1>2. i \in Nat /\ j \in Nat /\ i <= j /\ j <= i
  BY <1>1 DEF LatestOf, IsLatest
<1> QED
  BY <1>1, <1>2

LEMMA LatestTyped ==
  ASSUME NEW l \in Seq(Records), NEW type, NEW r \in Latest(l, type)
  PROVE  \E i \in DOMAIN l : /\ l[i].file.type = type
                             /\ l[i].row = r
                             /\ r \in Rows(type)
<1>1. PICK i \in DOMAIN l : l[i].file.type = type /\ l[i].row = r
  BY DEF Latest, LatestOf
<1>2. l[i] \in Records
  OBVIOUS
<1> QED
  BY <1>1, <1>2 DEF Records, IsRecord

(* Where the records of an id are in order, and every line can be read,    *)
(* replay takes the latest of each id.                                     *)
LEMMA CollectedIsLatest ==
  ASSUME NEW l \in Seq(Records), NEW type \in Revised \cup Fixed,
         InOrder(l), WrittenOnce(l), \A i \in DOMAIN l : Readable(l[i])
  PROVE  Collected(l, type) = Latest(l, type)
<1>1. ASSUME NEW i \in DOMAIN l, l[i].file.type = type
      PROVE  i \in LastRead(l, type, l[i].row.id) <=> IsLatest(l, i)
  <2> DEFINE same == {j \in DOMAIN l : /\ l[j].file.type = type
                                       /\ l[j].row.id = l[i].row.id}
  <2>1. RecordsOf(l, type, l[i].row.id) = same /\ i \in same
    BY <1>1 DEF RecordsOf
  <2>2. ASSUME NEW j \in same, j # i
        PROVE  ReadBefore(l, j, i) <=> j <= i
    <3>1. CASE type \in Fixed
      BY <1>1, <2>2, <3>1 DEF WrittenOnce
    <3>2. CASE type \in Revised
      <4>1. i \in Nat /\ j \in Nat
        OBVIOUS
      <4>2. l[i].file.day \in Int /\ l[j].file.day \in Int
        BY <1>1, <3>2, RevisedRecords
      <4>3. i < j => l[i].file.day <= l[j].file.day
        BY <1>1, <3>2 DEF InOrder
      <4>4. j < i => l[j].file.day <= l[i].file.day
        BY <1>1, <3>2 DEF InOrder
      <4> QED
        BY <2>2, <4>1, <4>2, <4>3, <4>4 DEF ReadBefore
    <3> QED
      BY <3>1, <3>2
  <2>3. i <= i
    OBVIOUS
  <2> HIDE DEF same
  <2>4. IsLatest(l, i) <=> \A j \in same : j <= i
    BY <1>1 DEF IsLatest, same
  <2>5. i \in LastRead(l, type, l[i].row.id) <=>
          \A j \in same \ {i} : ReadBefore(l, j, i)
    BY <2>1 DEF LastRead
  <2> QED
    BY <2>2, <2>3, <2>4, <2>5
<1>2. ASSUME NEW r
      PROVE  r \in Collected(l, type) <=> r \in Latest(l, type)
  <2>1. r \in Collected(l, type) <=>
          \E i \in DOMAIN l : /\ l[i].file.type = type
                              /\ l[i].row = r
                              /\ i \in LastRead(l, type, l[i].row.id)
    <3>1. \A id, i : i \in LastRead(l, type, id) =>
            i \in DOMAIN l /\ l[i].file.type = type /\ l[i].row.id = id
      BY DEF LastRead, RecordsOf
    <3>2. r \in Collected(l, type) <=>
            \E i \in DOMAIN l : \E j \in LastRead(l, type, l[i].row.id) :
              l[i].file.type = type /\ l[j].row = r
      BY DEF Collected
    <3> QED
      BY <3>1, <3>2
  <2>2. r \in Latest(l, type) <=>
          \E i \in DOMAIN l : /\ l[i].file.type = type
                              /\ l[i].row = r
                              /\ IsLatest(l, i)
    BY DEF Latest, LatestOf
  <2> QED
    BY <1>1, <2>1, <2>2
<1> QED
  BY <1>2

(* The rules whose records of the audit say that they are superseded.      *)
Audited(l) == {r.rule : r \in Latest(l, "audit")}

Marking(rows, S) ==
  {IF r.id \in S THEN [r EXCEPT !.status = "superseded"] ELSE r : r \in rows}

LEMMA RebuiltFromLatest ==
  ASSUME NEW l \in Seq(Records), InOrder(l), WrittenOnce(l),
         \A i \in DOMAIN l : Readable(l[i]), NEW tables
  PROVE  /\ Rebuilt(l, tables)["items"] = Latest(l, "items")
         /\ Rebuilt(l, tables)["escalations"] = Latest(l, "escalations")
         /\ Rebuilt(l, tables)["failures"] = Latest(l, "failures")
         /\ Rebuilt(l, tables)["rules"] =
              Marking(tables["rules"] \cup Latest(l, "rules"), Audited(l))
<1> DEFINE all == [type \in Types |->
                     DeleteAllData(tables)[type] \cup Collected(l, type)]
<1>1. /\ Collected(l, "items") = Latest(l, "items")
      /\ Collected(l, "escalations") = Latest(l, "escalations")
      /\ Collected(l, "failures") = Latest(l, "failures")
      /\ Collected(l, "rules") = Latest(l, "rules")
      /\ Collected(l, "audit") = Latest(l, "audit")
  BY CollectedIsLatest, Zenon DEF Revised, Fixed
<1>2. /\ all["items"] = Latest(l, "items")
      /\ all["escalations"] = Latest(l, "escalations")
      /\ all["failures"] = Latest(l, "failures")
      /\ all["audit"] = Latest(l, "audit")
      /\ all["rules"] = tables["rules"] \cup Latest(l, "rules")
  BY <1>1 DEF DeleteAllData, Types
<1>3. DOMAIN all = Types
  OBVIOUS
<1>4. Rebuilt(l, tables) = PostProcessRebuild(all)
  BY DEF Rebuilt
<1> HIDE DEF all
<1>5. /\ PostProcessRebuild(all)["items"] = all["items"]
      /\ PostProcessRebuild(all)["escalations"] = all["escalations"]
      /\ PostProcessRebuild(all)["failures"] = all["failures"]
  BY <1>3 DEF PostProcessRebuild, Types
<1>6. PostProcessRebuild(all)["rules"] =
        Marking(all["rules"], {r.rule : r \in all["audit"]})
  BY <1>3 DEF PostProcessRebuild, Marking, Types
<1> QED
  BY <1>2, <1>4, <1>5, <1>6, Zenon DEF Audited

-----------------------------------------------------------------------------
(* The invariant.                                                          *)

Kept == {"items", "rules", "escalations", "failures"}

(* Lines are whole and in first parts, and a transaction has the index and *)
(* the shards to itself.                                                   *)
PlainInv ==
  /\ \A i \in DOMAIN log : log[i].end = "whole" /\ log[i].file.part = 0
  /\ Len(log) + Len(tx.todo) <= 4 * stamp
  /\ ~ tx.open => tx.todo = <<>>
  /\ tx.open => ~ lost /\ rebuild.phase # "scanned"
  /\ rebuild.phase = "scanned" => rebuild.seen = log
  /\ lost => index = EmptyIndex

(* Versions audited are no newer than those recorded.                      *)
VersionLogged(v) ==
  \E j \in DOMAIN log : log[j].file.type = "rules" /\ v <= log[j].row.id

LogInv ==
  /\ WrittenOnce(log)
  /\ \A i \in DOMAIN log :
       /\ log[i].file.type \in {"escalations", "audit"} => log[i].row.id < stamp
       /\ log[i].file.type = "rules" => log[i].row.status = "active"
       /\ log[i].file.type = "audit" => VersionLogged(log[i].row.rule)

(* What is going to be recorded once has not been recorded yet.            *)
ToRecord(o) ==
  /\ o.op = "update" => o.type \in Revised
  /\ (o.op = "save" /\ o.type \in {"escalations", "audit"}) =>
       o.row.id < stamp /\ Fresh(o)
  /\ o.type = "audit" => VersionLogged(o.row.rule)

OneOfAKind(todo) ==
  \A i, j \in DOMAIN todo :
    (/\ todo[i].type = todo[j].type
     /\ todo[i].op = todo[j].op) => i = j

PendingInv ==
  /\ \A i \in DOMAIN tx.todo : ToRecord(tx.todo[i])
  /\ OneOfAKind(tx.todo)

(* Tables that say what the log says, but for superseded rules ...         *)
Unmarked(rows) == {[id |-> r.id, status |-> "active"] : r \in rows}

Settled(t) ==
  /\ t["items"] = Latest(log, "items")
  /\ t["escalations"] = Latest(log, "escalations")
  /\ t["failures"] = Latest(log, "failures")
  /\ Unmarked(t["rules"]) = Latest(log, "rules")
  /\ \A r, s \in t["rules"] : r.id = s.id => r = s

(* ... which are the ones of the audit.                                    *)
Marked(rows, S) == \A r \in rows : r.status = "superseded" <=> r.id \in S

(* What the open transaction has left to do to a table.                    *)
PendingIn(todo, type) ==
  {<<todo[i].op, todo[i].row>> : i \in {j \in DOMAIN todo : todo[j].type = type}}

Pending(type) == PendingIn(tx.todo, type)

Unused(type, new, rows) ==
  /\ new.id \notin Ids(rows)
  /\ type = "items" => \A r \in rows : r.ref # new.ref
  /\ type = "rules" => new.status = "active"

(* Doing that will make it the table a transaction is heading for.         *)
Heading(type, goal) ==
  \/ Pending(type) = {} /\ goal = tx.work[type]
  \/ \E new \in Rows(type) :
       /\ Pending(type) = {<<"save", new>>}
       /\ Unused(type, new, tx.work[type])
       /\ goal = tx.work[type] \cup {new}
  \/ \E old \in tx.work[type], new \in Rows(type) :
       /\ type \in Revised
       /\ Pending(type) = {<<"update", new>>}
       /\ new.id = old.id
       /\ goal = (tx.work[type] \ {old}) \cup {new}
  \/ \E new \in Rows(type), end \in AnyRow :
       /\ type = "rules"
       /\ Pending(type) = {<<"supersede", end>>, <<"save", new>>}
       /\ Unused(type, new, tx.work[type])
       /\ new.id # end.id
       /\ goal = Marking(tx.work[type], {end.id}) \cup {new}
  \/ \E end \in AnyRow :
       /\ type = "rules"
       /\ Pending(type) = {<<"supersede", end>>}
       /\ goal = Marking(tx.work[type], {end.id})

(* The tables a transaction is heading for are one step of DurableTables   *)
(* from the index.                                                         *)
RegisterTo(goal) ==
  \E new \in Rows("items") :
    /\ Unused("items", new, index["items"])
    /\ goal["items"] = index["items"] \cup {new}
    /\ \A t \in Kept \ {"items"} : goal[t] = index[t]

MoveTo(goal) ==
  \E old \in index["items"], new \in Rows("items") :
    /\ new.id = old.id
    /\ new.ref = old.ref
    /\ new.rev > old.rev
    /\ goal["items"] = (index["items"] \ {old}) \cup {new}
    /\ \/ goal["escalations"] = index["escalations"]
       \/ \E esc \in Rows("escalations") :
            /\ esc.item = old.id
            /\ Unused("escalations", esc, index["escalations"])
            /\ goal["escalations"] = index["escalations"] \cup {esc}
    /\ goal["rules"] = index["rules"]
    /\ goal["failures"] = index["failures"]

RuleTo(goal) ==
  \E new \in Rows("rules"), S \in SUBSET (1 .. MaxVersion) :
    /\ Unused("rules", new, index["rules"])
    /\ \A v, w \in S : v = w
    /\ goal["rules"] = Marking(index["rules"], S) \cup {new}
    /\ \A t \in Kept \ {"rules"} : goal[t] = index[t]

FailureTo(goal) ==
  /\ \/ \E new \in Rows("failures") :
          /\ Unused("failures", new, index["failures"])
          /\ goal["failures"] = index["failures"] \cup {new}
     \/ \E old \in index["failures"], new \in Rows("failures") :
          /\ new.id = old.id
          /\ new.rev > old.rev
          /\ goal["failures"] = (index["failures"] \ {old}) \cup {new}
  /\ \A t \in Kept \ {"failures"} : goal[t] = index[t]

StepTo(goal) ==
  RegisterTo(goal) \/ MoveTo(goal) \/ RuleTo(goal) \/ FailureTo(goal)

(* Rules will be superseded where the audit says so, or is going to.       *)
ToAudit == {p[2].rule : p \in Pending("audit")}

HeadingFor(goal) ==
  /\ \A t \in Kept : Heading(t, goal[t])
  /\ Marked(goal["rules"], Audited(log) \cup ToAudit)

Underway == \E goal : StepTo(goal) /\ HeadingFor(goal)

DurableInv ==
  /\ PlainInv
  /\ LogInv
  /\ PendingInv
  /\ ~ tx.open /\ ~ lost => Settled(index) /\ Marked(index["rules"], Audited(log))
  /\ tx.open => Settled(tx.work) /\ Underway

-----------------------------------------------------------------------------
(* Doing the first operation.                                              *)

LEMMA RestOf ==
  ASSUME NEW todo \in Seq(Operations), todo # <<>>, OneOfAKind(todo)
  PROVE  /\ Tail(todo) \in Seq(Operations)
         /\ Len(Tail(todo)) = Len(todo) - 1
         /\ Len(todo) \in Nat /\ Len(todo) >= 1
         /\ OneOfAKind(Tail(todo))
         /\ \A i \in DOMAIN Tail(todo) :
              /\ \E j \in DOMAIN todo : Tail(todo)[i] = todo[j]
              /\ ~ (/\ Tail(todo)[i].type = Head(todo).type
                    /\ Tail(todo)[i].op = Head(todo).op)
         /\ \E j \in DOMAIN todo : Head(todo) = todo[j]
         /\ <<Head(todo).op, Head(todo).row>> \in PendingIn(todo, Head(todo).type)
         /\ PendingIn(Tail(todo), Head(todo).type) =
              PendingIn(todo, Head(todo).type) \ {<<Head(todo).op, Head(todo).row>>}
         /\ \A t : t # Head(todo).type =>
              PendingIn(Tail(todo), t) = PendingIn(todo, t)
<1> DEFINE rest == Tail(todo)
           first == Head(todo)
           n == Len(todo)
<1>1. /\ n \in Nat /\ n >= 1
      /\ DOMAIN todo = 1 .. n
      /\ rest \in Seq(Operations)
      /\ Len(rest) = n - 1
      /\ DOMAIN rest = 1 .. n - 1
      /\ \A i \in 1 .. n - 1 : rest[i] = todo[i + 1]
      /\ first = todo[1]
  <2>1. n \in Nat /\ n # 0 /\ DOMAIN todo = 1 .. n
    OBVIOUS
  <2>2. rest \in Seq(Operations) /\ Len(rest) = n - 1 /\ first = todo[1]
    OBVIOUS
  <2>3. DOMAIN rest = 1 .. n - 1
    BY <2>2
  <2>4. \A i \in 1 .. n - 1 : rest[i] = todo[i + 1]
    OBVIOUS
  <2> QED
    BY <2>1, <2>2, <2>3, <2>4
<1> HIDE DEF rest, first, n
<1>2. \A i \in 1 .. n - 1 : i + 1 \in DOMAIN todo /\ i + 1 # 1
  BY <1>1
<1>3. 1 \in DOMAIN todo /\ \A i \in DOMAIN todo : i = 1 \/ i - 1 \in 1 .. n - 1
  BY <1>1
<1>4. \A i \in DOMAIN todo : i # 1 => rest[i - 1] = todo[i] /\ i - 1 \in DOMAIN rest
  <2>1. \A i \in DOMAIN todo : i # 1 => i - 1 \in 1 .. n - 1 /\ (i - 1) + 1 = i
    BY <1>1
  <2> QED
    BY <1>1, <2>1
<1>5. \A i \in DOMAIN todo :
        i # 1 => ~ (todo[i].type = first.type /\ todo[i].op = first.op)
  BY <1>1, <1>3 DEF OneOfAKind
<1>6. \A i \in DOMAIN rest :
        /\ \E j \in DOMAIN todo : rest[i] = todo[j]
        /\ ~ (rest[i].type = first.type /\ rest[i].op = first.op)
  BY <1>1, <1>2, <1>5
<1>7. OneOfAKind(rest)
  <2>1. ASSUME NEW i \in DOMAIN rest, NEW j \in DOMAIN rest,
               rest[i].type = rest[j].type, rest[i].op = rest[j].op
        PROVE  i = j
    <3> DEFINE a == i + 1
               b == j + 1
    <3>1. /\ a \in DOMAIN todo /\ rest[i] = todo[a]
          /\ b \in DOMAIN todo /\ rest[j] = todo[b]
      BY <1>1, <1>2
    <3> HIDE DEF a, b
    <3>2. a = b
      BY <2>1, <3>1 DEF OneOfAKind
    <3>3. i + 1 = j + 1
      BY <3>2 DEF a, b
    <3> QED
      BY <1>1, <3>3
  <2> QED
    BY <2>1 DEF OneOfAKind
<1>8. ASSUME NEW t, NEW p
      PROVE  p \in PendingIn(rest, t) <=>
               \E i \in DOMAIN todo : /\ i # 1
                                      /\ todo[i].type = t
                                      /\ p = <<todo[i].op, todo[i].row>>
  <2>1. p \in PendingIn(rest, t) <=>
          \E i \in DOMAIN rest : /\ rest[i].type = t
                                 /\ p = <<rest[i].op, rest[i].row>>
    BY DEF PendingIn
  <2>2. \A i \in DOMAIN rest : \E j \in DOMAIN todo : j # 1 /\ rest[i] = todo[j]
    BY <1>1, <1>2
  <2>3. \A j \in DOMAIN todo : j # 1 => \E i \in DOMAIN rest : rest[i] = todo[j]
    BY <1>4
  <2> QED
    BY <2>1, <2>2, <2>3
<1>9. ASSUME NEW t, NEW p
      PROVE  p \in PendingIn(todo, t) <=>
               \E i \in DOMAIN todo : /\ todo[i].type = t
                                      /\ p = <<todo[i].op, todo[i].row>>
  BY DEF PendingIn
<1>10. <<first.op, first.row>> \in PendingIn(todo, first.type)
  BY <1>1, <1>3, <1>9
<1>11. PendingIn(rest, first.type) =
         PendingIn(todo, first.type) \ {<<first.op, first.row>>}
  <2>1. ASSUME NEW i \in DOMAIN todo, i # 1, todo[i].type = first.type
        PROVE  <<todo[i].op, todo[i].row>> # <<first.op, first.row>>
    BY <1>5, <2>1
  <2>2. ASSUME NEW p
        PROVE  p \in PendingIn(rest, first.type) <=>
                 /\ p \in PendingIn(todo, first.type)
                 /\ p # <<first.op, first.row>>
    BY <1>1, <1>8, <1>9, <2>1
  <2> QED
    BY <2>2
<1>12. ASSUME NEW t, t # first.type
       PROVE  PendingIn(rest, t) = PendingIn(todo, t)
  <2>1. ASSUME NEW p
        PROVE  p \in PendingIn(rest, t) <=> p \in PendingIn(todo, t)
    BY <1>1, <1>8, <1>9, <1>12
  <2> QED
    BY <2>1
<1>13. \E j \in DOMAIN todo : first = todo[j]
  BY <1>1, <1>3
<1> QED
  BY <1>1, <1>6, <1>7, <1>10, <1>11, <1>12, <1>13 DEF rest, first, n

(* Where no file fills up and no line is torn, a line is appended to the   *)
(* first part, whole.                                                      *)
LEMMA PlainAppend ==
  ASSUME NEW l \in Seq(Records), NEW type \in Types, NEW d \in 0 .. MaxDay,
         NEW row \in Rows(type), Len(l) < MaxLines,
         \A i \in DOMAIN l : l[i].end = "whole" /\ l[i].file.part = 0
  PROVE  LET new == AppendRecord(l, type, d, row, "whole")
         IN  /\ Extended(l, type, d, row, new)
             /\ \A i \in DOMAIN new : new[i].end = "whole" /\ new[i].file.part = 0
<1> DEFINE new == AppendRecord(l, type, d, row, "whole")
           first == File(type, d, 0)
           lines == {i \in InFile(l, first) : l[i].end # "joined"}
           n == Len(l)
<1>1. Extended(l, type, d, row, new)
  BY Appended
<1>2. ~ Full(l, first)
  <2>1. n \in Nat /\ 1 \in Int /\ n \in Int /\ DOMAIN l = 1 .. n
    OBVIOUS
  <2>2. IsFiniteSet(1 .. n) /\ Cardinality(1 .. n) <= n
    <3>1. Cardinality(1 .. n) = IF 1 > n THEN 0 ELSE n - 1 + 1
      BY <2>1, FS_Interval
    <3>2. IsFiniteSet(1 .. n)
      BY <2>1, FS_Interval
    <3> HIDE DEF n
    <3> QED
      BY <2>1, <3>1, <3>2
  <2>3. lines \in SUBSET (1 .. n)
    BY <2>1 DEF InFile
  <2>4. Lines(l, first) = Cardinality(lines)
    BY DEF Lines
  <2> HIDE DEF lines, n, first
  <2>5. Cardinality(lines) <= Cardinality(1 .. n) /\ IsFiniteSet(lines)
    BY <2>2, <2>3, FS_Subset
  <2>6. Cardinality(lines) \in Nat /\ Cardinality(1 .. n) \in Nat
    BY <2>2, <2>5, FS_CardinalityType
  <2>7. n < MaxLines /\ MaxLines \in Nat
    BY ConstantsOK DEF n
  <2> QED
    BY <2>1, <2>2, <2>4, <2>5, <2>6, <2>7 DEF Full
<1>3. RotateIfNeeded(l, type, d) = first
  <2> DEFINE parts == 0 .. Cardinality(Files(l))
             room  == {p \in parts : ~ Full(l, File(type, d, p))}
  <2>1. Cardinality(Files(l)) \in Nat
    BY FilesFinite
  <2>2. 0 \in room /\ \A q \in room : 0 <= q /\ (q <= 0 => q = 0)
    BY <1>2, <2>1
  <2> HIDE DEF room
  <2>3. (CHOOSE p \in room : \A q \in room : p <= q) = 0
    BY <2>2
  <2> QED
    BY <2>3 DEF RotateIfNeeded, room
<1>4. TornLast(l, first) = {}
  BY DEF TornLast, InFile
<1>5. new = Append([i \in DOMAIN l |->
                      IF i \in {} THEN [l[i] EXCEPT !.end = "cut"] ELSE l[i]],
                   [file |-> first, row |-> row, end |-> "whole"])
  BY <1>3, <1>4 DEF AppendRecord
<1>6. [i \in DOMAIN l |-> IF i \in {} THEN [l[i] EXCEPT !.end = "cut"] ELSE l[i]] = l
  OBVIOUS
<1>7. new = Append(l, [file |-> first, row |-> row, end |-> "whole"])
  BY <1>5, <1>6
<1>8. \A i \in DOMAIN new : new[i].end = "whole" /\ new[i].file.part = 0
  <2> DEFINE last == [file |-> first, row |-> row, end |-> "whole"]
  <2>1. last.end = "whole" /\ last.file.part = 0
    BY DEF File
  <2> HIDE DEF last
  <2>2. new = Append(l, last)
    BY <1>7 DEF last
  <2> HIDE DEF new
  <2>3. \A i \in DOMAIN new : (i \in DOMAIN l /\ new[i] = l[i]) \/ new[i] = last
    BY <2>2
  <2> QED
    BY <2>1, <2>3
<1> QED
  BY <1>1, <1>8

-----------------------------------------------------------------------------
(* Appending keeps the invariant.                                          *)

(* An operation that appends, and all that it leaves behind.               *)
AppendsRow(op, type, d) ==
  /\ op \in {"save", "update"} /\ type \in Types
  /\ Row \in Rows(type)
  /\ tx.open /\ tx'.open
  /\ Head(tx.todo).op = op /\ Head(tx.todo).type = type
  /\ tx'.work[type] = IF op = "save" THEN tx.work[type] \cup {Row}
                                     ELSE Updated(type)
  /\ \A t \in Types \ {type} : tx'.work[t] = tx.work[t]
  /\ UNCHANGED <<stamp, index, rebuild, lost>>
  /\ log \in Seq(Records)
  /\ Extended(log, type, d, Row, log')
  /\ \A i \in DOMAIN log' : log'[i].end = "whole" /\ log'[i].file.part = 0

(* The operation done is off the list.                                     *)
TakenOff(op, type) ==
  /\ tx.todo \in Seq(Operations)
  /\ Len(tx'.todo) = Len(tx.todo) - 1
  /\ Len(tx.todo) \in Nat
  /\ OneOfAKind(tx'.todo)
  /\ \A i \in DOMAIN tx'.todo :
       /\ \E j \in DOMAIN tx.todo : tx'.todo[i] = tx.todo[j]
       /\ ~ (tx'.todo[i].type = type /\ tx'.todo[i].op = op)
  /\ \E j \in DOMAIN tx.todo : Head(tx.todo) = tx.todo[j]
  /\ <<op, Row>> \in Pending(type)
  /\ PendingIn(tx'.todo, type) = Pending(type) \ {<<op, Row>>}
  /\ \A t : t # type => PendingIn(tx'.todo, t) = Pending(t)

LEMMA ContinueTakesOff ==
  ASSUME TypeInv, PendingInv, NEW op, NEW type, Doing(op, type),
         tx'.todo = Tail(tx.todo)
  PROVE  TakenOff(op, type)
<1>1. tx.todo \in Seq(Operations) /\ tx.todo # <<>> /\ OneOfAKind(tx.todo)
  BY DEF TypeInv, Doing, PendingInv
<1>2. Head(tx.todo).op = op /\ Head(tx.todo).type = type
  BY DEF Doing
<1> DEFINE todo == tx.todo
           rest == Tail(tx.todo)
           done == <<op, Row>>
<1>3. rest = tx'.todo /\ done = <<Head(todo).op, Head(todo).row>>
  BY <1>2 DEF Row
<1>4. /\ Len(rest) = Len(todo) - 1
      /\ Len(todo) \in Nat
      /\ OneOfAKind(rest)
      /\ \E j \in DOMAIN todo : Head(todo) = todo[j]
  BY <1>1, RestOf
<1>5. \A i \in DOMAIN rest :
        /\ \E j \in DOMAIN todo : rest[i] = todo[j]
        /\ ~ (rest[i].type = type /\ rest[i].op = op)
  BY <1>1, <1>2, RestOf
<1>6. done \in PendingIn(todo, type)
  BY <1>1, <1>2, <1>3, RestOf, Zenon
<1>7. PendingIn(rest, type) = PendingIn(todo, type) \ {done}
  BY <1>1, <1>2, <1>3, RestOf, Zenon
<1>8. \A t : t # type => PendingIn(rest, t) = PendingIn(todo, t)
  BY <1>1, <1>2, RestOf, Zenon
<1>9. /\ \A t : Pending(t) = PendingIn(todo, t)
      /\ todo \in Seq(Operations)
  BY <1>1 DEF Pending
<1> HIDE DEF rest, done
<1>10. TakenOff(op, type) =
         /\ todo \in Seq(Operations)
         /\ Len(rest) = Len(todo) - 1
         /\ Len(todo) \in Nat
         /\ OneOfAKind(rest)
         /\ \A i \in DOMAIN rest :
              /\ \E j \in DOMAIN todo : rest[i] = todo[j]
              /\ ~ (rest[i].type = type /\ rest[i].op = op)
         /\ \E j \in DOMAIN todo : Head(todo) = todo[j]
         /\ done \in Pending(type)
         /\ PendingIn(rest, type) = Pending(type) \ {done}
         /\ \A t : t # type => PendingIn(rest, t) = Pending(t)
  BY <1>3, Zenon DEF TakenOff, done
<1> QED
  BY <1>4, <1>5, <1>6, <1>7, <1>8, <1>9, <1>10, Zenon

LEMMA AppendDone ==
  ASSUME Undisturbed, TypeInv, PlainInv,
         NEW op \in {"save", "update"}, NEW type \in Types,
         NEW d \in 0 .. MaxDay, NEW rows \in SUBSET Rows(type),
         Doing(op, type), Appends(type, d, "whole", rows),
         tx' = Continue(type, rows),
         rows = IF op = "save" THEN tx.work[type] \cup {Row} ELSE Updated(type)
  PROVE  AppendsRow(op, type, d) /\ tx'.todo = Tail(tx.todo)
<1>1. Row \in Rows(type) /\ log \in Seq(Records)
  BY NextOperation DEF TypeInv
<1>2. /\ tx'.todo = Tail(tx.todo) /\ tx'.open
      /\ tx'.work[type] = rows
      /\ \A t \in Types \ {type} : tx'.work[t] = tx.work[t]
  BY Continued
<1>3. Len(log) < MaxLines
  <2>1. tx.todo \in Seq(Operations) /\ tx.todo # <<>>
    BY DEF TypeInv, Doing
  <2>2. Len(tx.todo) \in Nat /\ Len(tx.todo) # 0 /\ Len(log) \in Nat
    BY <1>1, <2>1
  <2>3. stamp \in Nat /\ stamp <= MaxStamp
    BY ConstantsOK DEF TypeInv
  <2>4. Len(log) + Len(tx.todo) <= 4 * stamp
    BY DEF PlainInv
  <2> QED
    BY <2>2, <2>3, <2>4, ConstantsOK DEF Undisturbed
<1>4. /\ Extended(log, type, d, Row, log')
      /\ \A i \in DOMAIN log' : log'[i].end = "whole" /\ log'[i].file.part = 0
  <2>1. \A i \in DOMAIN log : log[i].end = "whole" /\ log[i].file.part = 0
    BY DEF PlainInv
  <2>2. log' = AppendRecord(log, type, d, Row, "whole")
    BY DEF Appends
  <2> QED
    BY <1>1, <1>3, <2>1, <2>2, PlainAppend
<1> QED
  BY <1>1, <1>2, <1>4 DEF AppendsRow, Appends, Doing

LEMMA AppendPlain ==
  ASSUME PlainInv, NEW op, NEW type, NEW d, AppendsRow(op, type, d),
         TakenOff(op, type), stamp \in Nat
  PROVE  PlainInv'
<1>1. /\ Len(log') = Len(log) + 1
      /\ Len(tx'.todo) = Len(tx.todo) - 1
      /\ Len(log) \in Nat /\ Len(tx.todo) \in Nat
      /\ tx.open /\ tx'.open
      /\ UNCHANGED <<stamp, index, rebuild, lost>>
  BY DEF AppendsRow, Extended, TakenOff
<1>2. Len(log') + Len(tx'.todo) <= 4 * stamp'
  <2>1. Len(log) + Len(tx.todo) <= 4 * stamp
    BY DEF PlainInv
  <2> DEFINE a == Len(log)
             b == Len(tx.todo)
  <2>2. Len(log') = a + 1 /\ Len(tx'.todo) = b - 1 /\ a \in Nat /\ b \in Nat
    BY <1>1
  <2>3. a + b <= 4 * stamp /\ stamp' = stamp
    BY <1>1, <2>1
  <2> HIDE DEF a, b
  <2> QED
    BY <2>2, <2>3
<1>3. \A i \in DOMAIN log' : log'[i].end = "whole" /\ log'[i].file.part = 0
  BY DEF AppendsRow
<1> QED
  BY <1>1, <1>2, <1>3 DEF PlainInv

(* What the plan of the transaction says of the operation.                 *)
LEMMA SavedIsUnused ==
  ASSUME Underway, NEW op \in {"save", "update"}, NEW type \in Kept,
         <<op, Row>> \in Pending(type)
  PROVE  /\ op = "save" => Unused(type, Row, tx.work[type])
         /\ op = "update" =>
              type \in Revised /\ \E old \in tx.work[type] : old.id = Row.id
<1>1. PICK goal : Heading(type, goal)
  BY DEF Underway, HeadingFor
<1> DEFINE done == <<op, Row>>
<1>2. done[1] = op /\ done[2] = Row /\ done \in Pending(type)
  OBVIOUS
<1> HIDE DEF done
<1>3. CASE \E new \in Rows(type) : /\ Pending(type) = {<<"save", new>>}
                                  /\ Unused(type, new, tx.work[type])
  BY <1>2, <1>3
<1>4. CASE \E old \in tx.work[type], new \in Rows(type) :
             /\ type \in Revised
             /\ Pending(type) = {<<"update", new>>}
             /\ new.id = old.id
  BY <1>2, <1>4
<1>5. CASE \E new \in Rows(type), end \in AnyRow :
             /\ Pending(type) = {<<"supersede", end>>, <<"save", new>>}
             /\ Unused(type, new, tx.work[type])
  BY <1>2, <1>5
<1>6. CASE \E end \in AnyRow : Pending(type) = {<<"supersede", end>>}
  BY <1>2, <1>6
<1>7. CASE Pending(type) = {}
  BY <1>2, <1>7
<1> QED
  BY <1>1, <1>3, <1>4, <1>5, <1>6, <1>7 DEF Heading

(* A table that is settled has the ids that were logged.                   *)
LEMMA SettledIds ==
  ASSUME NEW t, Settled(t), NEW type \in Kept
  PROVE  Ids(Latest(log, type)) = Ids(t[type])
<1>1. CASE type = "rules"
  <2>1. Latest(log, type) = Unmarked(t[type])
    BY <1>1 DEF Settled
  <2> DEFINE rows == t[type]
             m(r) == [id |-> r.id, status |-> "active"]
  <2>2. \A r : m(r).id = r.id
    OBVIOUS
  <2> HIDE DEF rows, m
  <2>3. Unmarked(rows) = {m(r) : r \in rows}
    BY DEF Unmarked, m
  <2>4. Ids(Unmarked(rows)) = Ids(rows)
    BY <2>2, <2>3 DEF Ids
  <2> QED
    BY <2>1, <2>4 DEF rows
<1>2. CASE type # "rules"
  <2>1. Latest(log, type) = t[type]
    BY <1>2, Zenon DEF Settled, Kept
  <2> QED
    BY <2>1, Zenon
<1> QED
  BY <1>1, <1>2

LEMMA SavedIsFresh ==
  ASSUME TypeInv, PendingInv, Underway, Settled(tx.work),
         NEW type, NEW d, AppendsRow("save", type, d), TakenOff("save", type),
         type # "assignments"
  PROVE  \A i \in DOMAIN log : log[i].file.type = type => log[i].row.id # Row.id
<1>1. type \in Types /\ <<"save", Row>> \in Pending(type)
  BY DEF AppendsRow, TakenOff
<1>2. CASE type \in Kept
  <2>1. Row.id \notin Ids(tx.work[type])
    BY <1>1, <1>2, SavedIsUnused DEF Unused
  <2>2. Row.id \notin Ids(Latest(log, type))
    BY <1>2, <2>1, SettledIds
  <2> QED
    BY <2>2, LatestIds DEF TypeInv
<1>3. CASE type = "audit"
  <2>1. Head(tx.todo).op = "save" /\ Head(tx.todo).type = "audit"
    BY <1>3 DEF AppendsRow
  <2>2. ToRecord(Head(tx.todo))
    BY DEF PendingInv, TakenOff
  <2>3. Fresh(Head(tx.todo))
    BY <2>1, <2>2 DEF ToRecord
  <2> QED
    BY <1>3, <2>1, <2>3 DEF Fresh, Row
<1> QED
  BY <1>1, <1>2, <1>3 DEF Types, Kept

LEMMA AppendLog ==
  ASSUME TypeInv, LogInv, PendingInv, Underway, Settled(tx.work),
         NEW op, NEW type, NEW d, AppendsRow(op, type, d), TakenOff(op, type)
  PROVE  LogInv'
<1> DEFINE last == Len(log) + 1
<1>1. /\ DOMAIN log = 1 .. Len(log) /\ Len(log) \in Nat
      /\ DOMAIN log' = DOMAIN log \cup {last}
      /\ last \notin DOMAIN log
      /\ \A i \in DOMAIN log : log'[i].file = log[i].file /\ log'[i].row = log[i].row
      /\ log'[last].file.type = type
      /\ log'[last].row = Row
      /\ stamp' = stamp
  BY DEF AppendsRow, Extended
<1>2. /\ op \in {"save", "update"}
      /\ Head(tx.todo).op = op /\ Head(tx.todo).type = type
      /\ ToRecord(Head(tx.todo))
  BY DEF AppendsRow, TakenOff, PendingInv
<1>3. type \in Fixed => op = "save"
  BY <1>2 DEF ToRecord, Fixed, Revised
<1>4. WrittenOnce(log')
  <2>1. type \in Fixed =>
          \A i \in DOMAIN log : log[i].file.type = type => log[i].row.id # Row.id
    BY <1>3, SavedIsFresh DEF Fixed
  <2> HIDE DEF last
  <2> QED
    BY <1>1, <2>1 DEF LogInv, WrittenOnce
<1>5. \A v : VersionLogged(v) => VersionLogged(v)'
  BY <1>1 DEF VersionLogged
<1>6. /\ type \in {"escalations", "audit"} => Row.id < stamp
      /\ type = "rules" => Row.status = "active"
      /\ type = "audit" => VersionLogged(Row.rule)
  <2>1. CASE type \in {"escalations", "audit"}
    BY <1>2, <1>3, <2>1 DEF ToRecord, Fixed, Row
  <2>2. CASE type = "rules"
    <3>1. op = "save" /\ <<op, Row>> \in Pending("rules")
      BY <1>3, <2>2 DEF Fixed, TakenOff
    <3> QED
      BY <2>2, <3>1, SavedIsUnused DEF Unused, Kept
  <2> QED
    BY <2>1, <2>2
<1> HIDE DEF last
<1>7. ASSUME NEW i \in DOMAIN log'
      PROVE  /\ log'[i].file.type \in {"escalations", "audit"} =>
                  log'[i].row.id < stamp'
             /\ log'[i].file.type = "rules" => log'[i].row.status = "active"
             /\ log'[i].file.type = "audit" => VersionLogged(log[i].row.rule)'
  <2>1. CASE i \in DOMAIN log
    BY <1>1, <1>5, <2>1 DEF LogInv
  <2>2. CASE i = last
    BY <1>1, <1>5, <1>6, <2>2
  <2> QED
    BY <1>1, <2>1, <2>2
<1> QED
  BY <1>4, <1>7 DEF LogInv

LEMMA AppendPending ==
  ASSUME TypeInv, PendingInv, NEW op, NEW type, NEW d,
         AppendsRow(op, type, d), TakenOff(op, type)
  PROVE  PendingInv'
<1> DEFINE last == Len(log) + 1
<1>1. /\ DOMAIN log = 1 .. Len(log) /\ Len(log) \in Nat
      /\ DOMAIN log' = DOMAIN log \cup {last}
      /\ \A i \in DOMAIN log : log'[i].file = log[i].file /\ log'[i].row = log[i].row
      /\ log'[last].file.type = type
      /\ stamp' = stamp
  BY DEF AppendsRow, Extended
<1>2. \A v : VersionLogged(v) => VersionLogged(v)'
  BY <1>1 DEF VersionLogged
<1> HIDE DEF last
<1>3. \A i \in DOMAIN tx'.todo : \E j \in DOMAIN tx.todo : tx'.todo[i] = tx.todo[j]
  BY DEF TakenOff
<1>4. ASSUME NEW o, ToRecord(o), ~ (o.type = type /\ o.op = op)
      PROVE  ToRecord(o)'
  <2>1. op = "save" \/ (op = "update" /\ type \in Revised)
    BY DEF AppendsRow, TakenOff, PendingInv, ToRecord
  <2>2. (o.op = "save" /\ o.type \in {"escalations", "audit"}) => o.type # type
    BY <1>4, <2>1 DEF Revised
  <2>3. Fresh(o) /\ o.type # type => Fresh(o)'
    BY <1>1 DEF Fresh
  <2> QED
    BY <1>1, <1>2, <1>4, <2>2, <2>3 DEF ToRecord
<1>5. ASSUME NEW i \in DOMAIN tx'.todo
      PROVE  ToRecord(tx.todo[i])'
  <2>1. PICK o : o = tx'.todo[i]
    OBVIOUS
  <2>2. ToRecord(o) /\ ~ (o.type = type /\ o.op = op)
    BY <1>3, <2>1 DEF PendingInv, TakenOff
  <2>3. ToRecord(o)'
    BY <1>4, <2>2
  <2> QED
    BY <2>1, <2>3
<1> QED
  BY <1>5 DEF PendingInv, TakenOff

(* The rows of a table, an updated one in the place of the one it follows. *)
LEMMA UpdatedRows ==
  ASSUME NEW type, NEW old \in tx.work[type], old.id = Row.id
  PROVE  Updated(type) = {r \in tx.work[type] : r.id # Row.id} \cup {Row}
BY DEF Updated

LEMMA AppendSettled ==
  ASSUME TypeInv, PendingInv, Underway, Settled(tx.work),
         NEW op, NEW type, NEW d, AppendsRow(op, type, d), TakenOff(op, type)
  PROVE  /\ Settled(tx.work)'
         /\ Audited(log') = Audited(log) \cup
              (IF type = "audit" THEN {Row.rule} ELSE {})
<1>1. /\ log \in Seq(Records) /\ Extended(log, type, d, Row, log')
      /\ op \in {"save", "update"} /\ type \in Types
      /\ <<op, Row>> \in Pending(type)
  BY DEF AppendsRow, TakenOff
<1>2. /\ Latest(log', type) = {r \in Latest(log, type) : r.id # Row.id} \cup {Row}
      /\ \A t : t # type => Latest(log', t) = Latest(log, t)
  BY <1>1, LatestAppended
<1>3. op = "save" /\ type # "assignments" =>
        /\ \A r \in Latest(log, type) : r.id # Row.id
        /\ Latest(log', type) = Latest(log, type) \cup {Row}
  <2>1. SUFFICES ASSUME op = "save", type # "assignments"
                 PROVE  \A r \in Latest(log, type) : r.id # Row.id
    BY <1>2
  <2> QED
    BY <1>1, <2>1, SavedIsFresh, LatestTyped
<1>4. \A t \in Types \ {type} : tx'.work[t] = tx.work[t]
  BY DEF AppendsRow
<1>5. tx'.work[type] = IF op = "save" THEN tx.work[type] \cup {Row}
                                      ELSE Updated(type)
  BY DEF AppendsRow
<1>6. type \in Kept /\ op = "update" =>
        /\ type \in Revised
        /\ tx'.work[type] = {r \in tx.work[type] : r.id # Row.id} \cup {Row}
  BY <1>1, <1>5, SavedIsUnused, UpdatedRows
<1>7. \A t \in {"items", "escalations", "failures"} :
        tx'.work[t] = Latest(log', t)
  <2>1. ASSUME NEW t \in {"items", "escalations", "failures"}
        PROVE  tx'.work[t] = Latest(log', t)
    <3>1. tx.work[t] = Latest(log, t) /\ t \in Types /\ t \in Kept
      BY <2>1 DEF Settled, Types, Kept
    <3>2. CASE t # type
      BY <1>2, <1>4, <3>1, <3>2
    <3>3. CASE t = type /\ op = "save"
      <4>1. Latest(log', t) = Latest(log, t) \cup {Row}
        BY <1>3, <2>1, <3>3
      <4>2. tx'.work[t] = tx.work[t] \cup {Row}
        BY <1>5, <3>3
      <4> QED
        BY <3>1, <4>1, <4>2
    <3>4. CASE t = type /\ op = "update"
      <4>1. tx'.work[t] = {r \in tx.work[t] : r.id # Row.id} \cup {Row}
        BY <1>6, <3>1, <3>4
      <4>2. Latest(log', t) = {r \in Latest(log, t) : r.id # Row.id} \cup {Row}
        BY <1>2, <3>4
      <4> QED
        BY <3>1, <4>1, <4>2
    <3> QED
      BY <1>1, <3>2, <3>3, <3>4
  <2> QED
    BY <2>1
<1>8. /\ Unmarked(tx'.work["rules"]) = Latest(log', "rules")
      /\ \A r, s \in tx'.work["rules"] : r.id = s.id => r = s
  <2>1. CASE type # "rules"
    <3>1. tx'.work["rules"] = tx.work["rules"]
      BY <1>4, <2>1 DEF Types
    <3>2. Latest(log', "rules") = Latest(log, "rules")
      BY <1>2, <2>1
    <3> QED
      BY <3>1, <3>2 DEF Settled
  <2>2. CASE type = "rules"
    <3>1. op = "save"
      BY <1>1, <1>6, <2>2 DEF Kept, Revised
    <3>2. Unused("rules", Row, tx.work["rules"])
      BY <1>1, <2>2, <3>1, SavedIsUnused DEF Kept
    <3>3. tx'.work["rules"] = tx.work["rules"] \cup {Row}
      BY <1>5, <2>2, <3>1
    <3>4. Row = [id |-> Row.id, status |-> "active"]
      BY <2>2, <3>2 DEF AppendsRow, Unused, Rows
    <3>5. Unmarked(tx'.work["rules"]) = Unmarked(tx.work["rules"]) \cup {Row}
      <4> DEFINE w == tx.work["rules"]
                 m(r) == [id |-> r.id, status |-> "active"]
      <4>1. Row = m(Row)
        BY <3>4
      <4>2. \A rows : Unmarked(rows) = {m(r) : r \in rows}
        BY DEF Unmarked
      <4> HIDE DEF w, m
      <4>3. {m(r) : r \in w \cup {Row}} = {m(r) : r \in w} \cup {m(Row)}
        OBVIOUS
      <4> QED
        BY <3>3, <4>1, <4>2, <4>3 DEF w
    <3>6. Latest(log', "rules") = Latest(log, "rules") \cup {Row}
      BY <1>3, <2>2, <3>1
    <3>7. \A r \in tx.work["rules"] : r.id # Row.id
      BY <3>2 DEF Unused, Ids
    <3>8. \A r, s \in tx.work["rules"] : r.id = s.id => r = s
      BY DEF Settled
    <3>9. Unmarked(tx.work["rules"]) = Latest(log, "rules")
      BY DEF Settled
    <3>10. \A r, s \in tx'.work["rules"] : r.id = s.id => r = s
      BY <3>3, <3>7, <3>8
    <3> QED
      BY <3>5, <3>6, <3>9, <3>10
  <2> QED
    BY <2>1, <2>2
<1>9. Audited(log') = Audited(log) \cup (IF type = "audit" THEN {Row.rule} ELSE {})
  <2>1. CASE type = "audit"
    <3>1. op = "save"
      BY <2>1 DEF AppendsRow, TakenOff, PendingInv, ToRecord, Revised
    <3>2. Latest(log', "audit") = Latest(log, "audit") \cup {Row}
      BY <1>3, <2>1, <3>1
    <3> QED
      BY <2>1, <3>2 DEF Audited
  <2>2. CASE type # "audit"
    <3>1. Latest(log', "audit") = Latest(log, "audit")
      BY <1>2, <2>2
    <3> QED
      BY <2>2, <3>1 DEF Audited
  <2> QED
    BY <2>1, <2>2
<1> QED
  BY <1>7, <1>8, <1>9 DEF Settled

(* A table nothing is done to stays on its way.                            *)
LEMMA HeadingStays ==
  ASSUME NEW t, NEW goal, Heading(t, goal),
         tx'.work[t] = tx.work[t], PendingIn(tx'.todo, t) = Pending(t)
  PROVE  Heading(t, goal)'
BY DEF Heading, Pending, Unused, Ids

LEMMA AppendHeading ==
  ASSUME TypeInv, PendingInv, Underway, Settled(tx.work),
         NEW op, NEW type, NEW d, AppendsRow(op, type, d), TakenOff(op, type),
         NEW goal, HeadingFor(goal)
  PROVE  HeadingFor(goal)'
<1>1. /\ op \in {"save", "update"} /\ type \in Types
      /\ <<op, Row>> \in Pending(type)
      /\ PendingIn(tx'.todo, type) = Pending(type) \ {<<op, Row>>}
      /\ \A t : t # type => PendingIn(tx'.todo, t) = Pending(t)
      /\ \A t \in Types \ {type} : tx'.work[t] = tx.work[t]
      /\ tx'.work[type] = IF op = "save" THEN tx.work[type] \cup {Row}
                                         ELSE Updated(type)
  BY DEF AppendsRow, TakenOff
<1>2. ASSUME NEW t \in Kept, t # type
      PROVE  Heading(t, goal[t])'
  <2>1. Heading(t, goal[t]) /\ t \in Types
    BY DEF HeadingFor, Kept, Types
  <2>2. PICK g : g = goal[t]
    OBVIOUS
  <2>3. Heading(t, g)'
    BY <1>1, <1>2, <2>1, <2>2, HeadingStays
  <2> QED
    BY <2>2, <2>3
<1>3. ASSUME type \in Kept
      PROVE  Heading(type, goal[type])'
  <2> DEFINE done == <<op, Row>>
             pending == Pending(type)
             work == tx.work[type]
  <2>1. /\ done[1] = op /\ done[2] = Row
        /\ done \in pending
        /\ PendingIn(tx'.todo, type) = pending \ {done}
    BY <1>1
  <2>2. Heading(type, goal[type])
    BY <1>3 DEF HeadingFor
  <2>3. CASE \E new \in Rows(type) : /\ pending = {<<"save", new>>}
                                    /\ goal[type] = work \cup {new}
    <3>1. PICK new \in Rows(type) : /\ pending = {<<"save", new>>}
                                    /\ goal[type] = work \cup {new}
      BY <2>3
    <3>2. op = "save" /\ Row = new
      BY <2>1, <3>1
    <3>3. tx'.work[type] = goal[type]
      BY <1>1, <3>1, <3>2
    <3>4. PendingIn(tx'.todo, type) = {}
      BY <2>1, <3>1
    <3> QED
      BY <3>3, <3>4 DEF Heading, Pending
  <2>4. CASE \E old \in work, new \in Rows(type) :
               /\ type \in Revised
               /\ pending = {<<"update", new>>}
               /\ new.id = old.id
               /\ goal[type] = (work \ {old}) \cup {new}
    <3>1. PICK old \in work, new \in Rows(type) :
               /\ type \in Revised
               /\ pending = {<<"update", new>>}
               /\ new.id = old.id
               /\ goal[type] = (work \ {old}) \cup {new}
      BY <2>4
    <3>2. op = "update" /\ Row = new
      BY <2>1, <3>1
    <3>3. Updated(type) = {r \in work : r.id # Row.id} \cup {Row}
      BY <3>1, <3>2, UpdatedRows
    <3>4. work = Latest(log, type)
      BY <3>1 DEF Settled, Revised
    <3>5. \A r \in work : r.id = old.id => r = old
      BY <3>1, <3>4, LatestUnique DEF AppendsRow
    <3>6. tx'.work[type] = goal[type]
      BY <1>1, <3>1, <3>2, <3>3, <3>5
    <3>7. PendingIn(tx'.todo, type) = {}
      BY <2>1, <3>1
    <3> QED
      BY <3>6, <3>7 DEF Heading, Pending
  <2>5. CASE \E new \in Rows(type), end \in AnyRow :
               /\ type = "rules"
               /\ pending = {<<"supersede", end>>, <<"save", new>>}
               /\ new.id # end.id
               /\ goal[type] = Marking(work, {end.id}) \cup {new}
    <3>1. PICK new \in Rows(type), end \in AnyRow :
               /\ type = "rules"
               /\ pending = {<<"supersede", end>>, <<"save", new>>}
               /\ new.id # end.id
               /\ goal[type] = Marking(work, {end.id}) \cup {new}
      BY <2>5
    <3>2. op = "save" /\ Row = new
      BY <1>1, <2>1, <3>1
    <3>3. tx'.work[type] = work \cup {new}
      BY <1>1, <3>2
    <3>4. Marking(work \cup {new}, {end.id}) = Marking(work, {end.id}) \cup {new}
      BY <3>1 DEF Marking
    <3>5. PendingIn(tx'.todo, type) = {<<"supersede", end>>}
      BY <2>1, <3>1, <3>2
    <3> QED
      BY <3>1, <3>3, <3>4, <3>5 DEF Heading, Pending
  <2>6. CASE \E end \in AnyRow : pending = {<<"supersede", end>>}
    BY <1>1, <2>1, <2>6
  <2>7. CASE pending = {}
    BY <2>1, <2>7
  <2> QED
    BY <2>2, <2>3, <2>4, <2>5, <2>6, <2>7 DEF Heading
<1>4. \A t \in Kept : Heading(t, goal[t])'
  BY <1>2, <1>3
<1>5. Audited(log') \cup ToAudit' = Audited(log) \cup ToAudit
  <2>1. Audited(log') = Audited(log) \cup
                          (IF type = "audit" THEN {Row.rule} ELSE {})
    BY AppendSettled
  <2>2. ToAudit = {p[2].rule : p \in Pending("audit")}
    BY DEF ToAudit
  <2>3. ToAudit' = {p[2].rule : p \in PendingIn(tx'.todo, "audit")}
    BY DEF ToAudit, Pending
  <2>4. CASE type = "audit"
    <3> DEFINE done == <<op, Row>>
               pending == Pending("audit")
    <3>1. done \in pending /\ done[2] = Row
      BY <1>1, <2>4
    <3>2. PendingIn(tx'.todo, "audit") = pending \ {done}
      BY <1>1, <2>4
    <3> HIDE DEF done, pending
    <3>3. {p[2].rule : p \in pending} =
            {p[2].rule : p \in pending \ {done}} \cup {Row.rule}
      BY <3>1
    <3> QED
      BY <2>1, <2>2, <2>3, <2>4, <3>2, <3>3 DEF pending
  <2>5. CASE type # "audit"
    BY <1>1, <2>1, <2>2, <2>3, <2>5
  <2> QED
    BY <2>4, <2>5
<1>6. Marked(goal["rules"], Audited(log) \cup ToAudit)'
  BY <1>5 DEF HeadingFor, Marked
<1> QED
  BY <1>4, <1>6 DEF HeadingFor

(* The step of DurableTables the transaction will be is that of the index, *)
(* which does not change until it commits.                                 *)
LEMMA StepToKept ==
  ASSUME NEW goal, StepTo(goal), index' = index
  PROVE  StepTo(goal)'
BY DEF StepTo, RegisterTo, MoveTo, RuleTo, FailureTo, Unused

LEMMA AppendDurable ==
  ASSUME Undisturbed, TypeInv, DurableInv,
         NEW op \in {"save", "update"}, NEW type \in Types,
         NEW d \in 0 .. MaxDay, NEW rows \in SUBSET Rows(type),
         Doing(op, type), Appends(type, d, "whole", rows),
         tx' = Continue(type, rows),
         rows = IF op = "save" THEN tx.work[type] \cup {Row} ELSE Updated(type)
  PROVE  DurableInv'
<1>1. PlainInv /\ LogInv /\ PendingInv /\ tx.open
  BY DEF DurableInv, Doing
<1>2. Settled(tx.work) /\ Underway
  BY <1>1 DEF DurableInv
<1>3. AppendsRow(op, type, d) /\ tx'.todo = Tail(tx.todo)
  BY <1>1, AppendDone
<1>4. TakenOff(op, type)
  BY <1>1, <1>3, ContinueTakesOff
<1>5. PlainInv'
  <2>1. stamp \in Nat
    BY ConstantsOK DEF TypeInv
  <2> QED
    BY <1>1, <1>3, <1>4, <2>1, AppendPlain
<1>6. LogInv' /\ PendingInv'
  BY <1>1, <1>2, <1>3, <1>4, AppendLog, AppendPending
<1>7. Settled(tx.work)'
  BY <1>1, <1>2, <1>3, <1>4, AppendSettled
<1>8. Underway'
  <2>1. PICK goal : StepTo(goal) /\ HeadingFor(goal)
    BY <1>2 DEF Underway
  <2>2. HeadingFor(goal)'
    BY <1>1, <1>2, <1>3, <1>4, <2>1, AppendHeading
  <2>3. StepTo(goal)'
    BY <1>3, <2>1, StepToKept DEF AppendsRow
  <2> QED
    BY <2>2, <2>3 DEF Underway
<1>9. tx'.open
  BY <1>3 DEF AppendsRow
<1> QED
  BY <1>5, <1>6, <1>7, <1>8, <1>9 DEF DurableInv

(* No key is taken: an operation saves what it was seen to be free.        *)
LEMMA NotTaken ==
  ASSUME TypeInv, DurableInv, NEW type \in Kept, Doing("save", type)
  PROVE  Unused(type, Row, tx.work[type])
<1>1. /\ tx.todo \in Seq(Operations) /\ tx.todo # <<>> /\ OneOfAKind(tx.todo)
      /\ tx.open /\ Underway
  BY DEF TypeInv, Doing, DurableInv, PendingInv
<1>2. <<Head(tx.todo).op, Head(tx.todo).row>>
        \in PendingIn(tx.todo, Head(tx.todo).type)
  BY <1>1, RestOf, Zenon
<1>3. <<"save", Row>> \in Pending(type)
  BY <1>2, Zenon DEF Doing, Row, Pending
<1> QED
  BY <1>1, <1>3, SavedIsUnused

LEMMA SaveDurable ==
  ASSUME Undisturbed, TypeInv, DurableInv,
         NEW type, NEW taken, SaveRow(type, taken), ~ taken
  PROVE  DurableInv'
<1>1. /\ Doing("save", type)
      /\ Head(tx.todo).day \in 0 .. MaxDay
      /\ tx.work[type] \cup {Row} \in SUBSET Rows(type)
      /\ Appends(type, Head(tx.todo).day, "whole", tx.work[type] \cup {Row})
  BY SaveAppends
<1>2. tx' = Continue(type, tx.work[type] \cup {Row})
  BY DEF SaveRow
<1>3. type \in Types
  BY <1>1, NextOperation
<1> QED
  BY <1>1, <1>2, <1>3, AppendDurable

LEMMA UpdateDurable ==
  ASSUME Undisturbed, TypeInv, DurableInv, NEW type, UpdateRow(type)
  PROVE  DurableInv'
<1>1. /\ Doing("update", type)
      /\ day \in 0 .. MaxDay
      /\ Updated(type) \in SUBSET Rows(type)
      /\ Appends(type, day, "whole", Updated(type))
  BY UpdateAppends
<1>2. tx' = Continue(type, Updated(type))
  BY DEF UpdateRow, Updated
<1>3. type \in Types
  BY <1>1, NextOperation
<1> QED
  BY <1>1, <1>2, <1>3, AppendDurable

LEMMA AppendStepsDurable ==
  ASSUME Undisturbed, TypeInv, DurableInv, AppendSteps
  PROVE  DurableInv'
<1>1. ASSUME SaveItem
      PROVE  DurableInv'
  <2> DEFINE taken == \E row \in tx.work["items"] :
                        row.id = Row.id \/ row.ref = Row.ref
  <2>1. SaveRow("items", taken) /\ Doing("save", "items")
    BY <1>1 DEF SaveItem, SaveRow
  <2>2. Unused("items", Row, tx.work["items"])
    BY <2>1, NotTaken DEF Kept
  <2>3. ~ taken
    BY <2>2 DEF Unused, Ids
  <2> HIDE DEF taken
  <2> QED
    BY <2>1, <2>3, SaveDurable
<1>2. ASSUME SaveRule
      PROVE  DurableInv'
  <2> DEFINE taken == \E row \in tx.work["rules"] : row.id = Row.id
  <2>1. SaveRow("rules", taken) /\ Doing("save", "rules")
    BY <1>2 DEF SaveRule, SaveRow
  <2>2. Unused("rules", Row, tx.work["rules"])
    BY <2>1, NotTaken DEF Kept
  <2>3. ~ taken
    BY <2>2 DEF Unused, Ids
  <2> HIDE DEF taken
  <2> QED
    BY <2>1, <2>3, SaveDurable
<1>3. ASSUME NEW type, SaveRow(type, FALSE)
      PROVE  DurableInv'
  BY <1>3, SaveDurable
<1>4. ASSUME NEW type, UpdateRow(type)
      PROVE  DurableInv'
  BY <1>4, UpdateDurable
<1>5. ~ TornAppend
  BY DEF TornAppend, Undisturbed
<1> QED
  BY <1>1, <1>2, <1>3, <1>4, <1>5
  DEF AppendSteps, SaveAssignment, SaveEscalation, SaveAudit, SaveFailure,
      UpdateItem, UpdateFailure

-----------------------------------------------------------------------------
(* Superseding keeps the invariant.                                        *)

(* Marking rules leaves their ids and what was logged of them.             *)
LEMMA MarkingKeeps ==
  ASSUME NEW rows, NEW S
  PROVE  /\ Ids(Marking(rows, S)) = Ids(rows)
         /\ (\A r \in rows : DOMAIN r = {"id", "status"}) =>
              Unmarked(Marking(rows, S)) = Unmarked(rows)
<1> DEFINE mark(r) == IF r.id \in S THEN [r EXCEPT !.status = "superseded"] ELSE r
           plain(r) == [id |-> r.id, status |-> "active"]
<1>1. \A r : mark(r).id = r.id
  OBVIOUS
<1>2. \A r : plain(mark(r)) = plain(r)
  BY <1>1
<1>3. /\ Marking(rows, S) = {mark(r) : r \in rows}
      /\ \A T : Unmarked(T) = {plain(r) : r \in T}
  BY DEF Marking, Unmarked
<1> HIDE DEF mark, plain
<1>4. {plain(r) : r \in {mark(r) : r \in rows}} = {plain(r) : r \in rows}
  BY <1>2
<1>5. {r.id : r \in {mark(r) : r \in rows}} = {r.id : r \in rows}
  BY <1>1
<1> QED
  BY <1>3, <1>4, <1>5 DEF Ids

(* What either of the two leaves.                                          *)
SupersedesOnly(type) ==
  /\ tx.open /\ tx'.open
  /\ tx'.todo = Tail(tx.todo)
  /\ \A t \in Types \ {type} : tx'.work[t] = tx.work[t]
  /\ UNCHANGED <<day, stamp, log, index, manifest, rebuild, lost>>

LEMMA SupersedeRest ==
  ASSUME TypeInv, DurableInv, NEW type,
         SupersedesOnly(type), TakenOff("supersede", type)
  PROVE  /\ PlainInv'
         /\ LogInv'
         /\ PendingInv'
         /\ \A S : type # "audit" /\ S = Audited(log) \cup ToAudit =>
              S = Audited(log') \cup ToAudit'
<1>1. PlainInv /\ LogInv /\ PendingInv
  BY DEF DurableInv
<1>2. PlainInv'
  <2> DEFINE a == Len(log)
             b == Len(tx.todo)
  <2>1. /\ Len(log') = a /\ Len(tx'.todo) = b - 1
        /\ a \in Nat /\ b \in Nat /\ stamp' = stamp /\ stamp \in Nat
    BY ConstantsOK DEF SupersedesOnly, TakenOff, TypeInv
  <2>2. a + b <= 4 * stamp
    BY <1>1 DEF PlainInv
  <2> HIDE DEF a, b
  <2>3. Len(log') + Len(tx'.todo) <= 4 * stamp'
    BY <2>1, <2>2
  <2> QED
    BY <1>1, <2>3 DEF PlainInv, SupersedesOnly
<1>3. LogInv'
  BY <1>1 DEF LogInv, WrittenOnce, VersionLogged, SupersedesOnly
<1>4. PendingInv'
  <2>1. ASSUME NEW o, ToRecord(o)
        PROVE  ToRecord(o)'
    BY <2>1 DEF ToRecord, Fresh, VersionLogged, SupersedesOnly
  <2>2. ASSUME NEW i \in DOMAIN tx'.todo
        PROVE  ToRecord(tx.todo[i])'
    <3>1. PICK o : o = tx'.todo[i]
      OBVIOUS
    <3>2. ToRecord(o)
      BY <1>1, <3>1 DEF PendingInv, TakenOff
    <3>3. ToRecord(o)'
      BY <2>1, <3>2
    <3> QED
      BY <3>1, <3>3
  <2> QED
    BY <2>2 DEF PendingInv, TakenOff
<1>5. type # "audit" => ToAudit' = ToAudit /\ Audited(log') = Audited(log)
  BY DEF ToAudit, Pending, TakenOff, SupersedesOnly
<1> QED
  BY <1>2, <1>3, <1>4, <1>5

(* The tables of the others go on as they were.                            *)
LEMMA SupersedeUnderway ==
  ASSUME TypeInv, DurableInv, NEW type \in {"assignments", "rules"},
         SupersedesOnly(type), TakenOff("supersede", type),
         Settled(tx.work)',
         \A goal : type = "rules" /\ Heading("rules", goal) => Heading("rules", goal)'
  PROVE  DurableInv'
<1>1. PlainInv' /\ LogInv' /\ PendingInv'
  BY SupersedeRest
<1>2. PICK goal : StepTo(goal) /\ HeadingFor(goal)
  BY DEF DurableInv, Underway, SupersedesOnly
<1>3. \A t \in Kept : Heading(t, goal[t])
  BY <1>2 DEF HeadingFor
<1>4. ASSUME NEW t \in Kept, t # type
      PROVE  Heading(t, goal[t])'
  <2>1. Heading(t, goal[t]) /\ t \in Types
    BY <1>3 DEF Kept, Types
  <2>2. PICK g : g = goal[t]
    OBVIOUS
  <2>3. Heading(t, g)'
    BY <1>4, <2>1, <2>2, HeadingStays DEF SupersedesOnly, TakenOff
  <2> QED
    BY <2>2, <2>3
<1>5. ASSUME NEW t \in Kept, t = type
      PROVE  Heading(t, goal[t])'
  <2>1. t = "rules" /\ type = "rules"
    BY <1>5 DEF Kept
  <2>2. PICK g : g = goal[t]
    OBVIOUS
  <2>3. Heading("rules", g)
    BY <1>3, <2>1, <2>2
  <2>4. Heading("rules", g)'
    BY <2>1, <2>3
  <2> QED
    BY <2>1, <2>2, <2>4
<1>6. Marked(goal["rules"], Audited(log) \cup ToAudit)'
  <2>1. Audited(log') \cup ToAudit' = Audited(log) \cup ToAudit
    BY SupersedeRest, Zenon
  <2> QED
    BY <1>2, <2>1 DEF HeadingFor, Marked
<1>7. HeadingFor(goal)'
  BY <1>4, <1>5, <1>6 DEF HeadingFor
<1>8. StepTo(goal)'
  BY <1>2, StepToKept DEF SupersedesOnly
<1>9. tx'.open
  BY DEF SupersedesOnly
<1> QED
  BY <1>1, <1>7, <1>8, <1>9 DEF DurableInv, Underway

LEMMA SupersedeStepsDurable ==
  ASSUME TypeInv, DurableInv, SupersedeSteps
  PROVE  DurableInv'
<1>1. PICK type \in {"assignments", "rules"} : \E rows \in SUBSET Rows(type) :
        Doing("supersede", type) /\ tx' = Continue(type, rows)
  BY SupersedeStep
<1>2. /\ Doing("supersede", type)
      /\ SupersedesOnly(type)
      /\ TakenOff("supersede", type)
  <2>1. Doing("supersede", type) /\ PendingInv
    BY <1>1 DEF DurableInv
  <2>2. SupersedesOnly(type)
    BY <1>1, SupersedeStep, Continued DEF SupersedesOnly, Doing
  <2> QED
    BY <2>1, <2>2, ContinueTakesOff DEF SupersedesOnly
<1>3. Settled(tx.work) /\ tx.work["rules"] \subseteq Rows("rules")
  BY <1>2, WorkTyped DEF DurableInv, SupersedesOnly, Types
<1>4. CASE type = "assignments"
  <2>1. \A t \in Kept : tx'.work[t] = tx.work[t] /\ log' = log
    BY <1>2, <1>4 DEF SupersedesOnly, Kept, Types
  <2>2. Settled(tx.work)'
    BY <1>3, <2>1, Zenon DEF Settled, Kept
  <2> QED
    BY <1>2, <1>4, <2>2, SupersedeUnderway
<1>5. CASE type = "rules"
  <2> DEFINE work == tx.work["rules"]
  <2>1. tx'.work["rules"] = Marking(work, {Row.id})
    <3>1. SupersedeRule
      BY <1>2, <1>5 DEF SupersedeSteps, MarkAssignmentSuperseded, Doing
    <3>2. PICK rows : rows = {IF row.id = Row.id
                              THEN [row EXCEPT !.status = "superseded"]
                              ELSE row : row \in work}
      OBVIOUS
    <3>3. rows = Marking(work, {Row.id})
      BY <3>2 DEF Marking
    <3>4. tx' = [tx EXCEPT !.todo = Tail(@), !.work = [@ EXCEPT !["rules"] = rows]]
      BY <3>1, <3>2 DEF SupersedeRule, Continue
    <3>5. "rules" \in DOMAIN tx.work /\ tx = [open |-> tx.open, todo |-> tx.todo, work |-> tx.work]
      BY DEF TypeInv, Tables, Types
    <3> QED
      BY <3>3, <3>4, <3>5
  <2>2. \A r \in work : DOMAIN r = {"id", "status"} /\ r.id \in 1 .. MaxVersion
    BY <1>3 DEF Rows
  <2>3. /\ Ids(Marking(work, {Row.id})) = Ids(work)
        /\ Unmarked(Marking(work, {Row.id})) = Unmarked(work)
    BY <2>2, MarkingKeeps
  <2>4. \A t \in Kept \ {"rules"} : tx'.work[t] = tx.work[t]
    BY <1>2, <1>5 DEF SupersedesOnly, Kept, Types
  <2>5. log' = log
    BY <1>2 DEF SupersedesOnly
  <2>6. \A r, s \in Marking(work, {Row.id}) : r.id = s.id => r = s
    <3> DEFINE mark(r) == IF r.id \in {Row.id}
                          THEN [r EXCEPT !.status = "superseded"] ELSE r
    <3>1. \A r, s \in work : r.id = s.id => r = s
      BY <1>3 DEF Settled
    <3>2. \A r : mark(r).id = r.id
      OBVIOUS
    <3>3. Marking(work, {Row.id}) = {mark(r) : r \in work}
      BY DEF Marking
    <3> HIDE DEF mark, work
    <3> QED
      BY <3>1, <3>2, <3>3
  <2>7. Settled(tx.work)'
    BY <1>3, <2>1, <2>3, <2>4, <2>5, <2>6, Zenon DEF Settled, Kept
  <2>8. ASSUME NEW goal, Heading("rules", goal)
        PROVE  Heading("rules", goal)'
    <3> DEFINE done == <<"supersede", Row>>
               pending == Pending("rules")
    <3>1. /\ done[1] = "supersede" /\ done[2] = Row
          /\ done \in pending
          /\ PendingIn(tx'.todo, "rules") = pending \ {done}
      BY <1>2, <1>5 DEF TakenOff
    <3>2. CASE \E new \in Rows("rules"), end \in AnyRow :
                 /\ pending = {<<"supersede", end>>, <<"save", new>>}
                 /\ Unused("rules", new, work)
                 /\ goal = Marking(work, {end.id}) \cup {new}
      <4>1. PICK new \in Rows("rules"), end \in AnyRow :
                 /\ pending = {<<"supersede", end>>, <<"save", new>>}
                 /\ Unused("rules", new, work)
                 /\ goal = Marking(work, {end.id}) \cup {new}
        BY <3>2
      <4>2. Row = end
        BY <3>1, <4>1
      <4>3. PendingIn(tx'.todo, "rules") = {<<"save", new>>}
        BY <3>1, <4>1, <4>2
      <4>4. Unused("rules", new, tx'.work["rules"])
        BY <2>1, <2>3, <4>1 DEF Unused
      <4>5. goal = tx'.work["rules"] \cup {new}
        BY <2>1, <4>1, <4>2
      <4>6. Unused("rules", new, tx.work["rules"])'
        BY <4>4 DEF Unused, Ids
      <4> QED
        BY <4>3, <4>5, <4>6 DEF Heading, Pending
    <3>3. CASE \E end \in AnyRow :
                 /\ pending = {<<"supersede", end>>}
                 /\ goal = Marking(work, {end.id})
      <4>1. PICK end \in AnyRow : /\ pending = {<<"supersede", end>>}
                                  /\ goal = Marking(work, {end.id})
        BY <3>3
      <4>2. Row = end
        BY <3>1, <4>1
      <4>3. PendingIn(tx'.todo, "rules") = {}
        BY <3>1, <4>1, <4>2
      <4> QED
        BY <2>1, <4>1, <4>2, <4>3 DEF Heading, Pending
    <3>4. CASE pending = {} \/ \E op \in {"save", "update"} : \E r : pending = {<<op, r>>}
      BY <3>1, <3>4
    <3> QED
      BY <2>8, <3>2, <3>3, <3>4 DEF Heading
  <2> QED
    BY <1>2, <1>5, <2>7, <2>8, SupersedeUnderway
<1> QED
  BY <1>4, <1>5

-----------------------------------------------------------------------------
(* Beginning a transaction brings the invariant about.                     *)

Begun(todo) ==
  /\ ~ tx.open /\ ~ lost /\ rebuild.phase # "scanned"
  /\ tx'.open
  /\ tx'.todo = todo
  /\ tx'.work = index
  /\ stamp' = stamp + 1
  /\ UNCHANGED <<day, log, index, manifest, rebuild, lost>>

LEMMA BeginBegins ==
  ASSUME Undisturbed, NEW program, NEW todo, Begin(program, todo)
  PROVE  Begun(todo)
BY DEF Undisturbed, Begin, Serving, Begun

(* What each operation of a transaction must be, when it begins.           *)
Recordable(o) ==
  /\ o.op = "update" => o.type \in Revised
  /\ (o.op = "save" /\ o.type \in {"escalations", "audit"}) => o.row.id = stamp
  /\ o.type = "audit" => VersionLogged(o.row.rule)

LEMMA BegunDurable ==
  ASSUME TypeInv, DurableInv, NEW todo, Begun(todo),
         Len(todo) \in 0 .. 4, OneOfAKind(todo),
         \A i \in DOMAIN todo : Recordable(todo[i]),
         NEW goal, StepTo(goal), \A t \in Kept : Heading(t, goal[t])',
         Marked(goal["rules"],
                Audited(log) \cup {p[2].rule : p \in PendingIn(todo, "audit")})
  PROVE  DurableInv'
<1>1. PlainInv /\ LogInv /\ Settled(index)
  BY DEF DurableInv, Begun
<1>2. PlainInv'
  <2>1. Len(log) \in Nat /\ stamp \in Nat /\ tx.todo = <<>>
    BY <1>1, ConstantsOK DEF TypeInv, PlainInv, Begun
  <2> DEFINE a == Len(log)
             b == Len(todo)
  <2>2. a + 0 <= 4 * stamp
    BY <1>1, <2>1 DEF PlainInv
  <2>3. a \in Nat /\ b \in 0 .. 4 /\ stamp' = stamp + 1
    BY <2>1 DEF Begun
  <2>4. Len(log') = a /\ Len(tx'.todo) = b
    BY DEF Begun
  <2> HIDE DEF a, b
  <2>5. a + b <= 4 * (stamp + 1)
    BY <2>1, <2>2, <2>3
  <2>6. Len(log') + Len(tx'.todo) <= 4 * stamp'
    BY <2>3, <2>4, <2>5
  <2> QED
    BY <1>1, <2>6 DEF PlainInv, Begun
<1>3. ASSUME NEW i \in DOMAIN log,
             log[i].file.type \in {"escalations", "audit"}
      PROVE  log[i].row.id \in Nat /\ log[i].row.id < stamp
  <2>1. log[i] \in Records
    BY DEF TypeInv
  <2> QED
    BY <1>1, <1>3, <2>1 DEF Records, IsRecord, Rows, LogInv
<1>4. LogInv'
  <2>1. stamp \in Nat
    BY ConstantsOK DEF TypeInv
  <2>2. stamp' = stamp + 1 /\ log' = log
    BY DEF Begun
  <2>3. \A v : VersionLogged(v) => VersionLogged(v)'
    BY <2>2 DEF VersionLogged
  <2> QED
    BY <1>1, <1>3, <2>1, <2>2, <2>3 DEF LogInv, WrittenOnce
<1>5. PendingInv'
  <2>1. ASSUME NEW o, Recordable(o)
        PROVE  ToRecord(o)'
    <3>1. stamp \in Nat /\ stamp' = stamp + 1 /\ log' = log
      BY ConstantsOK DEF TypeInv, Begun
    <3>2. VersionLogged(o.row.rule) => VersionLogged(o.row.rule)'
      BY <3>1 DEF VersionLogged
    <3>3. (o.op = "save" /\ o.type \in {"escalations", "audit"}) =>
            o.row.id < stamp' /\ Fresh(o)'
      BY <1>3, <2>1, <3>1 DEF Recordable, Fresh
    <3> QED
      BY <2>1, <3>2, <3>3 DEF Recordable, ToRecord
  <2>2. ASSUME NEW i \in DOMAIN todo
        PROVE  ToRecord(tx.todo[i])'
    <3>1. PICK o : o = todo[i]
      OBVIOUS
    <3>2. ToRecord(o)'
      BY <2>1, <3>1
    <3> QED
      BY <3>1, <3>2 DEF Begun
  <2> QED
    BY <2>2 DEF PendingInv, Begun
<1>6. Settled(tx.work)'
  BY <1>1 DEF Settled, Begun
<1>7. HeadingFor(goal)'
  BY DEF HeadingFor, Marked, ToAudit, Pending, Begun
<1>8. StepTo(goal)'
  BY StepToKept DEF Begun
<1>9. tx'.open
  BY DEF Begun
<1> QED
  BY <1>2, <1>4, <1>5, <1>6, <1>7, <1>8, <1>9 DEF DurableInv, Underway

(* What a transaction of few operations does to a table.                   *)
Of(S, type) == {<<o.op, o.row>> : o \in {p \in S : p.type = type}}

LEMMA PendingOf ==
  ASSUME NEW type
  PROVE  /\ \A a : PendingIn(<<a>>, type) = Of({a}, type)
         /\ \A a, b : PendingIn(<<a, b>>, type) = Of({a, b}, type)
         /\ \A a, b, c : PendingIn(<<a, b, c>>, type) = Of({a, b, c}, type)
         /\ \A a, b, c, d :
              PendingIn(<<a, b, c, d>>, type) = Of({a, b, c, d}, type)
BY DEF PendingIn, Of

LEMMA HeadingBegun ==
  ASSUME NEW todo, Begun(todo), NEW t, NEW goal
  PROVE  /\ PendingIn(todo, t) = {} /\ goal = index[t] => Heading(t, goal)'
         /\ \A new \in Rows(t) :
              (/\ PendingIn(todo, t) = {<<"save", new>>}
               /\ Unused(t, new, index[t])
               /\ goal = index[t] \cup {new}) => Heading(t, goal)'
         /\ \A old \in index[t], new \in Rows(t) :
              (/\ t \in Revised
               /\ PendingIn(todo, t) = {<<"update", new>>}
               /\ new.id = old.id
               /\ goal = (index[t] \ {old}) \cup {new}) => Heading(t, goal)'
         /\ \A new \in Rows(t), end \in AnyRow :
              (/\ t = "rules"
               /\ PendingIn(todo, t) = {<<"supersede", end>>, <<"save", new>>}
               /\ Unused(t, new, index[t])
               /\ new.id # end.id
               /\ goal = Marking(index[t], {end.id}) \cup {new})
                 => Heading(t, goal)'
<1>1. Pending(t)' = PendingIn(todo, t) /\ tx'.work[t] = index[t]
  BY DEF Pending, Begun
<1>2. \A new : Unused(t, new, index[t]) => Unused(t, new, tx.work[t])'
  BY <1>1 DEF Unused, Ids
<1> QED
  BY <1>1, <1>2 DEF Heading

(* What the index holds was numbered by transactions begun before.         *)
LEMMA IndexPast ==
  ASSUME TypeInv, ReplayInv, LogInv, Settled(index)
  PROVE  /\ stamp \in Nat
         /\ \A type \in {"items", "escalations", "failures"} :
              \A r \in index[type] :
                /\ r \in Rows(type)
                /\ \E i \in DOMAIN log : log[i].file.type = type /\ log[i].row = r
         /\ \A r \in index["items"] : r.rev \in Nat /\ r.rev < stamp
         /\ \A r \in index["failures"] : /\ r.rev \in Nat /\ r.rev < stamp
                                         /\ r.id \in Nat /\ r.id < stamp
         /\ stamp \notin Ids(index["failures"])
         /\ stamp \notin Ids(index["escalations"])
<1>1. stamp \in Nat /\ log \in Seq(Records)
  BY ConstantsOK DEF TypeInv
<1>2. ASSUME NEW type \in {"items", "escalations", "failures"},
             NEW r \in index[type]
      PROVE  /\ r \in Rows(type)
             /\ \E i \in DOMAIN log : log[i].file.type = type /\ log[i].row = r
  <2>1. r \in Latest(log, type)
    BY DEF Settled
  <2> QED
    BY <1>1, <2>1, LatestTyped
<1>3. ASSUME NEW r \in index["items"]
      PROVE  r.rev \in Nat /\ r.rev < stamp
  <2>1. PICK i \in DOMAIN log : log[i].file.type = "items" /\ log[i].row = r
    BY <1>2
  <2> QED
    BY <1>1, <2>1, RevisedRecords DEF ReplayInv, Past, Revised
<1>4. ASSUME NEW r \in index["failures"]
      PROVE  /\ r.rev \in Nat /\ r.rev < stamp
             /\ r.id \in Nat /\ r.id < stamp
  <2>1. PICK i \in DOMAIN log : log[i].file.type = "failures" /\ log[i].row = r
    BY <1>2
  <2> QED
    BY <1>1, <2>1, RevisedRecords DEF ReplayInv, Past, Revised
<1>5. ASSUME NEW r \in index["escalations"]
      PROVE  r.id \in Nat /\ r.id < stamp
  <2>1. /\ r \in Rows("escalations")
        /\ \E i \in DOMAIN log : log[i].file.type = "escalations" /\ log[i].row = r
    BY <1>2
  <2>2. r.id \in Nat
    BY <2>1 DEF Rows
  <2> QED
    BY <2>1, <2>2 DEF LogInv
<1>6. stamp \notin Ids(index["failures"]) /\ stamp \notin Ids(index["escalations"])
  BY <1>1, <1>4, <1>5 DEF Ids
<1> QED
  BY <1>1, <1>2, <1>3, <1>4, <1>6

LEMMA RegisterDurable ==
  ASSUME Undisturbed, TypeInv, ReplayInv, DurableInv,
         NEW id \in ItemIds, NEW ref \in Refs, Register(id, ref)
  PROVE  DurableInv'
<1> DEFINE new == [id |-> id, ref |-> ref, rev |-> stamp]
           save == Save("items", new)
           refer == Save("assignments", Referral(id))
           todo == <<save, refer>>
<1>1. Begun(todo)
  BY BeginBegins DEF Register
<1>2. LogInv /\ Settled(index) /\ Marked(index["rules"], Audited(log))
  BY <1>1 DEF DurableInv, Begun
<1>3. new \in Rows("items") /\ Unused("items", new, index["items"])
  <2>1. stamp \in Nat /\ \A r \in index["items"] :
          \E i \in DOMAIN log : log[i].file.type = "items" /\ log[i].row = r
    BY <1>2, IndexPast
  <2>2. \A i \in DOMAIN log : log[i].file.type = "items" => log[i].row.id # id
    BY DEF Register
  <2>3. \A r \in index["items"] : r.id # id /\ r.ref # ref
    BY <2>1, <2>2 DEF Register, Undisturbed
  <2> QED
    BY <2>1, <2>3 DEF Rows, Unused, Ids
<1>4. /\ save.op = "save" /\ save.type = "items" /\ save.row = new
      /\ refer.op = "save" /\ refer.type = "assignments"
  BY DEF Save, Operation
<1> HIDE DEF new, save, refer
<1>5. /\ Len(todo) \in 0 .. 4
      /\ OneOfAKind(todo)
      /\ \A i \in DOMAIN todo : Recordable(todo[i])
  BY <1>4 DEF OneOfAKind, Recordable
<1>6. /\ PendingIn(todo, "items") = {<<"save", new>>}
      /\ \A t : t \notin {"items", "assignments"} => PendingIn(todo, t) = {}
  <2>1. Of({save, refer}, "items") = {<<"save", new>>}
    BY <1>4 DEF Of
  <2>2. \A t : t \notin {"items", "assignments"} => Of({save, refer}, t) = {}
    BY <1>4 DEF Of
  <2>3. \A t : PendingIn(todo, t) = Of({save, refer}, t)
    BY PendingOf
  <2> QED
    BY <2>1, <2>2, <2>3
<1>7. PICK goal : goal = [t \in Kept |-> IF t = "items"
                                         THEN index["items"] \cup {new}
                                         ELSE index[t]]
  OBVIOUS
<1>8. goal["items"] = index["items"] \cup {new}
      /\ \A t \in Kept \ {"items"} : goal[t] = index[t]
  BY <1>7 DEF Kept
<1>9. StepTo(goal)
  BY <1>3, <1>8 DEF StepTo, RegisterTo
<1>10. ASSUME NEW t \in Kept
       PROVE  Heading(t, goal[t])'
  <2>1. PICK g : g = goal[t]
    OBVIOUS
  <2> HIDE DEF todo
  <2>2. CASE t = "items"
    BY <1>1, <1>3, <1>6, <1>8, <2>1, <2>2, HeadingBegun
  <2>3. CASE t # "items"
    BY <1>1, <1>6, <1>8, <2>1, <2>3, HeadingBegun DEF Kept
  <2> QED
    BY <2>2, <2>3
<1>11. Marked(goal["rules"],
              Audited(log) \cup {p[2].rule : p \in PendingIn(todo, "audit")})
  <2>1. PendingIn(todo, "audit") = {} /\ goal["rules"] = index["rules"]
    BY <1>6, <1>8 DEF Kept
  <2> HIDE DEF todo
  <2>2. Audited(log) \cup {p[2].rule : p \in PendingIn(todo, "audit")} = Audited(log)
    BY <2>1
  <2> QED
    BY <1>2, <2>1, <2>2
<1> HIDE DEF todo
<1> QED
  BY <1>1, <1>5, <1>9, <1>10, <1>11, BegunDurable

(* An item moves on, by itself or with an escalation of its own.           *)
LEMMA MoveDurable ==
  ASSUME Undisturbed, TypeInv, ReplayInv, DurableInv,
         NEW item \in index["items"], NEW todo, Begun(todo),
         Len(todo) \in 0 .. 4, OneOfAKind(todo),
         \A i \in DOMAIN todo : Recordable(todo[i]),
         NEW new, new = [item EXCEPT !.rev = stamp],
         PendingIn(todo, "items") = {<<"update", new>>},
         NEW esc, esc = [id |-> stamp, item |-> item.id],
         PendingIn(todo, "escalations") \in {{}, {<<"save", esc>>}},
         \A t \in {"rules", "failures", "audit"} : PendingIn(todo, t) = {}
  PROVE  DurableInv'
<1>1. LogInv /\ Settled(index) /\ Marked(index["rules"], Audited(log))
  BY DEF DurableInv, Begun
<1>2. /\ stamp \in Nat
      /\ item \in Rows("items")
      /\ item.rev \in Nat /\ item.rev < stamp
      /\ stamp \notin Ids(index["escalations"])
  BY <1>1, IndexPast
<1>3. /\ new \in Rows("items")
      /\ new.id = item.id /\ new.ref = item.ref /\ new.rev > item.rev
  BY <1>2 DEF Rows
<1>4. esc \in Rows("escalations") /\ esc.item = item.id
      /\ Unused("escalations", esc, index["escalations"])
  BY <1>2 DEF Rows, Unused
<1>5. PICK moved : moved = (index["items"] \ {item}) \cup {new}
  OBVIOUS
<1>6. PICK escalated :
        \/ PendingIn(todo, "escalations") = {} /\ escalated = index["escalations"]
        \/ /\ PendingIn(todo, "escalations") = {<<"save", esc>>}
           /\ escalated = index["escalations"] \cup {esc}
  OBVIOUS
<1>7. PICK goal : goal = [t \in Kept |->
                            IF t = "items" THEN moved
                            ELSE IF t = "escalations" THEN escalated
                            ELSE index[t]]
  OBVIOUS
<1>8. /\ goal["items"] = moved
      /\ goal["escalations"] = escalated
      /\ goal["rules"] = index["rules"]
      /\ goal["failures"] = index["failures"]
  BY <1>7 DEF Kept
<1>9. StepTo(goal)
  <2>1. \/ goal["escalations"] = index["escalations"]
        \/ \E e \in Rows("escalations") :
             /\ e.item = item.id
             /\ Unused("escalations", e, index["escalations"])
             /\ goal["escalations"] = index["escalations"] \cup {e}
    BY <1>4, <1>6, <1>8
  <2>2. MoveTo(goal)
    BY <1>3, <1>5, <1>8, <2>1 DEF MoveTo
  <2> QED
    BY <2>2 DEF StepTo
<1>10. Heading("items", moved)'
  BY <1>3, <1>5, HeadingBegun DEF Revised
<1>11. Heading("escalations", escalated)'
  BY <1>4, <1>6, HeadingBegun
<1>12. ASSUME NEW t \in {"rules", "failures"}
       PROVE  Heading(t, goal[t])'
  <2>1. PICK g : g = goal[t]
    OBVIOUS
  <2> QED
    BY <1>8, <2>1, HeadingBegun
<1>13. \A t \in Kept : Heading(t, goal[t])'
  BY <1>8, <1>10, <1>11, <1>12 DEF Kept
<1>14. Marked(goal["rules"],
              Audited(log) \cup {p[2].rule : p \in PendingIn(todo, "audit")})
  <2>1. PendingIn(todo, "audit") = {}
    OBVIOUS
  <2>2. Audited(log) \cup {p[2].rule : p \in PendingIn(todo, "audit")} = Audited(log)
    BY <2>1
  <2> QED
    BY <1>1, <1>8, <2>2
<1> QED
  BY <1>9, <1>13, <1>14, BegunDurable

LEMMA MovesDurable ==
  ASSUME Undisturbed, TypeInv, ReplayInv, DurableInv,
         NEW item \in index["items"],
         Update(item) \/ Escalate(item) \/ Reevaluate(item)
  PROVE  DurableInv'
<1> DEFINE new == [item EXCEPT !.rev = stamp]
           esc == [id |-> stamp, item |-> item.id]
           change == Change("items", new)
           save == Save("escalations", esc)
           end == Supersede("assignments", item)
           refer == Save("assignments", Referral(item.id))
           moved(todo) ==
             /\ Begun(todo)
             /\ Len(todo) \in 0 .. 4
             /\ OneOfAKind(todo)
             /\ \A i \in DOMAIN todo : Recordable(todo[i])
             /\ PendingIn(todo, "items") = {<<"update", new>>}
             /\ PendingIn(todo, "escalations") \in {{}, {<<"save", esc>>}}
             /\ \A t \in {"rules", "failures", "audit"} : PendingIn(todo, t) = {}
<1>1. /\ change.op = "update" /\ change.type = "items" /\ change.row = new
      /\ save.op = "save" /\ save.type = "escalations" /\ save.row = esc
      /\ end.op = "supersede" /\ end.type = "assignments"
      /\ refer.op = "save" /\ refer.type = "assignments"
      /\ esc.id = stamp
  BY DEF Change, Save, Supersede, Operation
<1>2. ASSUME NEW todo, moved(todo)
      PROVE  DurableInv'
  <2>1. PICK n, e : n = new /\ e = esc
    OBVIOUS
  <2> HIDE DEF new, esc
  <2> QED
    BY <1>2, <2>1, MoveDurable DEF new, esc
<1>3. \/ Begin("update", <<change>>)
      \/ Begin("escalate", <<save, end, refer, change>>)
      \/ Begin("reevaluate", <<end, refer, change>>)
  BY DEF Update, Escalate, Reevaluate
<1> HIDE DEF new, esc, change, save, end, refer
<1>4. CASE Begin("update", <<change>>)
  <2>1. Of({change}, "items") = {<<"update", new>>}
    BY <1>1 DEF Of
  <2>2. \A t : t # "items" => Of({change}, t) = {}
    BY <1>1 DEF Of
  <2>3. \A t : PendingIn(<<change>>, t) = Of({change}, t)
    BY PendingOf
  <2>4. Begun(<<change>>)
    BY <1>4, BeginBegins
  <2>5. /\ Len(<<change>>) \in 0 .. 4
        /\ OneOfAKind(<<change>>)
        /\ \A i \in DOMAIN <<change>> : Recordable(<<change>>[i])
    BY <1>1 DEF OneOfAKind, Recordable, Revised
  <2>6. moved(<<change>>)
    BY <2>1, <2>2, <2>3, <2>4, <2>5
  <2> HIDE DEF moved
  <2> QED
    BY <1>2, <2>6
<1>5. CASE Begin("reevaluate", <<end, refer, change>>)
  <2> DEFINE todo == <<end, refer, change>>
  <2>1. Of({end, refer, change}, "items") = {<<"update", new>>}
    BY <1>1 DEF Of
  <2>2. \A t : t \notin {"items", "assignments"} =>
          Of({end, refer, change}, t) = {}
    BY <1>1 DEF Of
  <2>3. \A t : PendingIn(todo, t) = Of({end, refer, change}, t)
    BY PendingOf
  <2>4. Begun(todo)
    BY <1>5, BeginBegins
  <2>5. /\ Len(todo) \in 0 .. 4
        /\ OneOfAKind(todo)
        /\ \A i \in DOMAIN todo : Recordable(todo[i])
    BY <1>1 DEF OneOfAKind, Recordable, Revised
  <2> HIDE DEF todo
  <2>6. moved(todo)
    BY <2>1, <2>2, <2>3, <2>4, <2>5
  <2> HIDE DEF moved
  <2> QED
    BY <1>2, <2>6
<1>6. CASE Begin("escalate", <<save, end, refer, change>>)
  <2> DEFINE todo == <<save, end, refer, change>>
  <2>1. /\ Of({save, end, refer, change}, "items") = {<<"update", new>>}
        /\ Of({save, end, refer, change}, "escalations") = {<<"save", esc>>}
    BY <1>1 DEF Of
  <2>2. \A t : t \notin {"items", "assignments", "escalations"} =>
          Of({save, end, refer, change}, t) = {}
    BY <1>1 DEF Of
  <2>3. \A t : PendingIn(todo, t) = Of({save, end, refer, change}, t)
    BY PendingOf
  <2>4. Begun(todo)
    BY <1>6, BeginBegins
  <2>5. /\ Len(todo) \in 0 .. 4
        /\ OneOfAKind(todo)
        /\ \A i \in DOMAIN todo : Recordable(todo[i])
    BY <1>1 DEF OneOfAKind, Recordable, Revised
  <2> HIDE DEF todo
  <2>6. moved(todo)
    BY <2>1, <2>2, <2>3, <2>4, <2>5
  <2> HIDE DEF moved
  <2> QED
    BY <1>2, <2>6
<1> QED
  BY <1>3, <1>4, <1>5, <1>6

(* A dead letter is recorded or retried.                                   *)
LEMMA FailureDurable ==
  ASSUME Undisturbed, TypeInv, DurableInv, NEW o, Begun(<<o>>),
         o.type = "failures", Recordable(o), NEW rows,
         \/ \E new \in Rows("failures") :
              /\ o.op = "save" /\ o.row = new
              /\ Unused("failures", new, index["failures"])
              /\ rows = index["failures"] \cup {new}
         \/ \E old \in index["failures"], new \in Rows("failures") :
              /\ o.op = "update" /\ o.row = new
              /\ new.id = old.id /\ new.rev > old.rev
              /\ rows = (index["failures"] \ {old}) \cup {new}
  PROVE  DurableInv'
<1> DEFINE todo == <<o>>
<1>1. Marked(index["rules"], Audited(log))
  BY DEF DurableInv, Begun
<1>2. /\ Of({o}, "failures") = {<<o.op, o.row>>}
      /\ \A t : t # "failures" => Of({o}, t) = {}
  BY DEF Of
<1>3. \A t : PendingIn(todo, t) = Of({o}, t)
  BY PendingOf
<1>4. /\ Begun(todo)
      /\ Len(todo) \in 0 .. 4
      /\ OneOfAKind(todo)
      /\ \A i \in DOMAIN todo : Recordable(todo[i])
  BY DEF OneOfAKind
<1> HIDE DEF todo
<1>5. PICK goal : goal = [t \in Kept |-> IF t = "failures" THEN rows
                                                          ELSE index[t]]
  OBVIOUS
<1>6. /\ goal["failures"] = rows
      /\ \A t \in Kept \ {"failures"} : goal[t] = index[t]
  BY <1>5 DEF Kept
<1>7. StepTo(goal)
  BY <1>6 DEF StepTo, FailureTo
<1>8. Heading("failures", rows)'
  <2>1. PendingIn(todo, "failures") = {<<o.op, o.row>>}
    BY <1>2, <1>3, Zenon
  <2>2. CASE \E new \in Rows("failures") :
               /\ o.op = "save" /\ o.row = new
               /\ Unused("failures", new, index["failures"])
               /\ rows = index["failures"] \cup {new}
    BY <1>4, <2>1, <2>2, HeadingBegun
  <2>3. CASE \E old \in index["failures"], new \in Rows("failures") :
               /\ o.op = "update" /\ o.row = new
               /\ new.id = old.id /\ new.rev > old.rev
               /\ rows = (index["failures"] \ {old}) \cup {new}
    BY <1>4, <2>1, <2>3, HeadingBegun DEF Revised
  <2> QED
    BY <2>2, <2>3
<1>9. ASSUME NEW t \in Kept \ {"failures"}
      PROVE  Heading(t, goal[t])'
  <2>1. PICK g : g = goal[t]
    OBVIOUS
  <2>2. PendingIn(todo, t) = {}
    BY <1>2, <1>3
  <2>3. g = index[t]
    BY <1>6, <2>1
  <2>4. Heading(t, g)'
    BY <1>4, <2>2, <2>3, HeadingBegun
  <2> QED
    BY <2>1, <2>4
<1>10. \A t \in Kept : Heading(t, goal[t])'
  BY <1>6, <1>8, <1>9 DEF Kept
<1>11. Marked(goal["rules"],
              Audited(log) \cup {p[2].rule : p \in PendingIn(todo, "audit")})
  <2>1. PendingIn(todo, "audit") = {} /\ goal["rules"] = index["rules"]
    BY <1>2, <1>3, <1>6 DEF Kept
  <2>2. Audited(log) \cup {p[2].rule : p \in PendingIn(todo, "audit")} = Audited(log)
    BY <2>1
  <2> QED
    BY <1>1, <2>1, <2>2
<1> QED
  BY <1>4, <1>7, <1>10, <1>11, BegunDurable

LEMMA FailuresDurable ==
  ASSUME Undisturbed, TypeInv, ReplayInv, DurableInv,
         RecordTaskFailure \/ \E failure \in index["failures"] : RetryFailure(failure)
  PROVE  DurableInv'
<1>1. CASE RecordTaskFailure
  <2> DEFINE new == [id |-> stamp, rev |-> stamp]
             o == Save("failures", new)
  <2>1. Begun(<<o>>)
    BY <1>1, BeginBegins DEF RecordTaskFailure
  <2>2. LogInv /\ Settled(index)
    BY <2>1 DEF DurableInv, Begun
  <2>3. stamp \in Nat /\ stamp \notin Ids(index["failures"])
    BY <2>2, IndexPast
  <2>4. new \in Rows("failures") /\ Unused("failures", new, index["failures"])
    BY <2>3 DEF Rows, Unused
  <2>5. o.op = "save" /\ o.type = "failures" /\ o.row = new
    BY DEF Save, Operation
  <2> HIDE DEF new, o
  <2>6. Recordable(o)
    BY <2>5 DEF Recordable
  <2>7. PICK rows : rows = index["failures"] \cup {new}
    OBVIOUS
  <2> QED
    BY <2>1, <2>4, <2>5, <2>6, <2>7, FailureDurable
<1>2. CASE \E failure \in index["failures"] : RetryFailure(failure)
  <2>1. PICK old \in index["failures"] : RetryFailure(old)
    BY <1>2
  <2> DEFINE new == [old EXCEPT !.rev = stamp]
             o == Change("failures", new)
  <2>2. Begun(<<o>>)
    BY <2>1, BeginBegins DEF RetryFailure
  <2>3. LogInv /\ Settled(index)
    BY <2>2 DEF DurableInv, Begun
  <2>4. stamp \in Nat /\ old \in Rows("failures") /\ old.rev < stamp /\ old.rev \in Nat
    BY <2>3, IndexPast
  <2>5. new \in Rows("failures") /\ new.id = old.id /\ new.rev > old.rev
    BY <2>4 DEF Rows
  <2>6. o.op = "update" /\ o.type = "failures" /\ o.row = new
    BY DEF Change, Operation
  <2> HIDE DEF new, o
  <2>7. Recordable(o)
    BY <2>6 DEF Recordable, Revised
  <2>8. PICK rows : rows = (index["failures"] \ {old}) \cup {new}
    OBVIOUS
  <2> QED
    BY <2>2, <2>5, <2>6, <2>7, <2>8, FailureDurable
<1> QED
  BY <1>1, <1>2

(* The version CreateRule saw is the greatest there is, and no later one   *)
(* was superseded.                                                         *)
LEMMA VersionsSeen ==
  ASSUME Undisturbed, TypeInv, LogInv, Settled(index),
         NEW seen \in 0 .. MaxVersion, NEW s \in 0 .. MaxVersion,
         CreateRule(seen, s)
  PROVE  /\ \A v \in Ids(index["rules"]) : v \in Nat /\ v <= seen
         /\ \A v \in Audited(log) : v \in Nat /\ v <= seen
         /\ s <= seen
         /\ s # 0 => VersionLogged(s)
<1> DEFINE versions == {0} \cup Ids(index["rules"])
<1>1. index["rules"] \subseteq Rows("rules") /\ MaxVersion \in Nat
  BY ConstantsOK DEF TypeInv, Tables, IsIndex, Types
<1>2. versions \in SUBSET (0 .. MaxVersion) /\ 0 \in versions
  BY <1>1 DEF Ids, Rows
<1>3. \E v \in versions : \A w \in versions : w <= v
  BY <1>1, <1>2, GreatestNatural, Zenon
<1>4. CurrentVersion = CHOOSE v \in versions : \A w \in versions : w <= v
  BY DEF CurrentVersion
<1> HIDE DEF versions
<1>5. CurrentVersion \in versions /\ \A w \in versions : w <= CurrentVersion
  BY <1>3, <1>4
<1>6. seen = CurrentVersion /\ s <= seen
  BY DEF CreateRule, Undisturbed
<1>7. Ids(Latest(log, "rules")) = Ids(index["rules"])
  BY SettledIds DEF Kept
<1>8. \A v \in Ids(index["rules"]) : v \in Nat /\ v <= seen
  <2>1. \A v \in versions : v \in Nat
    BY <1>1, <1>2
  <2> QED
    BY <1>5, <1>6, <2>1 DEF versions
<1>9. ASSUME NEW v \in Audited(log)
      PROVE  v \in Nat /\ v <= seen
  <2>1. PICK r \in Latest(log, "audit") : v = r.rule
    BY DEF Audited
  <2>2. PICK i \in DOMAIN log :
          log[i].file.type = "audit" /\ log[i].row = r /\ r \in Rows("audit")
    BY LatestTyped DEF TypeInv
  <2>3. VersionLogged(v)
    BY <2>1, <2>2 DEF LogInv
  <2>4. PICK j \in DOMAIN log : log[j].file.type = "rules" /\ v <= log[j].row.id
    BY <2>3 DEF VersionLogged
  <2>5. log[j].row.id \in Ids(index["rules"])
    BY <1>7, <2>4, LatestIds DEF TypeInv
  <2>6. v \in 1 .. MaxVersion
    BY <2>1, <2>2 DEF Rows
  <2> QED
    BY <1>1, <1>8, <2>4, <2>5, <2>6
<1>10. ASSUME s # 0
       PROVE  VersionLogged(s)
  <2>1. seen \in Ids(index["rules"])
    BY <1>1, <1>5, <1>6, <1>10 DEF versions
  <2>2. PICK r \in Latest(log, "rules") : seen = r.id
    BY <1>7, <2>1 DEF Ids
  <2>3. PICK i \in DOMAIN log : log[i].file.type = "rules" /\ log[i].row = r
    BY LatestTyped DEF TypeInv
  <2> QED
    BY <1>6, <2>2, <2>3 DEF VersionLogged
<1> QED
  BY <1>6, <1>8, <1>9, <1>10

(* The next version of the rules, and the one it supersedes if any.        *)
LEMMA RuleDurable ==
  ASSUME Undisturbed, TypeInv, DurableInv,
         NEW seen \in 0 .. MaxVersion, NEW s \in 0 .. MaxVersion,
         CreateRule(seen, s)
  PROVE  DurableInv'
<1> DEFINE new == [id |-> seen + 1, status |-> "active"]
           old == [id |-> s, status |-> "superseded"]
           save == Save("rules", new)
           end == Supersede("rules", old)
           audit == Save("audit", [id |-> stamp, rule |-> s])
           S == IF s = 0 THEN {} ELSE {s}
<1>1. \/ s = 0 /\ Begun(<<save>>)
      \/ s # 0 /\ Begun(<<end, audit, save>>)
  BY BeginBegins DEF CreateRule
<1>2. LogInv /\ Settled(index) /\ Marked(index["rules"], Audited(log))
  BY <1>1 DEF DurableInv, Begun
<1>3. /\ \A v \in Ids(index["rules"]) : v \in Nat /\ v <= seen
      /\ \A v \in Audited(log) : v \in Nat /\ v <= seen
      /\ s <= seen
      /\ s # 0 => VersionLogged(s)
  BY <1>2, VersionsSeen
<1>4. MaxVersion \in Nat /\ seen \in Nat /\ s \in Nat /\ seen < MaxVersion
  BY ConstantsOK DEF CreateRule
<1>5. /\ new \in Rows("rules")
      /\ Unused("rules", new, index["rules"])
      /\ new.id = seen + 1 /\ new.id # s
      /\ new.id \notin Audited(log) /\ new.status = "active"
  <2>1. ~ (seen + 1 <= seen)
    BY <1>4
  <2> QED
    BY <1>3, <1>4, <2>1 DEF Rows, Statuses, Unused
<1>6. s # 0 => old \in AnyRow
  <2>1. s # 0 => old \in Rows("rules")
    BY <1>4 DEF Rows, Statuses
  <2> QED
    BY <2>1 DEF AnyRow, Types
<1>7. /\ save.op = "save" /\ save.type = "rules" /\ save.row = new
      /\ end.op = "supersede" /\ end.type = "rules" /\ end.row = old
      /\ audit.op = "save" /\ audit.type = "audit"
      /\ audit.row.rule = s /\ audit.row.id = stamp
      /\ old.id = s
  BY DEF Save, Supersede, Operation
<1> HIDE DEF new, old, save, end, audit
<1>8. PICK rows : rows = Marking(index["rules"], S) \cup {new}
  OBVIOUS
<1>9. PICK goal : goal = [t \in Kept |-> IF t = "rules" THEN rows ELSE index[t]]
  OBVIOUS
<1>10. /\ goal["rules"] = rows
       /\ \A t \in Kept \ {"rules"} : goal[t] = index[t]
  BY <1>9 DEF Kept
<1>11. StepTo(goal)
  <2>1. S \in SUBSET (1 .. MaxVersion) /\ \A v, w \in S : v = w
    BY <1>4
  <2> HIDE DEF S
  <2> QED
    BY <1>5, <1>8, <1>10, <2>1 DEF StepTo, RuleTo
<1>12. Marked(rows, Audited(log) \cup S)
  <2> DEFINE A == Audited(log)
             mark(r) == IF r.id \in S THEN [r EXCEPT !.status = "superseded"] ELSE r
  <2>1. ASSUME NEW r \in index["rules"]
        PROVE  mark(r).status = "superseded" <=> mark(r).id \in A \cup S
    <3>1. DOMAIN r = {"id", "status"} /\ r = [id |-> r.id, status |-> r.status]
      BY DEF TypeInv, Tables, IsIndex, Types, Rows
    <3>2. r.status = "superseded" <=> r.id \in A
      BY <1>2 DEF Marked
    <3> QED
      BY <3>1, <3>2
  <2>2. new.status # "superseded" /\ new.id \notin A \cup S
    BY <1>5
  <2>3. rows = {mark(r) : r \in index["rules"]} \cup {new}
    BY <1>8 DEF Marking
  <2> HIDE DEF A, mark, S
  <2>4. Marked(rows, A \cup S)
    BY <2>1, <2>2, <2>3 DEF Marked
  <2> QED
    BY <2>4 DEF A
<1>13. ASSUME NEW todo, Begun(todo),
              Len(todo) \in 0 .. 4, OneOfAKind(todo),
              \A i \in DOMAIN todo : Recordable(todo[i]),
              \A t \in Kept \ {"rules"} : PendingIn(todo, t) = {},
              S = {p[2].rule : p \in PendingIn(todo, "audit")},
              Heading("rules", rows)'
       PROVE  DurableInv'
  <2>1. ASSUME NEW t \in Kept \ {"rules"}
        PROVE  Heading(t, goal[t])'
    <3>1. PICK g : g = goal[t]
      OBVIOUS
    <3>2. g = index[t]
      BY <1>10, <3>1
    <3>3. Heading(t, g)'
      BY <1>13, <3>2, HeadingBegun
    <3> QED
      BY <3>1, <3>3
  <2>2. \A t \in Kept : Heading(t, goal[t])'
    BY <1>10, <1>13, <2>1 DEF Kept
  <2>3. Marked(goal["rules"],
               Audited(log) \cup {p[2].rule : p \in PendingIn(todo, "audit")})
    BY <1>10, <1>12, <1>13
  <2> QED
    BY <1>11, <1>13, <2>2, <2>3, BegunDurable
<1>14. CASE s = 0
  <2> DEFINE todo == <<save>>
  <2>1. /\ Of({save}, "rules") = {<<"save", new>>}
        /\ \A t : t # "rules" => Of({save}, t) = {}
    BY <1>7 DEF Of
  <2>2. \A t : PendingIn(todo, t) = Of({save}, t)
    BY PendingOf
  <2>3. /\ Begun(todo)
        /\ Len(todo) \in 0 .. 4
        /\ OneOfAKind(todo)
        /\ \A i \in DOMAIN todo : Recordable(todo[i])
    BY <1>1, <1>7, <1>14 DEF OneOfAKind, Recordable
  <2> HIDE DEF todo
  <2>4. rows = index["rules"] \cup {new}
    <3>1. S = {}
      BY <1>14
    <3>2. Marking(index["rules"], {}) = index["rules"]
      BY DEF Marking
    <3> QED
      BY <1>8, <3>1, <3>2, Zenon
  <2>5. PendingIn(todo, "rules") = {<<"save", new>>}
    BY <2>1, <2>2
  <2>6. Heading("rules", rows)'
    BY <1>5, <2>3, <2>4, <2>5, HeadingBegun
  <2>7. PendingIn(todo, "audit") = {}
    BY <2>1, <2>2
  <2>8. S = {p[2].rule : p \in PendingIn(todo, "audit")}
    BY <1>14, <2>7
  <2>9. \A t \in Kept \ {"rules"} : PendingIn(todo, t) = {}
    BY <2>1, <2>2
  <2> HIDE DEF S
  <2> QED
    BY <1>13, <2>3, <2>6, <2>8, <2>9
<1>15. CASE s # 0
  <2> DEFINE todo == <<end, audit, save>>
  <2>1. /\ Of({end, audit, save}, "rules") = {<<"supersede", old>>, <<"save", new>>}
        /\ Of({end, audit, save}, "audit") = {<<"save", audit.row>>}
        /\ \A t : t \notin {"rules", "audit"} => Of({end, audit, save}, t) = {}
    BY <1>7 DEF Of
  <2>2. \A t : PendingIn(todo, t) = Of({end, audit, save}, t)
    BY PendingOf
  <2>3. /\ Begun(todo)
        /\ Len(todo) \in 0 .. 4
        /\ OneOfAKind(todo)
        /\ \A i \in DOMAIN todo : Recordable(todo[i])
    BY <1>1, <1>3, <1>7, <1>15 DEF OneOfAKind, Recordable
  <2> HIDE DEF todo
  <2>4. rows = Marking(index["rules"], {old.id}) \cup {new}
    BY <1>7, <1>8, <1>15
  <2>5. PendingIn(todo, "rules") = {<<"supersede", old>>, <<"save", new>>}
    BY <2>1, <2>2
  <2>6. Heading("rules", rows)'
    <3>1. old \in AnyRow /\ new.id # old.id
      BY <1>5, <1>6, <1>7, <1>15
    <3>2. \A n \in Rows("rules"), e \in AnyRow :
            (/\ PendingIn(todo, "rules") = {<<"supersede", e>>, <<"save", n>>}
             /\ Unused("rules", n, index["rules"])
             /\ n.id # e.id
             /\ rows = Marking(index["rules"], {e.id}) \cup {n})
               => Heading("rules", rows)'
      BY <2>3, HeadingBegun
    <3> QED
      BY <1>5, <2>4, <2>5, <3>1, <3>2, Zenon
  <2>7. PendingIn(todo, "audit") = {<<"save", audit.row>>}
    BY <2>1, <2>2
  <2>8. S = {p[2].rule : p \in PendingIn(todo, "audit")}
    <3>1. PICK row : row = audit.row
      OBVIOUS
    <3>2. {p[2].rule : p \in {<<"save", row>>}} = {row.rule}
      OBVIOUS
    <3> QED
      BY <1>7, <1>15, <2>7, <3>1, <3>2
  <2>9. \A t \in Kept \ {"rules"} : PendingIn(todo, t) = {}
    BY <2>1, <2>2 DEF Kept
  <2> HIDE DEF S
  <2> QED
    BY <1>13, <2>3, <2>6, <2>8, <2>9
<1> QED
  BY <1>14, <1>15

LEMMA BeginsDurable ==
  ASSUME Undisturbed, TypeInv, ReplayInv, DurableInv, Begins
  PROVE  DurableInv'
BY RegisterDurable, MovesDurable, RuleDurable, FailuresDurable DEF Begins

-----------------------------------------------------------------------------
(* The other steps.                                                        *)

(* What rebuild-index makes of the shards in an index without rules.       *)
LEMMA RebuiltSettles ==
  ASSUME TypeInv, ReplayInv, PlainInv, LogInv,
         NEW tables, tables["rules"] = {}
  PROVE  /\ Settled(Rebuilt(log, tables))
         /\ Rebuilt(log, tables)["rules"] =
              Marking(Latest(log, "rules"), Audited(log))
         /\ Marked(Rebuilt(log, tables)["rules"], Audited(log))
<1> DEFINE t == Rebuilt(log, tables)
           rules == Latest(log, "rules")
           A == Audited(log)
           mark(r) == IF r.id \in A THEN [r EXCEPT !.status = "superseded"] ELSE r
           plain(r) == [id |-> r.id, status |-> "active"]
<1>1. /\ log \in Seq(Records) /\ InOrder(log) /\ WrittenOnce(log)
      /\ \A i \in DOMAIN log : Readable(log[i])
  BY DEF TypeInv, ReplayInv, LogInv, PlainInv, Readable, Scanned
<1>2. /\ t["items"] = Latest(log, "items")
      /\ t["escalations"] = Latest(log, "escalations")
      /\ t["failures"] = Latest(log, "failures")
      /\ t["rules"] = Marking(tables["rules"] \cup rules, A)
  BY <1>1, RebuiltFromLatest
<1>3. t["rules"] = Marking(rules, A)
  <2>1. tables["rules"] \cup rules = rules
    OBVIOUS
  <2> QED
    BY <1>2, <2>1, Zenon
<1>4. ASSUME NEW r \in rules
      PROVE  r = plain(r) /\ r.status = "active"
  <2>1. PICK i \in DOMAIN log :
          /\ log[i].file.type = "rules"
          /\ log[i].row = r
          /\ r \in Rows("rules")
    BY <1>1, LatestTyped
  <2>2. r.status = "active"
    BY <2>1 DEF LogInv
  <2> QED
    BY <2>1, <2>2 DEF Rows
<1>5. \A r, s \in rules : r.id = s.id => r = s
  BY <1>1, LatestUnique
<1>6. \A r \in rules : /\ mark(r).id = r.id
                       /\ plain(mark(r)) = r
                       /\ mark(r).status = "superseded" <=> mark(r).id \in A
  BY <1>4
<1>7. Marking(rules, A) = {mark(r) : r \in rules}
  BY DEF Marking
<1>8. \A rows : Unmarked(rows) = {plain(r) : r \in rows}
  BY DEF Unmarked
<1> HIDE DEF t, rules, A, mark, plain
<1>9. Unmarked(t["rules"]) = rules
  <2>1. Unmarked(t["rules"]) = {plain(r) : r \in {mark(s) : s \in rules}}
    BY <1>3, <1>7, <1>8, Zenon
  <2> QED
    BY <1>6, <2>1
<1>10. \A r, s \in t["rules"] : r.id = s.id => r = s
  BY <1>3, <1>5, <1>6, <1>7
<1>11. Marked(t["rules"], A)
  BY <1>3, <1>6, <1>7 DEF Marked
<1>12. Settled(t)
  BY <1>2, <1>9, <1>10 DEF Settled, rules
<1> QED
  BY <1>3, <1>11, <1>12 DEF t, rules, A

(* It is what the index held.                                              *)
LEMMA Restored ==
  ASSUME TypeInv, ReplayInv, PlainInv, LogInv,
         Settled(index), Marked(index["rules"], Audited(log)),
         NEW tables, tables["rules"] = {}
  PROVE  \A t \in Kept : Rebuilt(log, tables)[t] = index[t]
<1>1. /\ Settled(Rebuilt(log, tables))
      /\ Rebuilt(log, tables)["rules"] = Marking(Latest(log, "rules"), Audited(log))
  BY RebuiltSettles
<1>2. \A t \in {"items", "escalations", "failures"} :
        Rebuilt(log, tables)[t] = index[t]
  BY <1>1, Zenon DEF Settled
<1> DEFINE rows == index["rules"]
           A == Audited(log)
           mark(r) == IF r.id \in A THEN [r EXCEPT !.status = "superseded"] ELSE r
           plain(r) == [id |-> r.id, status |-> "active"]
<1>3. ASSUME NEW r \in rows
      PROVE  mark(plain(r)) = r
  <2>1. r = [id |-> r.id, status |-> r.status] /\ r.status \in Statuses
    BY DEF TypeInv, Tables, IsIndex, Types, Rows
  <2>2. r.status = "superseded" <=> r.id \in A
    BY DEF Marked
  <2> HIDE DEF A
  <2>3. CASE r.id \in A
    BY <2>1, <2>2, <2>3
  <2>4. CASE r.id \notin A
    BY <2>1, <2>2, <2>4 DEF Statuses
  <2> QED
    BY <2>3, <2>4
<1>4. Latest(log, "rules") = {plain(r) : r \in rows}
  BY Zenon DEF Settled, Unmarked
<1>5. \A T : Marking(T, A) = {mark(r) : r \in T}
  BY DEF Marking
<1> HIDE DEF rows, A, mark, plain
<1>6. {mark(p) : p \in {plain(r) : r \in rows}} = rows
  BY <1>3
<1>7. Rebuilt(log, tables)["rules"] = index["rules"]
  BY <1>1, <1>4, <1>5, <1>6, Zenon DEF rows, A
<1> QED
  BY <1>2, <1>7 DEF Kept

(* A transaction that has nothing left to do has got where it was heading. *)
LEMMA CommitArrives ==
  ASSUME DurableInv, Commit
  PROVE  /\ Settled(tx.work)
         /\ Marked(tx.work["rules"], Audited(log))
         /\ StepTo(tx.work)
<1>1. tx.open /\ tx.todo = <<>>
  BY DEF Commit
<1>2. \A t : Pending(t) = {}
  BY <1>1 DEF Pending, PendingIn
<1>3. PICK goal : StepTo(goal) /\ HeadingFor(goal)
  BY <1>1 DEF DurableInv, Underway
<1>4. \A t \in Kept : goal[t] = tx.work[t]
  BY <1>2, <1>3 DEF HeadingFor, Heading
<1>5. Audited(log) \cup ToAudit = Audited(log)
  BY <1>2 DEF ToAudit
<1>6. Marked(tx.work["rules"], Audited(log))
  BY <1>3, <1>4, <1>5 DEF HeadingFor, Kept
<1>7. StepTo(tx.work)
  BY <1>3, <1>4 DEF StepTo, RegisterTo, MoveTo, RuleTo, FailureTo, Kept
<1> QED
  BY <1>1, <1>6, <1>7 DEF DurableInv

LEMMA CommitDurable ==
  ASSUME DurableInv, Commit
  PROVE  DurableInv'
<1>1. /\ Settled(tx.work)
      /\ Marked(tx.work["rules"], Audited(log))
  BY CommitArrives
<1>2. /\ tx.open /\ tx.todo = <<>>
      /\ index' = tx.work
      /\ ~ tx'.open /\ tx'.todo = <<>>
      /\ UNCHANGED <<stamp, log, rebuild, lost>>
  BY DEF Commit, NoTx
<1>3. PlainInv'
  BY <1>2 DEF DurableInv, PlainInv
<1>4. LogInv'
  BY <1>2 DEF DurableInv, LogInv, WrittenOnce, VersionLogged
<1>5. PendingInv'
  BY <1>2 DEF PendingInv, OneOfAKind
<1>6. Settled(index)' /\ Marked(index["rules"], Audited(log))'
  BY <1>1, <1>2 DEF Settled, Marked
<1> QED
  BY <1>2, <1>3, <1>4, <1>5, <1>6 DEF DurableInv

(* While no transaction is open, the invariant is about the index alone.   *)
LEMMA IdleDurable ==
  ASSUME DurableInv, ~ tx.open, UNCHANGED <<stamp, log, tx>>,
         rebuild'.phase = "scanned" => rebuild'.seen = log,
         lost' => index' = EmptyIndex,
         ~ lost' => Settled(index)' /\ Marked(index["rules"], Audited(log))'
  PROVE  DurableInv'
<1>1. PlainInv'
  BY DEF DurableInv, PlainInv
<1>2. LogInv'
  BY DEF DurableInv, LogInv, WrittenOnce, VersionLogged
<1>3. PendingInv'
  BY DEF DurableInv, PendingInv, OneOfAKind, PlainInv
<1> QED
  BY <1>1, <1>2, <1>3 DEF DurableInv

LEMMA UnchangedDurable ==
  ASSUME DurableInv, UNCHANGED <<stamp, log, index, tx, rebuild, lost>>
  PROVE  DurableInv'
<1>1. PlainInv'
  BY DEF DurableInv, PlainInv
<1>2. LogInv'
  BY DEF DurableInv, LogInv, WrittenOnce, VersionLogged
<1>3. PendingInv'
  BY DEF DurableInv, PendingInv, OneOfAKind, ToRecord, Fresh, VersionLogged
<1>4. ~ tx.open /\ ~ lost =>
        Settled(index)' /\ Marked(index["rules"], Audited(log))'
  BY DEF DurableInv, Settled, Marked
<1>5. tx.open => Settled(tx.work)'
  BY DEF DurableInv, Settled
<1>6. ASSUME tx.open
      PROVE  Underway'
  <2>1. PICK goal : StepTo(goal) /\ HeadingFor(goal)
    BY <1>6 DEF DurableInv, Underway
  <2>2. StepTo(goal)'
    BY <2>1, StepToKept
  <2>3. ASSUME NEW t \in Kept
        PROVE  Heading(t, goal[t])'
    <3>1. PICK g : g = goal[t]
      OBVIOUS
    <3>2. Heading(t, g)
      BY <2>1, <3>1 DEF HeadingFor
    <3>3. PendingIn(tx'.todo, t) = Pending(t) /\ tx'.work[t] = tx.work[t]
      BY DEF Pending
    <3>4. Heading(t, g)'
      BY <3>2, <3>3, HeadingStays
    <3> QED
      BY <3>1, <3>4
  <2>4. Marked(goal["rules"], Audited(log) \cup ToAudit)'
    BY <2>1 DEF HeadingFor, Marked, ToAudit, Pending
  <2>5. HeadingFor(goal)'
    BY <2>3, <2>4 DEF HeadingFor
  <2> QED
    BY <2>2, <2>5 DEF Underway
<1> QED
  BY <1>1, <1>2, <1>3, <1>4, <1>5, <1>6 DEF DurableInv

(* Deleting nothing but rules that are not there.                          *)
LEMMA RebuildFindsNoRules ==
  ASSUME TypeInv, ReplayInv, DurableInv, RebuildCommit
  PROVE  /\ rebuild.seen = log
         /\ index["rules"] = {}
<1>1. /\ ~ tx.open
      /\ rebuild.seen = log
      /\ Insertable(log, index)
  BY DEF RebuildCommit, DurableInv, PlainInv
<1>2. CASE lost
  BY <1>1, <1>2 DEF DurableInv, PlainInv, EmptyIndex, Types
<1>3. CASE ~ lost
  <2>1. Settled(index)
    BY <1>1, <1>3 DEF DurableInv
  <2>2. Ids(Latest(log, "rules")) = Ids(index["rules"])
    BY <2>1, SettledIds DEF Kept
  <2>3. Collected(log, "rules") = Latest(log, "rules")
    <3>1. /\ log \in Seq(Records) /\ InOrder(log) /\ WrittenOnce(log)
          /\ \A i \in DOMAIN log : Readable(log[i])
      BY DEF TypeInv, ReplayInv, DurableInv, LogInv, PlainInv, Readable, Scanned
    <3> QED
      BY <3>1, CollectedIsLatest DEF Fixed
  <2>4. Ids(index["rules"]) \cap Ids(index["rules"]) = {}
    <3>1. DeleteAllData(index)["rules"] = index["rules"]
      BY DEF DeleteAllData, Types
    <3> QED
      BY <1>1, <2>2, <2>3, <3>1 DEF Insertable
  <2>5. ASSUME NEW r \in index["rules"]
        PROVE  FALSE
    <3>1. r.id \in Ids(index["rules"])
      BY DEF Ids
    <3> QED
      BY <2>4, <3>1
  <2> QED
    BY <1>1, <2>5
<1> QED
  BY <1>1, <1>2, <1>3

LEMMA DurableInit == Init => DurableInv
<1> SUFFICES ASSUME Init PROVE DurableInv
  OBVIOUS
<1>1. PlainInv
  BY DEF Init, PlainInv, NoTx, NoRebuild
<1>2. LogInv
  BY DEF Init, LogInv, WrittenOnce
<1>3. PendingInv
  BY DEF Init, PendingInv, OneOfAKind, NoTx
<1>4. /\ \A t \in Kept : index[t] = {}
      /\ \A t : Latest(log, t) = {}
  BY DEF Init, EmptyIndex, Kept, Types, Latest, LatestOf
<1>5. Settled(index) /\ Marked(index["rules"], Audited(log))
  BY <1>4 DEF Settled, Unmarked, Marked, Kept
<1> QED
  BY <1>1, <1>2, <1>3, <1>5 DEF DurableInv, Init, NoTx

LEMMA DurableStep ==
  ASSUME Undisturbed, TypeInv, ReplayInv, DurableInv, [Next]_vars
  PROVE  DurableInv'
<1>1. CASE Begins
  BY <1>1, BeginsDurable
<1>2. CASE AppendSteps
  BY <1>2, AppendStepsDurable
<1>3. CASE SupersedeSteps
  BY <1>3, SupersedeStepsDurable
<1>4. CASE Commit
  BY <1>4, CommitDurable
<1>5. CASE Midnight \/ UNCHANGED vars
  BY <1>5, UnchangedDurable DEF Midnight, vars
<1>6. CASE IndexLost
  BY <1>6, IdleDurable DEF IndexLost, Serving
<1>7. CASE RebuildScan
  <2>1. ~ tx.open
    BY <1>7 DEF RebuildScan, Undisturbed
  <2>2. /\ rebuild'.phase = "scanned" /\ rebuild'.seen = log
        /\ UNCHANGED <<stamp, log, index, tx, lost>>
    BY <1>7 DEF RebuildScan
  <2>3. ~ lost' => Settled(index)' /\ Marked(index["rules"], Audited(log))'
    BY <2>1, <2>2 DEF DurableInv, Settled, Marked
  <2>4. lost' => index' = EmptyIndex
    BY <2>2 DEF DurableInv, PlainInv
  <2> QED
    BY <2>1, <2>2, <2>3, <2>4, IdleDurable
<1>8. CASE RebuildCommit
  <2>1. /\ ~ tx.open
        /\ rebuild'.phase # "scanned"
        /\ UNCHANGED <<stamp, log, tx>>
        /\ ~ lost'
        /\ index' = Rebuilt(rebuild.seen, index)
    BY <1>8 DEF RebuildCommit, NoRebuild
  <2>2. rebuild.seen = log /\ index["rules"] = {}
    BY <1>8, RebuildFindsNoRules
  <2>3. PICK t : t = Rebuilt(log, index)
    OBVIOUS
  <2>4. Settled(t) /\ Marked(t["rules"], Audited(log))
    BY <2>2, <2>3, RebuiltSettles DEF DurableInv
  <2>5. index' = t
    BY <2>1, <2>2, <2>3
  <2>6. Settled(index)' /\ Marked(index["rules"], Audited(log))'
    BY <2>1, <2>4, <2>5 DEF Settled, Marked
  <2> QED
    BY <2>1, <2>6, IdleDurable
<1>9. CASE RebuildRefused
  <2>1. /\ ~ tx.open
        /\ rebuild'.phase # "scanned"
        /\ UNCHANGED <<stamp, log, index, tx, lost>>
    BY <1>9 DEF RebuildRefused
  <2>2. ~ lost' => Settled(index)' /\ Marked(index["rules"], Audited(log))'
    BY <2>1 DEF DurableInv, Settled, Marked
  <2>3. lost' => index' = EmptyIndex
    BY <2>1 DEF DurableInv, PlainInv
  <2> QED
    BY <2>1, <2>2, <2>3, IdleDurable
<1>10. ~ Rollback
  BY DEF Rollback, Undisturbed
<1> QED
  BY <1>1, <1>2, <1>3, <1>4, <1>5, <1>6, <1>7, <1>8, <1>9, <1>10
  DEF Next, Begins, AppendSteps, SupersedeSteps

-----------------------------------------------------------------------------
(* The refinement.                                                         *)

(* The tables of DurableTables, once more.                                 *)
SameTables == \A t \in Kept : Recovered'[t] = Recovered[t]

LEMMA OthersKeepTables ==
  ASSUME Undisturbed, TypeInv, ReplayInv, DurableInv, [Next]_vars, ~ Commit
  PROVE  SameTables
<1>1. PlainInv /\ LogInv
  BY DEF DurableInv
<1>2. CASE IndexLost
  <2>1. /\ ~ tx.open /\ ~ lost /\ lost' /\ log' = log
    BY <1>2 DEF IndexLost, Serving
  <2>2. Settled(index) /\ Marked(index["rules"], Audited(log))
    BY <2>1 DEF DurableInv
  <2>3. \A t \in Kept : Rebuilt(log, EmptyIndex)[t] = index[t]
    BY <1>1, <2>2, Restored DEF EmptyIndex, Types
  <2>4. Recovered = index /\ Recovered' = Rebuilt(log, EmptyIndex)
    BY <2>1 DEF Recovered
  <2> QED
    BY <2>3, <2>4 DEF SameTables
<1>3. CASE RebuildCommit
  <2>1. /\ ~ tx.open /\ ~ lost'
        /\ index' = Rebuilt(log, index)
        /\ index["rules"] = {}
    BY <1>3, RebuildFindsNoRules DEF RebuildCommit
  <2>2. Recovered' = Rebuilt(log, index)
    BY <2>1 DEF Recovered
  <2>3. CASE lost
    <3>1. Recovered = Rebuilt(log, index)
      BY <1>1, <2>3 DEF Recovered, PlainInv
    <3> QED
      BY <2>2, <3>1 DEF SameTables
  <2>4. CASE ~ lost
    <3>1. Settled(index) /\ Marked(index["rules"], Audited(log))
      BY <2>1, <2>4 DEF DurableInv
    <3>2. \A t \in Kept : Rebuilt(log, index)[t] = index[t]
      BY <1>1, <2>1, <3>1, Restored
    <3>3. Recovered = index
      BY <2>4 DEF Recovered
    <3> QED
      BY <2>2, <3>2, <3>3 DEF SameTables
  <2> QED
    BY <2>3, <2>4
<1>4. CASE UNCHANGED <<index, lost>> /\ (lost => log' = log)
  BY <1>4 DEF SameTables, Recovered
<1>5. CASE AppendSteps
  <2>1. tx.open /\ UNCHANGED <<index, lost>>
    BY <1>5 DEF AppendSteps, SaveItem, SaveRule, SaveAssignment, SaveEscalation,
                SaveAudit, SaveFailure, SaveRow, UpdateItem, UpdateFailure,
                UpdateRow, TornAppend, Doing
  <2>2. ~ lost
    BY <1>1, <2>1 DEF PlainInv
  <2> QED
    BY <1>4, <2>1, <2>2
<1>6. CASE Begins
  <2>1. Started
    BY <1>6, BeginsStart
  <2> QED
    BY <1>4, <2>1 DEF Started
<1>7. CASE SupersedeSteps \/ Midnight \/ RebuildScan \/ RebuildRefused
             \/ Rollback \/ UNCHANGED vars
  <2>1. UNCHANGED <<index, lost, log>>
    BY <1>7 DEF SupersedeSteps, MarkAssignmentSuperseded, SupersedeRule,
                Midnight, RebuildScan, RebuildRefused, Rollback, vars
  <2> QED
    BY <1>4, <2>1
<1> QED
  BY <1>2, <1>3, <1>5, <1>6, <1>7
  DEF Next, Begins, AppendSteps, SupersedeSteps

(* A step of the index is one of DurableTables.                            *)
LEMMA RuleStep ==
  ASSUME TypeInv, RuleTo(tx.work), Recovered = index, Recovered' = tx.work
  PROVE  Durable!CreateRule
<1> DEFINE rules == index["rules"]
<1>1. PICK new \in Rows("rules"), S \in SUBSET (1 .. MaxVersion) :
        /\ Unused("rules", new, rules)
        /\ \A v, w \in S : v = w
        /\ tx.work["rules"] = Marking(rules, S) \cup {new}
        /\ \A t \in Kept \ {"rules"} : tx.work[t] = index[t]
  BY DEF RuleTo
<1>2. rules \subseteq Rows("rules")
  BY DEF TypeInv, Tables, IsIndex, Types
<1>3. PICK old : old = {r \in rules : r.id \in S /\ r.status = "active"}
  OBVIOUS
<1>4. /\ new.id \in 1 .. MaxVersion
      /\ new.id \notin Durable!Ids(rules)
      /\ new = [id |-> new.id, status |-> "active"]
  BY <1>1 DEF Rows, Unused, Ids, Durable!Ids
<1>5. old \in SUBSET rules /\ \A r, s \in old : r = s
  <2>1. \A r \in old : r = [id |-> r.id, status |-> "active"] /\ r.id \in S
    BY <1>2, <1>3 DEF Rows
  <2> QED
    BY <1>1, <1>3, <2>1
<1>6. Marking(rules, S) =
        {IF row \in old THEN [row EXCEPT !.status = "superseded"]
                        ELSE row : row \in rules}
  <2>1. \A r \in rules :
          (IF r.id \in S THEN [r EXCEPT !.status = "superseded"] ELSE r) =
          (IF r \in old THEN [r EXCEPT !.status = "superseded"] ELSE r)
    <3>1. ASSUME NEW r \in rules, r.id \in S, r \notin old
          PROVE  [r EXCEPT !.status = "superseded"] = r
      <4>1. r = [id |-> r.id, status |-> r.status] /\ r.status = "superseded"
        BY <1>2, <1>3, <3>1 DEF Rows, Statuses
      <4> QED
        BY <4>1
    <3> QED
      BY <1>3, <3>1
  <2> QED
    BY <2>1 DEF Marking
<1>7. /\ Recovered["rules"] = rules
      /\ Recovered'["rules"] =
           {IF row \in old THEN [row EXCEPT !.status = "superseded"]
                           ELSE row : row \in rules}
             \cup {[id |-> new.id, status |-> "active"]}
      /\ \A t \in Kept \ {"rules"} : Recovered'[t] = Recovered[t]
  BY <1>1, <1>4, <1>6
<1> HIDE DEF rules
<1> QED
  BY <1>4, <1>5, <1>7 DEF Durable!CreateRule, Kept

LEMMA StepIsNext ==
  ASSUME TypeInv, StepTo(tx.work), Recovered = index, Recovered' = tx.work
  PROVE  Durable!Next
<1>1. \A t \in Kept : /\ Recovered[t] = index[t]
                      /\ Recovered'[t] = tx.work[t]
  OBVIOUS
<1>2. CASE RegisterTo(tx.work)
  <2>1. Durable!Register
    BY <1>1, <1>2 DEF RegisterTo, Durable!Register, Durable!Ids, Ids, Unused,
                      Rows, Kept
  <2> QED
    BY <2>1 DEF Durable!Next
<1>3. CASE MoveTo(tx.work)
  <2>1. Durable!Update \/ Durable!Escalate
    BY <1>1, <1>3 DEF MoveTo, Durable!Update, Durable!Escalate,
                      Durable!Revised, Durable!Ids, Ids, Unused, Kept
  <2> QED
    BY <2>1 DEF Durable!Next
<1>4. CASE RuleTo(tx.work)
  BY <1>4, RuleStep DEF Durable!Next
<1>5. CASE FailureTo(tx.work)
  <2>1. Durable!RecordFailure \/ Durable!RetryFailure
    BY <1>1, <1>5 DEF FailureTo, Durable!RecordFailure, Durable!RetryFailure,
                      Durable!Ids, Ids, Unused, Kept
  <2> QED
    BY <2>1 DEF Durable!Next
<1> QED
  BY <1>2, <1>3, <1>4, <1>5 DEF StepTo

LEMMA DurableTablesStep ==
  ASSUME Undisturbed, TypeInv, ReplayInv, DurableInv, [Next]_vars
  PROVE  [Durable!Next]_(Durable!tables)
<1>1. CASE Commit
  <2>1. /\ tx.open /\ index' = tx.work /\ lost' = lost
    BY <1>1 DEF Commit
  <2>2. ~ lost
    BY <2>1 DEF DurableInv, PlainInv
  <2>3. Recovered = index /\ Recovered' = tx.work
    BY <2>1, <2>2 DEF Recovered
  <2>4. Durable!Next
    BY <1>1, <2>3, CommitArrives, StepIsNext
  <2> QED
    BY <2>4
<1>2. CASE ~ Commit
  <2>1. SameTables
    BY <1>2, OthersKeepTables
  <2> QED
    BY <2>1 DEF SameTables, Durable!tables, Kept
<1> QED
  BY <1>1, <1>2

(* Where nothing but the index database is lost, the store keeps what      *)
(* DurableTables promises (repo.Store over shard.Append and                *)
(* indexer.Rebuild): every transaction is one step of the tables, and no   *)
(* loss or reconstruction of the index is seen in them.                    *)
THEOREM StoreIsDurable ==
  ASSUME Undisturbed
  PROVE  Spec => DurableSpec
<1>1. Init => Durable!Init
  BY DEF Init, Durable!Init, Recovered, EmptyIndex, Types
<1>2. Init => AheadInv
  BY DEF Init, AheadInv, AllLogged, SeenLogged, EmptyIndex, NoTx, NoRebuild
<1>3. Init => ReplayInv
  BY DEF Init, ReplayInv, InOrder, NoTx
<1>4. /\ TypeInv /\ AheadInv /\ ReplayInv /\ DurableInv /\ [Next]_vars
        => /\ TypeInv' /\ AheadInv' /\ ReplayInv' /\ DurableInv'
           /\ [Durable!Next]_(Durable!tables)
  BY TypeStep, AheadStep, ReplayStep, DurableStep, DurableTablesStep
<1> QED
  BY <1>1, <1>2, <1>3, <1>4, TypeInit, DurableInit, PTL
  DEF Spec, DurableSpec, Durable!Spec
=============================================================================
