---------------------------- MODULE ShardedStore ----------------------------
(***************************************************************************)
(* The two-part storage of internal/repo: append-only shard files (a JSON  *)
(* line per record, a directory per type, a file per day) and the SQLite   *)
(* index every query reads.  A transaction of the index is open while its  *)
(* body appends to the shards; an append is never undone.  rebuild-index   *)
(* makes a new index from the shard files.                                 *)
(*                                                                         *)
(* A row keeps the columns that keys, flags and replay depend on.  An      *)
(* item's or a dead letter's other columns are one number, its revision.   *)
(* Of the audit entries only those that supersede a rule are kept: nothing *)
(* reads the others.  Batches are written as escalations are and left out. *)
(***************************************************************************)
EXTENDS Integers, Sequences, FiniteSets

CONSTANTS
  ItemIds,        (* uuids of items                                        *)
  Refs,           (* external references                                   *)
  MaxVersion,     (* bound: rule versions, and versions named superseded   *)
  MaxDay,         (* bound: days                                           *)
  MaxStamp,       (* bound: transactions begun                             *)
  MaxLines,       (* lines after which a shard file is full                *)
  Programs,       (* the transactions clients run                          *)
  SupersedeAny,   (* whether CreateRule may name a version not created yet *)
  Faults          (* what goes wrong, and who runs rebuild-index when      *)

AllPrograms == {"register", "update", "escalate", "reevaluate", "rule",
                "fail", "retry"}

AllFaults == {"abort",   (* a transaction body fails, or the process dies  *)
              "torn",    (* ... in the middle of writing a line            *)
              "race",    (* two registrations of one reference overlap     *)
              "loss",    (* the index database is removed                  *)
              "online"}  (* rebuild-index runs beside the server           *)

ASSUME ConstantsOK ==
  /\ MaxVersion \in Nat
  /\ MaxDay \in Nat
  /\ MaxStamp \in Nat
  /\ MaxLines \in Nat \ {0}
  /\ Programs \subseteq AllPrograms
  /\ Faults \subseteq AllFaults
  /\ SupersedeAny \in BOOLEAN

Types == {"items", "rules", "assignments", "escalations", "audit", "failures"}

Statuses == {"active", "superseded"}

(* The rows of a table; a number drawn from the stamps is a fresh uuid or  *)
(* a revision.                                                             *)
Rows(type) ==
  CASE type = "items" -> [id : ItemIds, ref : Refs, rev : Nat]
    [] type = "rules" -> [id : 1 .. MaxVersion, status : Statuses]
    [] type = "assignments" -> [id : Nat, item : ItemIds, current : BOOLEAN]
    [] type = "escalations" -> [id : Nat, item : ItemIds]
    [] type = "audit" -> [id : Nat, rule : 1 .. MaxVersion]
    [] type = "failures" -> [id : Nat, rev : Nat]

EmptyIndex == [type \in Types |-> {}]

VARIABLES
  day,       (* the date of the clock                                      *)
  stamp,     (* transactions begun so far                                  *)
  log,       (* the shard lines of all files, in the order written         *)
  index,     (* the committed tables of the index                          *)
  tx,        (* the open transaction: what it has left to do, its tables   *)
  manifest,  (* shard_manifest: file -> number of lines, for files it has  *)
  rebuild,   (* a run of rebuild-index: phase and the shards it has read   *)
  lost       (* the index was removed and has not been rebuilt             *)

vars == <<day, stamp, log, index, tx, manifest, rebuild, lost>>

NoTx == [open |-> FALSE, todo |-> <<>>, work |-> EmptyIndex]
NoRebuild == [phase |-> "idle", seen |-> <<>>]
NoManifest == [file \in {} |-> 0]

-----------------------------------------------------------------------------
(* Shard files.  A file is named by its type, its day and, once the file   *)
(* of the day is full, the number of its part (x.jsonl, x.jsonl_001, ...). *)

File(type, d, part) == [type |-> type, day |-> d, part |-> part]

(* How a line ends: "whole"; "cut" when it lost at least a brace, "open"   *)
(* when it lost the newline alone; "joined" is a record written after      *)
(* either, on the same line.                                               *)
Endings == {"whole", "cut", "open", "joined"}

InFile(l, file) == {i \in DOMAIN l : l[i].file = file}

Files(l) == {l[i].file : i \in DOMAIN l}

(* The lines a reader counts in a file.                                    *)
Lines(l, file) == Cardinality({i \in InFile(l, file) : l[i].end # "joined"})

Full(l, file) == Lines(l, file) >= MaxLines

(* The first part of the day's file with room.                             *)
RotateIfNeeded(l, type, d) ==
  LET parts == 0 .. Cardinality(Files(l))
      room  == {p \in parts : ~ Full(l, File(type, d, p))}
  IN  File(type, d, CHOOSE p \in room : \A q \in room : p <= q)

TornLast(l, file) ==
  {i \in InFile(l, file) : /\ l[i].end \in {"cut", "open"}
                           /\ \A j \in InFile(l, file) : j <= i}

(* Seeded fault: a full file is renamed and started anew.                  *)
AppendRenames(l, type, d, row, end) ==
  LET file == File(type, d, 0)
  IN  Append([i \in DOMAIN l |->
                IF Full(l, file) /\ l[i].file = file
                THEN [l[i] EXCEPT !.file = RotateIfNeeded(l, type, d)]
                ELSE l[i]],
             [file |-> file, row |-> row, end |-> end])

(* A record goes to the end of its file, behind whatever is there.         *)
AppendRecord(l, type, d, row, end) ==
  LET file == RotateIfNeeded(l, type, d)
      torn == TornLast(l, file)
  IN  Append([i \in DOMAIN l |->
                IF i \in torn THEN [l[i] EXCEPT !.end = "cut"] ELSE l[i]],
             [file |-> file, row |-> row,
              end |-> IF torn = {} THEN end ELSE "joined"])

(* The scanner takes the files whose names end in ".jsonl".                *)
Scanned(file) == file.part = 0

Readable(e) == Scanned(e.file) /\ e.end \in {"whole", "open"}

-----------------------------------------------------------------------------
(* Replay.                                                                 *)

(* Seeded fault: newest file first.                                        *)
ReadBeforeReversed(l, i, j) ==
  \/ l[i].file.day > l[j].file.day
  \/ l[i].file.day = l[j].file.day /\ i < j

(* The files of a type are read in the order of their names.               *)
ReadBefore(l, i, j) ==
  \/ l[i].file.day < l[j].file.day
  \/ l[i].file.day = l[j].file.day /\ i < j

RecordsOf(l, type, id) ==
  {i \in DOMAIN l : /\ l[i].file.type = type
                    /\ l[i].row.id = id
                    /\ Readable(l[i])}

(* Of the records with one id the collector keeps the last it reads.       *)
LastRead(l, type, id) ==
  {i \in RecordsOf(l, type, id) :
     \A j \in RecordsOf(l, type, id) \ {i} : ReadBefore(l, j, i)}

Collected(l, type) ==
  LET ids == {l[i].row.id : i \in {j \in DOMAIN l : l[j].file.type = type}}
  IN  UNION {{l[i].row : i \in LastRead(l, type, id)} : id \in ids}

Ids(rows) == {row.id : row \in rows}

(* Seeded fault: nothing is derived for rules.                            *)
PostProcessRebuildNoRules(tables) ==
  LET escalated == {row.item : row \in tables["escalations"]}
  IN  [tables EXCEPT
         !["assignments"] =
           {IF row.item \in escalated THEN [row EXCEPT !.current = FALSE]
                                      ELSE row : row \in @}]

(* The flags no record carries: whether a referral is current is derived   *)
(* from the escalations, whether a rule is superseded from the audit.      *)
PostProcessRebuild(tables) ==
  LET escalated  == {row.item : row \in tables["escalations"]}
      superseded == {row.rule : row \in tables["audit"]}
  IN  [tables EXCEPT
         !["assignments"] =
           {IF row.item \in escalated THEN [row EXCEPT !.current = FALSE]
                                      ELSE row : row \in @},
         !["rules"] =
           {IF row.id \in superseded THEN [row EXCEPT !.status = "superseded"]
                                     ELSE row : row \in @}]

(* DeleteAllData clears every table but rules.                             *)
DeleteAllData(tables) ==
  [type \in Types |-> IF type = "rules" THEN tables["rules"] ELSE {}]

(* The tables rebuild-index would commit: the collected records inserted   *)
(* into the cleared index.                                                 *)
Rebuilt(l, tables) ==
  PostProcessRebuild(
    [type \in Types |-> DeleteAllData(tables)[type] \cup Collected(l, type)])

(* An entry for every file scanned, counting the lines it has by now.      *)
RebuildManifests(seen, l) ==
  [file \in {f \in Files(seen) : Scanned(f)} |-> Lines(l, file)]

UniqueRefs(items) == \A a, b \in items : a.ref = b.ref => a.id = b.id

(* Every INSERT succeeds: references are unique, and so are versions.      *)
Insertable(l, tables) ==
  /\ UniqueRefs(Collected(l, "items"))
  /\ Ids(Collected(l, "rules")) \cap Ids(DeleteAllData(tables)["rules"]) = {}

-----------------------------------------------------------------------------
(* Transactions (WithTx): Begin fixes the operations of a transaction,     *)
(* each operation is a step, Commit publishes the tables.  The index has   *)
(* one connection, so that no other transaction is open meanwhile.         *)

Operation(op, type, row) == [op |-> op, type |-> type, row |-> row, day |-> day]
Save(type, row)   == Operation("save", type, row)
Change(type, row) == Operation("update", type, row)
Supersede(type, row) == Operation("supersede", type, row)

Init ==
  /\ day = 0
  /\ stamp = 0
  /\ log = <<>>
  /\ index = EmptyIndex
  /\ tx = NoTx
  /\ manifest = NoManifest
  /\ rebuild = NoRebuild
  /\ lost = FALSE

(* rebuild-index and the server are run one after the other, and the       *)
(* server is not started on an index that was lost, unless "online".       *)
Serving == /\ ~ tx.open
           /\ ~ lost
           /\ rebuild.phase = "scanned" => "online" \in Faults

Begin(program, todo) ==
  /\ program \in Programs
  /\ Serving
  /\ stamp < MaxStamp
  /\ stamp' = stamp + 1
  /\ tx' = [open |-> TRUE, todo |-> todo, work |-> index]
  /\ UNCHANGED <<day, log, index, manifest, rebuild, lost>>

Referral(item) == [id |-> stamp, item |-> item, current |-> TRUE]

(* The reference was free when Register looked, before the transaction.    *)
Register(id, ref) ==
  /\ \A i \in DOMAIN log : log[i].file.type = "items" => log[i].row.id # id
  /\ "race" \in Faults \/ \A row \in index["items"] : row.ref # ref
  /\ Begin("register",
           <<Save("items", [id |-> id, ref |-> ref, rev |-> stamp]),
             Save("assignments", Referral(id))>>)

(* A request or a round of the scheduler that moves an item on.            *)
Update(item) ==
  Begin("update", <<Change("items", [item EXCEPT !.rev = stamp])>>)

Escalate(item) ==
  Begin("escalate",
        <<Save("escalations", [id |-> stamp, item |-> item.id]),
          Supersede("assignments", item),
          Save("assignments", Referral(item.id)),
          Change("items", [item EXCEPT !.rev = stamp])>>)

Reevaluate(item) ==
  Begin("reevaluate",
        <<Supersede("assignments", item),
          Save("assignments", Referral(item.id)),
          Change("items", [item EXCEPT !.rev = stamp])>>)

CurrentVersion ==
  LET versions == {0} \cup Ids(index["rules"])
  IN  CHOOSE v \in versions : \A w \in versions : w <= v

(* The version follows the one current when CreateRule looked; 0 names no  *)
(* version to supersede.                                                   *)
CreateRule(seen, s) ==
  LET new == [id |-> seen + 1, status |-> "active"]
      old == [id |-> s, status |-> "superseded"]
  IN  /\ seen < MaxVersion
      /\ seen <= CurrentVersion
      /\ "race" \in Faults \/ seen = CurrentVersion
      /\ SupersedeAny \/ s <= CurrentVersion
      /\ Begin("rule",
               IF s = 0 THEN <<Save("rules", new)>>
               ELSE <<Supersede("rules", old),
                      Save("audit", [id |-> stamp, rule |-> s]),
                      Save("rules", new)>>)

(* The scheduler gives up on a task.                                       *)
RecordTaskFailure ==
  Begin("fail", <<Save("failures", [id |-> stamp, rev |-> stamp])>>)

RetryFailure(failure) ==
  Begin("retry", <<Change("failures", [failure EXCEPT !.rev = stamp])>>)

-----------------------------------------------------------------------------
(* Operations of the open transaction.                                     *)

Doing(op, type) == /\ tx.open
                   /\ tx.todo # <<>>
                   /\ Head(tx.todo).op = op
                   /\ Head(tx.todo).type = type

Row == Head(tx.todo).row

Continue(type, rows) ==
  [tx EXCEPT !.todo = Tail(@), !.work = [@ EXCEPT ![type] = rows]]

(* The record is appended first; then the row is inserted, or a key is     *)
(* taken and the transaction rolled back.                                  *)
SaveRow(type, taken) ==
  /\ Doing("save", type)
  /\ log' = AppendRecord(log, type, Head(tx.todo).day, Row, "whole")
  /\ tx' = IF taken THEN NoTx ELSE Continue(type, tx.work[type] \cup {Row})
  /\ UNCHANGED <<day, stamp, index, manifest, rebuild, lost>>

(* An update is filed under the day it is made.                            *)
UpdateRow(type) ==
  /\ Doing("update", type)
  /\ log' = AppendRecord(log, type, day, Row, "whole")
  /\ tx' = Continue(type,
             {IF row.id = Row.id THEN Row ELSE row : row \in tx.work[type]})
  /\ UNCHANGED <<day, stamp, index, manifest, rebuild, lost>>

SaveItem ==
  SaveRow("items",
          \E row \in tx.work["items"] : row.id = Row.id \/ row.ref = Row.ref)
SaveRule ==
  SaveRow("rules", \E row \in tx.work["rules"] : row.id = Row.id)
SaveAssignment == SaveRow("assignments", FALSE)
SaveEscalation == SaveRow("escalations", FALSE)
SaveAudit == SaveRow("audit", FALSE)
SaveFailure == SaveRow("failures", FALSE)

(* Seeded fault: the row is updated and no record appended.                *)
UpdateItemIndexOnly ==
  /\ Doing("update", "items")
  /\ tx' = Continue("items",
             {IF row.id = Row.id THEN Row ELSE row : row \in tx.work["items"]})
  /\ UNCHANGED <<day, stamp, log, index, manifest, rebuild, lost>>

UpdateItem == UpdateRow("items")
UpdateFailure == UpdateRow("failures")

(* Neither of these leaves a record.                                       *)
MarkAssignmentSuperseded ==
  /\ Doing("supersede", "assignments")
  /\ tx' = Continue("assignments",
             {IF row.item = Row.id THEN [row EXCEPT !.current = FALSE]
                                   ELSE row : row \in tx.work["assignments"]})
  /\ UNCHANGED <<day, stamp, log, index, manifest, rebuild, lost>>

(* Seeded fault: the rule goes back to a draft.                            *)
SupersedeRuleDrafts ==
  /\ Doing("supersede", "rules")
  /\ tx' = Continue("rules",
             {IF row.id = Row.id THEN [row EXCEPT !.status = "draft"]
                                 ELSE row : row \in tx.work["rules"]})
  /\ UNCHANGED <<day, stamp, log, index, manifest, rebuild, lost>>

SupersedeRule ==
  /\ Doing("supersede", "rules")
  /\ tx' = Continue("rules",
             {IF row.id = Row.id THEN [row EXCEPT !.status = "superseded"]
                                 ELSE row : row \in tx.work["rules"]})
  /\ UNCHANGED <<day, stamp, log, index, manifest, rebuild, lost>>

Commit ==
  /\ tx.open
  /\ tx.todo = <<>>
  /\ index' = tx.work
  /\ tx' = NoTx
  /\ UNCHANGED <<day, stamp, log, manifest, rebuild, lost>>

(* The body returns an error, Commit fails, or the process dies: SQLite    *)
(* forgets the transaction, the shard files keep what it appended.         *)
Rollback ==
  /\ "abort" \in Faults
  /\ tx.open
  /\ tx' = NoTx
  /\ UNCHANGED <<day, stamp, log, index, manifest, rebuild, lost>>

(* The disk is full or the process dies within Append's write.             *)
TornAppend ==
  /\ "torn" \in Faults
  /\ \E type \in Types, end \in {"cut", "open"} :
       /\ Doing("save", type) \/ Doing("update", type)
       /\ LET d == IF Doing("save", type) THEN Head(tx.todo).day ELSE day
          IN  /\ TornLast(log, RotateIfNeeded(log, type, d)) = {}
              /\ log' = AppendRecord(log, type, d, Row, end)
  /\ tx' = NoTx
  /\ UNCHANGED <<day, stamp, index, manifest, rebuild, lost>>

-----------------------------------------------------------------------------
(* The data directory and its tools.                                       *)

Midnight ==
  /\ day < MaxDay
  /\ day' = day + 1
  /\ UNCHANGED <<stamp, log, index, tx, manifest, rebuild, lost>>

(* index.db is gone when the next process opens the data directory; Open   *)
(* creates empty tables.                                                   *)
IndexLost ==
  /\ "loss" \in Faults
  /\ Serving
  /\ rebuild.phase # "scanned"
  /\ index' = EmptyIndex
  /\ manifest' = NoManifest
  /\ lost' = TRUE
  /\ UNCHANGED <<day, stamp, log, tx, rebuild>>

(* RebuildIndex reads the shards, then begins its transaction.             *)
RebuildScan ==
  /\ rebuild.phase # "scanned"
  /\ tx.open => "online" \in Faults
  /\ rebuild' = [phase |-> "scanned", seen |-> log]
  /\ UNCHANGED <<day, stamp, log, index, tx, manifest, lost>>

RebuildCommit ==
  /\ rebuild.phase = "scanned"
  /\ ~ tx.open
  /\ Insertable(rebuild.seen, index)
  /\ index' = Rebuilt(rebuild.seen, index)
  /\ manifest' = RebuildManifests(rebuild.seen, log)
  /\ rebuild' = NoRebuild
  /\ lost' = FALSE
  /\ UNCHANGED <<day, stamp, log, tx>>

(* An INSERT fails and the transaction of rebuild-index is rolled back.    *)
RebuildRefused ==
  /\ rebuild.phase = "scanned"
  /\ ~ tx.open
  /\ ~ Insertable(rebuild.seen, index)
  /\ rebuild' = [phase |-> "refused", seen |-> <<>>]
  /\ UNCHANGED <<day, stamp, log, index, tx, manifest, lost>>

Next ==
  \/ \E id \in ItemIds, ref \in Refs : Register(id, ref)
  \/ \E item \in index["items"] :
       Update(item) \/ Escalate(item) \/ Reevaluate(item)
  \/ \E seen, s \in 0 .. MaxVersion : CreateRule(seen, s)
  \/ RecordTaskFailure
  \/ \E failure \in index["failures"] : RetryFailure(failure)
  \/ SaveItem
  \/ SaveRule
  \/ SaveAssignment
  \/ SaveEscalation
  \/ SaveAudit
  \/ SaveFailure
  \/ UpdateItem
  \/ UpdateFailure
  \/ MarkAssignmentSuperseded
  \/ SupersedeRule
  \/ Commit
  \/ Rollback
  \/ TornAppend
  \/ Midnight
  \/ IndexLost
  \/ RebuildScan
  \/ RebuildCommit
  \/ RebuildRefused

Spec == Init /\ [][Next]_vars

-----------------------------------------------------------------------------
(* Properties.                                                             *)

FileNames == [type : Types, day : 0 .. MaxDay, part : Nat]

IsRecord(e) == /\ e.file \in FileNames
               /\ e.row \in Rows(e.file.type)
               /\ e.end \in Endings

IsIndex(tables) ==
  /\ DOMAIN tables = Types
  /\ \A type \in Types : tables[type] \subseteq Rows(type)

IsOperation(o) ==
  /\ o.type \in Types
  /\ o.day \in 0 .. MaxDay
  /\ \/ o.op \in {"save", "update"} /\ o.row \in Rows(o.type)
     \/ o.op = "supersede" /\ o.type \in {"assignments", "rules"}

(* Types of the variables.                                                 *)
TypeOK ==
  /\ day \in 0 .. MaxDay
  /\ stamp \in 0 .. MaxStamp
  /\ \A i \in DOMAIN log : IsRecord(log[i])
  /\ IsIndex(index)
  /\ tx.open \in BOOLEAN
  /\ IsIndex(tx.work)
  /\ \A i \in DOMAIN tx.todo : IsOperation(tx.todo[i])
  /\ DOMAIN manifest \subseteq FileNames
  /\ rebuild.phase \in {"idle", "scanned", "refused"}
  /\ \A i \in DOMAIN rebuild.seen : IsRecord(rebuild.seen[i])
  /\ lost \in BOOLEAN

(* What a record says of a row, but for the flags that updates of the      *)
(* index alone change: is_current and the status of a rule.                *)
Flagless(type, row) ==
  IF type = "rules" THEN row.id
  ELSE IF type = "assignments" THEN <<row.id, row.item>>
  ELSE row

Logged(l, type, row) ==
  \E i \in DOMAIN l : /\ l[i].file.type = type
                      /\ Flagless(type, l[i].row) = Flagless(type, row)

AllLogged(l, tables) ==
  \A type \in Types : \A row \in tables[type] : Logged(l, type, row)

(* The shards are written ahead of the index: whatever a transaction       *)
(* commits, or rebuild-index restores, some shard line says, over aborted  *)
(* transactions, torn lines, full files and lost indexes.                  *)
WrittenAhead == AllLogged(log, index)

(* Replay never turns an item or a dead letter back: while the record of   *)
(* the row the index holds can be read, the record rebuild-index would     *)
(* take is that one or a later one, whatever day files they are in.        *)
ReplayNotOlder ==
  \A type \in {"items", "failures"} : \A row \in index[type] :
    (\E j \in DOMAIN log : /\ log[j].row = row
                           /\ log[j].file.type = type
                           /\ Readable(log[j]))
      => \E i \in LastRead(log, type, row.id) : log[i].row.rev >= row.rev

(* Reconcile never reports records missing from a shard (MissingInShard):  *)
(* files only grow past what the manifest says of them.                    *)
ManifestNotAhead ==
  \A file \in DOMAIN manifest : /\ file \in Files(log)
                                /\ manifest[file] <= Lines(log, file)

(* Where no transaction fails, no file fills up and no rebuild-index runs  *)
(* beside the server, the tables of items, rules, escalations and dead     *)
(* letters are the ones of DurableTables: transactions stay atomic, and a  *)
(* lost index costs nothing that rebuild-index does not bring back.        *)
Recovered == IF lost THEN Rebuilt(log, EmptyIndex) ELSE index

Durable == INSTANCE DurableTables WITH
  items       <- Recovered["items"],
  rules       <- Recovered["rules"],
  escalations <- Recovered["escalations"],
  failures    <- Recovered["failures"]

DurableSpec == Durable!Spec

(* "中途失败不留半条记录" (README.legacy.md:51): a transaction that does   *)
(* not commit leaves no record that a rebuild would bring to life.  The    *)
(* appends of a rolled back transaction stay in the shards.                *)
NoHalfRecords ==
  Serving => Collected(log, "items") \subseteq index["items"]
=============================================================================
