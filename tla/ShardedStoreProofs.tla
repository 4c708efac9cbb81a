------------------------- MODULE ShardedStoreProofs -------------------------
(***************************************************************************)
(* Proofs about ShardedStore, for any items, references, bounds, programs  *)
(* and faults: an append always finds a part of its file with room, the    *)
(* shard files are written ahead of the index, the manifest never tells    *)
(* more than the files hold, and replay never turns a row back.            *)
(***************************************************************************)
EXTENDS ShardedStore, FiniteSetTheorems, WellFoundedInduction, TLAPS

-----------------------------------------------------------------------------
(* Numbers and finite sets.                                                *)

LEMMA LeastNatural ==
  ASSUME NEW T \in SUBSET Nat, T # {}
  PROVE  \E n \in T : \A m \in T : n <= m
<1>1. PICK n \in T : \A m \in T : ~ (<<m, n>> \in OpToRel(<, Nat))
  BY NatLessThanWellFounded, WFMin
<1>2. ASSUME NEW m \in T
      PROVE  n <= m
  <2>1. ~ (m < n)
    BY <1>1 DEF OpToRel
  <2>2. m \in Nat /\ n \in Nat
    OBVIOUS
  <2> QED
    BY <2>1, <2>2
<1> QED
  BY <1>2

(* The lines of a file are some of those of the log.                       *)
LEMMA LinesFinite ==
  ASSUME NEW S, NEW l \in Seq(S), NEW file
  PROVE  /\ IsFiniteSet({i \in InFile(l, file) : l[i].end # "joined"})
         /\ Lines(l, file) \in Nat
         /\ file \notin Files(l) => Lines(l, file) = 0
<1> DEFINE whole == {i \in InFile(l, file) : l[i].end # "joined"}
<1>1. IsFiniteSet(1 .. Len(l)) /\ DOMAIN l = 1 .. Len(l)
  <2>1. Len(l) \in Int /\ 1 \in Int /\ DOMAIN l = 1 .. Len(l)
    OBVIOUS
  <2> QED
    BY <2>1, FS_Interval
<1>2. whole \in SUBSET (1 .. Len(l))
  BY <1>1 DEF InFile
<1>3. IsFiniteSet(whole)
  BY <1>1, <1>2, FS_Subset
<1>4. Cardinality(whole) \in Nat
  BY <1>3, FS_CardinalityType
<1>5. ASSUME file \notin Files(l)
      PROVE  Cardinality(whole) = 0
  <2>1. whole = {}
    BY <1>5 DEF Files, InFile
  <2> QED
    BY <2>1, FS_EmptySet, Zenon
<1> QED
  BY <1>3, <1>4, <1>5 DEF Lines

LEMMA FilesFinite ==
  ASSUME NEW S, NEW l \in Seq(S)
  PROVE  IsFiniteSet(Files(l)) /\ Cardinality(Files(l)) \in Nat
<1> DEFINE f == [i \in 1 .. Len(l) |-> l[i].file]
<1>1. IsFiniteSet(1 .. Len(l)) /\ DOMAIN l = 1 .. Len(l)
  <2>1. Len(l) \in Int /\ 1 \in Int /\ DOMAIN l = 1 .. Len(l)
    OBVIOUS
  <2> QED
    BY <2>1, FS_Interval
<1>2. f \in Surjection(1 .. Len(l), Files(l))
  BY <1>1 DEF Surjection, Files
<1>3. IsFiniteSet(Files(l))
  BY <1>1, <1>2, FS_Surjection
<1> QED
  BY <1>3, FS_CardinalityType

-----------------------------------------------------------------------------
(* Appending.                                                              *)

(* One of the parts up to the number of files has room: they cannot all be *)
(* full, for then they would be more than the files there are.             *)
LEMMA SomeRoom ==
  ASSUME NEW S, NEW l \in Seq(S), NEW type, NEW d
  PROVE  \E p \in 0 .. Cardinality(Files(l)) : ~ Full(l, File(type, d, p))
<1> DEFINE n == Cardinality(Files(l))
           parts == 0 .. n
           f == [p \in parts |-> File(type, d, p)]
<1>1. IsFiniteSet(Files(l)) /\ n \in Nat
  BY FilesFinite
<1>2. SUFFICES ASSUME \A p \in parts : Full(l, File(type, d, p))
               PROVE  FALSE
  OBVIOUS
<1>3. ASSUME NEW p \in parts
      PROVE  File(type, d, p) \in Files(l)
  <2> DEFINE file == File(type, d, p)
  <2> HIDE DEF file
  <2>1. Lines(l, file) >= MaxLines
    BY <1>2 DEF Full, file
  <2>2. file \notin Files(l) => Lines(l, file) = 0
    BY LinesFinite
  <2> QED
    BY <2>1, <2>2, ConstantsOK DEF file
<1>4. f \in [parts -> Files(l)]
  BY <1>3
<1>5. IsFiniteSet(parts) /\ n < Cardinality(parts)
  <2>1. 0 \in Int /\ n \in Int /\ ~ (0 > n)
    BY <1>1
  <2>2. IsFiniteSet(parts) /\ Cardinality(parts) = n - 0 + 1
    BY <2>1, FS_Interval
  <2> QED
    BY <2>1, <2>2
<1> HIDE DEF parts, f
<1>6. \E p, q \in parts : p # q /\ f[p] = f[q]
  BY <1>1, <1>4, <1>5, FS_PigeonHole, Zenon
<1> QED
  BY <1>6 DEF File, f

(* The file a record goes to is a part of the day's file of its type, and  *)
(* is not full.                                                            *)
LEMMA Rotated ==
  ASSUME NEW S, NEW l \in Seq(S), NEW type, NEW d
  PROVE  \E p \in Nat : /\ RotateIfNeeded(l, type, d) = File(type, d, p)
                        /\ ~ Full(l, File(type, d, p))
<1> DEFINE parts == 0 .. Cardinality(Files(l))
           room  == {p \in parts : ~ Full(l, File(type, d, p))}
<1>1. room \in SUBSET Nat /\ room # {}
  <2>1. Cardinality(Files(l)) \in Nat
    BY FilesFinite
  <2>2. \E p \in parts : ~ Full(l, File(type, d, p))
    BY SomeRoom
  <2> QED
    BY <2>1, <2>2
<1>2. \E p \in room : \A q \in room : p <= q
  BY <1>1, LeastNatural
<1> DEFINE p == CHOOSE p \in room : \A q \in room : p <= q
<1>3. p \in room
  BY <1>2
<1>4. RotateIfNeeded(l, type, d) = File(type, d, p)
  BY DEF RotateIfNeeded
<1> QED
  BY <1>1, <1>3, <1>4

AnyRow == UNION {Rows(type) : type \in Types}

Entries == [file : FileNames, row : AnyRow, end : Endings]

Records == {e \in Entries : IsRecord(e)}

(* An append leaves what was written where it was, but for a line that had *)
(* lost its end, and adds its record to a file of its type and day.        *)
Extended(l, type, d, row, new) ==
  /\ new \in Seq(Records)
  /\ Len(new) = Len(l) + 1
  /\ \A i \in 1 .. Len(l) :
       /\ new[i].file = l[i].file
       /\ new[i].row = l[i].row
       /\ \/ new[i].end = l[i].end
          \/ l[i].end \in {"cut", "open"} /\ new[i].end = "cut"
  /\ new[Len(new)].file.type = type
  /\ new[Len(new)].file.day = d
  /\ new[Len(new)].row = row

LEMMA Appended ==
  ASSUME NEW l \in Seq(Records), NEW type \in Types, NEW d \in 0 .. MaxDay,
         NEW row \in Rows(type), NEW end \in {"whole", "cut", "open"}
  PROVE  Extended(l, type, d, row, AppendRecord(l, type, d, row, end))
<1> DEFINE file == RotateIfNeeded(l, type, d)
           torn == TornLast(l, file)
           last == [file |-> file, row |-> row,
                    end |-> IF torn = {} THEN end ELSE "joined"]
           old == [i \in DOMAIN l |->
                     IF i \in torn THEN [l[i] EXCEPT !.end = "cut"] ELSE l[i]]
<1>1. PICK p \in Nat : file = File(type, d, p)
  BY Rotated
<1>2. file \in FileNames /\ file.type = type /\ file.day = d
  BY <1>1 DEF File, FileNames
<1> DEFINE new == AppendRecord(l, type, d, row, end)
<1>3. new = Append(old, last)
  BY DEF AppendRecord
<1>4. last \in Records
  <2>1. row \in AnyRow
    BY DEF AnyRow
  <2>2. last.end \in Endings
    BY DEF Endings
  <2> QED
    BY <1>2, <2>1, <2>2 DEF Records, Entries, IsRecord
<1>5. ASSUME NEW i \in DOMAIN l
      PROVE  /\ old[i] \in Records
             /\ old[i].file = l[i].file
             /\ old[i].row = l[i].row
             /\ \/ old[i].end = l[i].end
                \/ l[i].end \in {"cut", "open"} /\ old[i].end = "cut"
  <2>1. l[i] \in Records
    OBVIOUS
  <2>2. i \in torn => l[i].end \in {"cut", "open"}
    BY DEF TornLast
  <2> QED
    BY <2>1, <2>2 DEF Records, Entries, IsRecord, Endings
<1>6. last.file = file /\ last.row = row
  OBVIOUS
<1>7. DOMAIN old = 1 .. Len(l) /\ DOMAIN l = 1 .. Len(l) /\ Len(l) \in Nat
  OBVIOUS
<1> HIDE DEF old, last, file
<1>8. old \in Seq(Records) /\ Len(old) = Len(l)
  <2>1. old = [i \in 1 .. Len(l) |-> old[i]]
    BY <1>7 DEF old
  <2> QED
    BY <1>5, <1>7, <2>1
<1> HIDE DEF new
<1> QED
  <2>1. Extended(l, type, d, row, new)
    BY <1>2, <1>3, <1>4, <1>5, <1>6, <1>7, <1>8 DEF Extended
  <2> QED
    BY <2>1 DEF new

-----------------------------------------------------------------------------
(* Types.                                                                  *)

Tables == {t \in [Types -> SUBSET AnyRow] : IsIndex(t)}

Operations ==
  {o \in [op : {"save", "update", "supersede"}, type : Types, row : AnyRow,
          day : 0 .. MaxDay] : IsOperation(o)}

(* TypeOK, with the log and the transaction as the sequences, functions    *)
(* and records they are.                                                   *)
TypeInv ==
  /\ day \in 0 .. MaxDay
  /\ stamp \in 0 .. MaxStamp
  /\ log \in Seq(Records)
  /\ index \in Tables
  /\ tx \in [open : BOOLEAN, todo : Seq(Operations), work : Tables]
  /\ DOMAIN manifest \subseteq FileNames
  /\ rebuild.phase \in {"idle", "scanned", "refused"}
  /\ rebuild.seen \in Seq(Records)
  /\ lost \in BOOLEAN

LEMMA TypeImplied == TypeInv => TypeOK
<1> SUFFICES ASSUME TypeInv PROVE TypeOK
  OBVIOUS
<1>1. \A i \in DOMAIN log : IsRecord(log[i])
  <2>1. \A i \in DOMAIN log : log[i] \in Records
    BY DEF TypeInv
  <2> QED
    BY <2>1 DEF Records
<1>2. \A i \in DOMAIN rebuild.seen : IsRecord(rebuild.seen[i])
  <2>1. \A i \in DOMAIN rebuild.seen : rebuild.seen[i] \in Records
    BY DEF TypeInv
  <2> QED
    BY <2>1 DEF Records
<1>3. tx.open \in BOOLEAN /\ tx.todo \in Seq(Operations) /\ tx.work \in Tables
  BY DEF TypeInv
<1>4. \A i \in DOMAIN tx.todo : IsOperation(tx.todo[i])
  <2>1. \A i \in DOMAIN tx.todo : tx.todo[i] \in Operations
    BY <1>3
  <2> QED
    BY <2>1 DEF Operations
<1>5. IsIndex(index) /\ IsIndex(tx.work)
  BY <1>3 DEF TypeInv, Tables
<1> QED
  BY <1>1, <1>2, <1>3, <1>4, <1>5 DEF TypeInv, TypeOK

LEMMA TypeInit == Init => TypeInv
<1> SUFFICES ASSUME Init PROVE TypeInv
  OBVIOUS
<1>1. EmptyIndex \in Tables
  BY DEF EmptyIndex, Tables, IsIndex
<1>2. /\ NoTx \in [open : BOOLEAN, todo : Seq(Operations), work : Tables]
      /\ NoRebuild.phase = "idle"
      /\ NoRebuild.seen = <<>>
      /\ DOMAIN NoManifest = {}
  BY <1>1 DEF NoTx, NoRebuild, NoManifest
<1>3. <<>> \in Seq(Records) /\ 0 \in 0 .. MaxDay /\ 0 \in 0 .. MaxStamp
  BY ConstantsOK
<1> QED
  BY <1>1, <1>2, <1>3 DEF Init, TypeInv

(* The operations transactions are made of.                                *)
LEMMA OperationKinds ==
  ASSUME TypeInv, NEW type \in Types, NEW row \in Rows(type)
  PROVE  /\ Save(type, row) \in Operations
         /\ Change(type, row) \in Operations
         /\ \A t \in {"assignments", "rules"} : Supersede(t, row) \in Operations
<1>1. row \in AnyRow
  BY DEF AnyRow
<1>2. day \in 0 .. MaxDay
  BY DEF TypeInv
<1>3. {"assignments", "rules"} \subseteq Types
  BY DEF Types
<1> QED
  BY <1>1, <1>2, <1>3
  DEF Save, Change, Supersede, Operation, Operations, IsOperation

(* What every transaction begins with.                                     *)
Started ==
  /\ Serving
  /\ stamp < MaxStamp
  /\ stamp' = stamp + 1
  /\ \E todo \in Seq(Operations) :
       tx' = [open |-> TRUE, todo |-> todo, work |-> index]
  /\ UNCHANGED <<day, log, index, manifest, rebuild, lost>>

LEMMA StartedBy ==
  ASSUME NEW program, NEW todo \in Seq(Operations), Begin(program, todo)
  PROVE  Started
BY DEF Begin, Started

(* The transactions clients, the loops and the tools begin.                *)
Begins ==
  \/ \E id \in ItemIds, ref \in Refs : Register(id, ref)
  \/ \E item \in index["items"] :
       Update(item) \/ Escalate(item) \/ Reevaluate(item)
  \/ \E seen, s \in 0 .. MaxVersion : CreateRule(seen, s)
  \/ RecordTaskFailure
  \/ \E failure \in index["failures"] : RetryFailure(failure)

(* Each of them is started with operations of its own.                     *)
LEMMA BeginsStart ==
  ASSUME TypeInv, Begins
  PROVE  Started
<1>1. stamp \in Nat
  BY ConstantsOK DEF TypeInv
<1>2. \A item \in ItemIds : Save("assignments", Referral(item)) \in Operations
  <2>1. \A item \in ItemIds : Referral(item) \in Rows("assignments")
    BY <1>1 DEF Referral, Rows
  <2> QED
    BY <2>1, OperationKinds DEF Types
<1>3. ASSUME NEW id \in ItemIds, NEW ref \in Refs, Register(id, ref)
      PROVE  Started
  <2> DEFINE row == [id |-> id, ref |-> ref, rev |-> stamp]
             save == Save("items", row)
             refer == Save("assignments", Referral(id))
  <2>1. row \in Rows("items")
    BY <1>1 DEF Rows
  <2>2. save \in Operations /\ refer \in Operations
    BY <2>1, <1>2, OperationKinds DEF Types
  <2>3. Begin("register", <<save, refer>>)
    BY <1>3 DEF Register
  <2> HIDE DEF save, refer
  <2>4. <<save, refer>> \in Seq(Operations)
    BY <2>2
  <2> QED
    BY <2>3, <2>4, StartedBy
<1>4. ASSUME NEW item \in index["items"],
             Update(item) \/ Escalate(item) \/ Reevaluate(item)
      PROVE  Started
  <2> DEFINE change == Change("items", [item EXCEPT !.rev = stamp])
             escalation == [id |-> stamp, item |-> item.id]
             save == Save("escalations", escalation)
             end == Supersede("assignments", item)
             refer == Save("assignments", Referral(item.id))
  <2>1. item \in Rows("items")
    BY DEF TypeInv, Tables, IsIndex, Types
  <2>2. /\ [item EXCEPT !.rev = stamp] \in Rows("items")
        /\ escalation \in Rows("escalations")
        /\ item.id \in ItemIds
    BY <1>1, <2>1 DEF Rows
  <2>3. /\ change \in Operations
        /\ save \in Operations
        /\ end \in Operations
        /\ refer \in Operations
    BY <2>1, <2>2, <1>2, OperationKinds DEF Types
  <2>4. \/ Begin("update", <<change>>)
        \/ Begin("escalate", <<save, end, refer, change>>)
        \/ Begin("reevaluate", <<end, refer, change>>)
    BY <1>4 DEF Update, Escalate, Reevaluate
  <2> HIDE DEF change, save, end, refer
  <2>5. /\ <<change>> \in Seq(Operations)
        /\ <<save, end, refer, change>> \in Seq(Operations)
        /\ <<end, refer, change>> \in Seq(Operations)
    BY <2>3
  <2> QED
    BY <2>4, <2>5, StartedBy
<1>5. ASSUME NEW seen \in 0 .. MaxVersion, NEW s \in 0 .. MaxVersion,
             CreateRule(seen, s)
      PROVE  Started
  <2> DEFINE new == [id |-> seen + 1, status |-> "active"]
             old == [id |-> s, status |-> "superseded"]
             entry == [id |-> stamp, rule |-> s]
             save == Save("rules", new)
             end == Supersede("rules", old)
             audit == Save("audit", entry)
  <2>1. new \in Rows("rules")
    BY <1>5, ConstantsOK DEF CreateRule, Statuses, Rows
  <2>2. s # 0 => old \in Rows("rules") /\ entry \in Rows("audit")
    BY <1>1, ConstantsOK DEF Statuses, Rows
  <2>3. /\ save \in Operations
        /\ s # 0 => end \in Operations /\ audit \in Operations
    BY <2>1, <2>2, OperationKinds DEF Types
  <2>4. Begin("rule", IF s = 0 THEN <<save>> ELSE <<end, audit, save>>)
    BY <1>5 DEF CreateRule
  <2> HIDE DEF save, end, audit
  <2>5. (IF s = 0 THEN <<save>> ELSE <<end, audit, save>>) \in Seq(Operations)
    BY <2>3
  <2> QED
    BY <2>4, <2>5, StartedBy
<1>6. ASSUME RecordTaskFailure
      PROVE  Started
  <2> DEFINE save == Save("failures", [id |-> stamp, rev |-> stamp])
  <2>1. save \in Operations
    BY <1>1, OperationKinds DEF Types, Rows
  <2>2. Begin("fail", <<save>>)
    BY <1>6 DEF RecordTaskFailure
  <2> HIDE DEF save
  <2>3. <<save>> \in Seq(Operations)
    BY <2>1
  <2> QED
    BY <2>2, <2>3, StartedBy
<1>7. ASSUME NEW failure \in index["failures"], RetryFailure(failure)
      PROVE  Started
  <2> DEFINE change == Change("failures", [failure EXCEPT !.rev = stamp])
  <2>1. failure \in Rows("failures")
    BY DEF TypeInv, Tables, IsIndex, Types
  <2>2. [failure EXCEPT !.rev = stamp] \in Rows("failures")
    BY <1>1, <2>1 DEF Rows
  <2>3. change \in Operations
    BY <2>2, OperationKinds DEF Types
  <2>4. Begin("retry", <<change>>)
    BY <1>7 DEF RetryFailure
  <2> HIDE DEF change
  <2>5. <<change>> \in Seq(Operations)
    BY <2>3
  <2> QED
    BY <2>4, <2>5, StartedBy
<1> QED
  BY <1>3, <1>4, <1>5, <1>6, <1>7 DEF Begins

(* The operation a transaction does next.                                  *)
LEMMA NextOperation ==
  ASSUME TypeInv, NEW op, NEW type, Doing(op, type)
  PROVE  /\ type \in Types
         /\ Head(tx.todo).day \in 0 .. MaxDay
         /\ Tail(tx.todo) \in Seq(Operations)
         /\ op \in {"save", "update"} => Row \in Rows(type)
<1>1. tx.todo \in Seq(Operations) /\ tx.todo # <<>>
  BY DEF TypeInv, Doing
<1>2. Head(tx.todo) \in Operations /\ Tail(tx.todo) \in Seq(Operations)
  BY <1>1
<1>3. Head(tx.todo).op = op /\ Head(tx.todo).type = type
  BY DEF Doing
<1> QED
  BY <1>2, <1>3 DEF Operations, IsOperation, Row

LEMMA Continued ==
  ASSUME TypeInv, NEW op, NEW type, Doing(op, type),
         NEW rows \in SUBSET Rows(type), tx' = Continue(type, rows)
  PROVE  /\ tx' \in [open : BOOLEAN, todo : Seq(Operations), work : Tables]
         /\ tx'.todo = Tail(tx.todo)
         /\ tx'.open
         /\ tx'.work[type] = rows
         /\ \A t \in Types \ {type} : tx'.work[t] = tx.work[t]
<1> DEFINE work == [tx.work EXCEPT ![type] = rows]
<1>1. /\ tx \in [open : BOOLEAN, todo : Seq(Operations), work : Tables]
      /\ tx.open
  BY DEF TypeInv, Doing
<1>2. tx' = [tx EXCEPT !.todo = Tail(tx.todo), !.work = work]
  BY DEF Continue
<1>3. tx' = [open |-> tx.open, todo |-> Tail(tx.todo), work |-> work]
  BY <1>1, <1>2
<1>4. type \in Types /\ Tail(tx.todo) \in Seq(Operations)
  BY NextOperation
<1>5. tx.work \in [Types -> SUBSET AnyRow] /\ IsIndex(tx.work)
  BY <1>1 DEF Tables
<1>6. rows \subseteq AnyRow
  BY <1>4 DEF AnyRow
<1>7. work \in Tables
  BY <1>4, <1>5, <1>6 DEF Tables, IsIndex
<1> QED
  BY <1>1, <1>3, <1>4, <1>5, <1>7

(* The operations that append, with what they append and the tables they   *)
(* leave to the rest of the transaction, if any.                           *)
Appends(type, d, end, rows) ==
  /\ log' = AppendRecord(log, type, d, Row, end)
  /\ tx' = NoTx \/ tx' = Continue(type, rows)
  /\ UNCHANGED <<day, stamp, index, manifest, rebuild, lost>>

NoTxTyped == NoTx \in [open : BOOLEAN, todo : Seq(Operations), work : Tables]

LEMMA NoTxIsTyped == NoTxTyped
BY DEF NoTxTyped, NoTx, EmptyIndex, Tables, IsIndex

LEMMA TypeAppends ==
  ASSUME TypeInv, NEW op \in {"save", "update"}, NEW type, Doing(op, type),
         NEW d \in 0 .. MaxDay, NEW end \in {"whole", "cut", "open"},
         NEW rows \in SUBSET Rows(type), Appends(type, d, end, rows)
  PROVE  TypeInv'
<1>1. type \in Types /\ Row \in Rows(type) /\ log \in Seq(Records)
  BY NextOperation DEF TypeInv
<1>2. log' \in Seq(Records)
  BY <1>1, Appended DEF Appends, Extended
<1>3. tx' \in [open : BOOLEAN, todo : Seq(Operations), work : Tables]
  BY Continued, NoTxIsTyped DEF Appends, NoTxTyped
<1> QED
  BY <1>2, <1>3 DEF TypeInv, Appends

(* Saving adds the row, updating puts it in the place of the one with its  *)
(* id.                                                                     *)
Updated(type) ==
  {IF row.id = Row.id THEN Row ELSE row : row \in tx.work[type]}

LEMMA WorkTyped ==
  ASSUME TypeInv, NEW type \in Types
  PROVE  tx.work[type] \subseteq Rows(type)
BY DEF TypeInv, Tables, IsIndex

LEMMA SaveAppends ==
  ASSUME TypeInv, NEW type, NEW taken, SaveRow(type, taken)
  PROVE  /\ Doing("save", type)
         /\ Head(tx.todo).day \in 0 .. MaxDay
         /\ tx.work[type] \cup {Row} \in SUBSET Rows(type)
         /\ Appends(type, Head(tx.todo).day, "whole", tx.work[type] \cup {Row})
<1>1. Doing("save", type)
  BY DEF SaveRow
<1>2. /\ type \in Types
      /\ Head(tx.todo).day \in 0 .. MaxDay
      /\ Row \in Rows(type)
  BY <1>1, NextOperation
<1>3. tx.work[type] \subseteq Rows(type)
  BY <1>2, WorkTyped
<1> QED
  BY <1>1, <1>2, <1>3 DEF SaveRow, Appends

LEMMA UpdateAppends ==
  ASSUME TypeInv, NEW type, UpdateRow(type)
  PROVE  /\ Doing("update", type)
         /\ day \in 0 .. MaxDay
         /\ Updated(type) \in SUBSET Rows(type)
         /\ Appends(type, day, "whole", Updated(type))
<1>1. Doing("update", type) /\ day \in 0 .. MaxDay
  BY DEF UpdateRow, TypeInv
<1>2. type \in Types /\ Row \in Rows(type)
  BY <1>1, NextOperation
<1>3. tx.work[type] \subseteq Rows(type)
  BY <1>2, WorkTyped
<1>4. Updated(type) \in SUBSET Rows(type)
  BY <1>2, <1>3 DEF Updated
<1> QED
  BY <1>1, <1>4 DEF UpdateRow, Appends, Updated

(* A line torn by a full disk or a crash ends the transaction.             *)
LEMMA TornAppends ==
  ASSUME TypeInv, TornAppend
  PROVE  \E op \in {"save", "update"}, type \in Types, d \in 0 .. MaxDay,
            end \in {"cut", "open"} :
           /\ Doing(op, type)
           /\ d = IF op = "save" THEN Head(tx.todo).day ELSE day
           /\ Appends(type, d, end, {})
           /\ tx' = NoTx
<1>1. PICK type \in Types, end \in {"cut", "open"} :
        /\ Doing("save", type) \/ Doing("update", type)
        /\ log' = AppendRecord(log, type,
                    IF Doing("save", type) THEN Head(tx.todo).day ELSE day,
                    Row, end)
  BY DEF TornAppend
<1>2. tx' = NoTx /\ UNCHANGED <<day, stamp, index, manifest, rebuild, lost>>
  BY DEF TornAppend
<1>3. CASE Doing("save", type)
  <2>1. Head(tx.todo).day \in 0 .. MaxDay
    BY <1>3, NextOperation
  <2>2. Appends(type, Head(tx.todo).day, end, {})
    BY <1>1, <1>2, <1>3 DEF Appends
  <2> QED
    BY <1>2, <1>3, <2>1, <2>2
<1>4. CASE Doing("update", type) /\ ~ Doing("save", type)
  <2>1. day \in 0 .. MaxDay
    BY DEF TypeInv
  <2>2. Appends(type, day, end, {})
    BY <1>1, <1>2, <1>4 DEF Appends
  <2> QED
    BY <1>2, <1>4, <2>1, <2>2
<1> QED
  BY <1>1, <1>3, <1>4

AppendSteps ==
  \/ SaveItem
  \/ SaveRule
  \/ SaveAssignment
  \/ SaveEscalation
  \/ SaveAudit
  \/ SaveFailure
  \/ UpdateItem
  \/ UpdateFailure
  \/ TornAppend

(* What they have in common: the rows a transaction goes on with are those *)
(* it had and the one appended.                                            *)
LEMMA AppendStep ==
  ASSUME TypeInv, AppendSteps
  PROVE  \E op \in {"save", "update"}, type \in Types, d \in 0 .. MaxDay,
            end \in {"whole", "cut", "open"} : \E rows \in SUBSET Rows(type) :
           /\ Doing(op, type)
           /\ d = IF op = "save" THEN Head(tx.todo).day ELSE day
           /\ rows \subseteq tx.work[type] \cup {Row}
           /\ Appends(type, d, end, rows)
<1> DEFINE Goal(op, type, d, end, rows) ==
             /\ Doing(op, type)
             /\ d = IF op = "save" THEN Head(tx.todo).day ELSE day
             /\ rows \subseteq tx.work[type] \cup {Row}
             /\ Appends(type, d, end, rows)
<1>1. ASSUME NEW type \in Types, NEW taken, SaveRow(type, taken)
      PROVE  \E d \in 0 .. MaxDay, rows \in SUBSET Rows(type) :
               Goal("save", type, d, "whole", rows)
  BY <1>1, SaveAppends
<1>2. ASSUME NEW type \in Types, UpdateRow(type)
      PROVE  \E d \in 0 .. MaxDay, rows \in SUBSET Rows(type) :
               Goal("update", type, d, "whole", rows)
  <2>1. Updated(type) \subseteq tx.work[type] \cup {Row}
    BY DEF Updated
  <2> QED
    BY <1>2, <2>1, UpdateAppends
<1>3. CASE TornAppend
  <2>1. PICK op \in {"save", "update"}, type \in Types, d \in 0 .. MaxDay,
             end \in {"cut", "open"} :
          /\ Doing(op, type)
          /\ d = IF op = "save" THEN Head(tx.todo).day ELSE day
          /\ Appends(type, d, end, {})
    BY <1>3, TornAppends
  <2>2. Goal(op, type, d, end, {})
    BY <2>1
  <2>3. {} \in SUBSET Rows(type)
    OBVIOUS
  <2> HIDE DEF Goal
  <2>4. \E o \in {"save", "update"}, t \in Types, e \in 0 .. MaxDay,
           f \in {"whole", "cut", "open"} : \E rows \in SUBSET Rows(t) :
          Goal(o, t, e, f, rows)
    BY <2>2, <2>3
  <2> QED
    BY <2>4 DEF Goal
<1> HIDE DEF Goal
<1>4. CASE ~ TornAppend
  <2>1. /\ \A t \in {"items", "rules", "assignments", "escalations", "audit",
                     "failures"} : t \in Types
    BY DEF Types
  <2>2. \/ \E t \in Types : \E taken : SaveRow(t, taken)
        \/ \E t \in Types : UpdateRow(t)
    BY <1>4, <2>1 DEF AppendSteps, SaveItem, SaveRule, SaveAssignment,
                      SaveEscalation, SaveAudit, SaveFailure, UpdateItem,
                      UpdateFailure
  <2>3. \E o \in {"save", "update"}, t \in Types, e \in 0 .. MaxDay,
           f \in {"whole", "cut", "open"} : \E rows \in SUBSET Rows(t) :
          Goal(o, t, e, f, rows)
    BY <1>1, <1>2, <2>2
  <2> QED
    BY <2>3 DEF Goal
<1> QED
  BY <1>3, <1>4

(* The operations of the index alone change a flag of some rows.           *)
SupersedeSteps == MarkAssignmentSuperseded \/ SupersedeRule

LEMMA SupersedeStep ==
  ASSUME TypeInv, SupersedeSteps
  PROVE  /\ UNCHANGED <<day, stamp, log, index, manifest, rebuild, lost>>
         /\ \E type \in {"assignments", "rules"} : \E rows \in SUBSET Rows(type) :
              /\ Doing("supersede", type)
              /\ tx' = Continue(type, rows)
              /\ \A row \in rows : \E old \in tx.work[type] :
                   Flagless(type, row) = Flagless(type, old)
<1>1. CASE MarkAssignmentSuperseded
  <2> DEFINE t == "assignments"
             rows == {IF row.item = Row.id THEN [row EXCEPT !.current = FALSE]
                                           ELSE row : row \in tx.work[t]}
  <2>1. tx.work[t] \subseteq Rows(t)
    BY WorkTyped DEF Types
  <2>2. \A row \in tx.work[t] :
          LET new == [row EXCEPT !.current = FALSE]
          IN  new \in Rows(t) /\ Flagless(t, new) = Flagless(t, row)
    BY <2>1 DEF Rows, Flagless
  <2>3. /\ rows \in SUBSET Rows(t)
        /\ \A row \in rows : \E old \in tx.work[t] :
             Flagless(t, row) = Flagless(t, old)
    BY <2>1, <2>2
  <2>4. /\ Doing("supersede", t)
        /\ tx' = Continue(t, rows)
        /\ UNCHANGED <<day, stamp, log, index, manifest, rebuild, lost>>
    BY <1>1 DEF MarkAssignmentSuperseded
  <2> HIDE DEF rows
  <2> QED
    BY <2>3, <2>4
<1>2. CASE SupersedeRule
  <2> DEFINE t == "rules"
             rows == {IF row.id = Row.id THEN [row EXCEPT !.status = "superseded"]
                                         ELSE row : row \in tx.work[t]}
  <2>1. tx.work[t] \subseteq Rows(t)
    BY WorkTyped DEF Types
  <2>2. \A row \in tx.work[t] :
          LET new == [row EXCEPT !.status = "superseded"]
          IN  new \in Rows(t) /\ Flagless(t, new) = Flagless(t, row)
    BY <2>1 DEF Rows, Flagless, Statuses
  <2>3. /\ rows \in SUBSET Rows(t)
        /\ \A row \in rows : \E old \in tx.work[t] :
             Flagless(t, row) = Flagless(t, old)
    BY <2>1, <2>2
  <2>4. /\ Doing("supersede", t)
        /\ tx' = Continue(t, rows)
        /\ UNCHANGED <<day, stamp, log, index, manifest, rebuild, lost>>
    BY <1>2 DEF SupersedeRule
  <2> HIDE DEF rows
  <2> QED
    BY <2>3, <2>4
<1> QED
  BY <1>1, <1>2 DEF SupersedeSteps

(* What rebuild-index commits are rows of the shards, or of the rules it   *)
(* does not delete, but for their flags.                                   *)
LEMMA CollectedRows ==
  ASSUME NEW l \in Seq(Records), NEW type \in Types, NEW row \in Collected(l, type)
  PROVE  /\ row \in Rows(type)
         /\ \E i \in DOMAIN l : l[i].file.type = type /\ l[i].row = row
<1>1. PICK i \in DOMAIN l : l[i].file.type = type /\ l[i].row = row
  BY DEF Collected, LastRead, RecordsOf
<1>2. l[i] \in Records
  OBVIOUS
<1> QED
  BY <1>1, <1>2 DEF Records, IsRecord

LEMMA RebuiltRows ==
  ASSUME NEW l \in Seq(Records), NEW tables \in Tables
  PROVE  /\ Rebuilt(l, tables) \in Tables
         /\ \A type \in Types : \A row \in Rebuilt(l, tables)[type] :
              \E old \in tables[type] \cup Collected(l, type) :
                Flagless(type, row) = Flagless(type, old)
<1> DEFINE all == [type \in Types |->
                     DeleteAllData(tables)[type] \cup Collected(l, type)]
           As == {IF row.item \in {e.item : e \in all["escalations"]}
                  THEN [row EXCEPT !.current = FALSE] ELSE row :
                    row \in all["assignments"]}
           Rs == {IF row.id \in {e.rule : e \in all["audit"]}
                  THEN [row EXCEPT !.status = "superseded"] ELSE row :
                    row \in all["rules"]}
<1>1. \A type \in Types : /\ all[type] \subseteq Rows(type)
                          /\ all[type] \subseteq tables[type] \cup Collected(l, type)
  <2>1. \A type \in Types : Collected(l, type) \subseteq Rows(type)
    BY CollectedRows
  <2>2. \A type \in Types : tables[type] \subseteq Rows(type)
    BY DEF Tables, IsIndex
  <2>3. \A type \in Types : DeleteAllData(tables)[type] \subseteq tables[type]
    BY DEF DeleteAllData
  <2> QED
    BY <2>1, <2>2, <2>3
<1>2. Rebuilt(l, tables) = [all EXCEPT !["assignments"] = As, !["rules"] = Rs]
  BY DEF Rebuilt, PostProcessRebuild
<1> HIDE DEF all
<1>3. DOMAIN all = Types /\ all = [type \in Types |-> all[type]]
  BY DEF all
<1>4. /\ As \subseteq Rows("assignments")
      /\ \A row \in As : \E old \in all["assignments"] :
           Flagless("assignments", row) = Flagless("assignments", old)
  <2>1. all["assignments"] \subseteq Rows("assignments")
    BY <1>1 DEF Types
  <2>2. \A row \in all["assignments"] :
          LET new == [row EXCEPT !.current = FALSE]
          IN  /\ new \in Rows("assignments")
              /\ Flagless("assignments", new) = Flagless("assignments", row)
    BY <2>1 DEF Rows, Flagless
  <2> QED
    BY <2>1, <2>2
<1>5. /\ Rs \subseteq Rows("rules")
      /\ \A row \in Rs : \E old \in all["rules"] :
           Flagless("rules", row) = Flagless("rules", old)
  <2>1. all["rules"] \subseteq Rows("rules")
    BY <1>1 DEF Types
  <2>2. \A row \in all["rules"] :
          LET new == [row EXCEPT !.status = "superseded"]
          IN  /\ new \in Rows("rules")
              /\ Flagless("rules", new) = Flagless("rules", row)
    BY <2>1 DEF Rows, Flagless, Statuses
  <2> QED
    BY <2>1, <2>2
<1> HIDE DEF As, Rs
<1>6. ASSUME NEW type \in Types
      PROVE  /\ Rebuilt(l, tables)[type] \subseteq Rows(type)
             /\ \A row \in Rebuilt(l, tables)[type] : \E old \in all[type] :
                  Flagless(type, row) = Flagless(type, old)
  <2>1. CASE type = "assignments"
    BY <2>1, <1>2, <1>3, <1>4
  <2>2. CASE type = "rules"
    BY <2>2, <1>2, <1>3, <1>5
  <2>3. CASE type \notin {"assignments", "rules"}
    <3>1. Rebuilt(l, tables)[type] = all[type]
      BY <2>3, <1>2, <1>3
    <3> QED
      BY <3>1, <1>1
  <2> QED
    BY <2>1, <2>2, <2>3
<1>7. Rebuilt(l, tables) \in [Types -> SUBSET AnyRow]
  <2>1. \A type \in Types : Rebuilt(l, tables)[type] \subseteq AnyRow
    BY <1>6 DEF AnyRow
  <2>2. Rebuilt(l, tables) = [type \in Types |-> Rebuilt(l, tables)[type]]
    BY <1>2, <1>3
  <2> QED
    BY <2>1, <2>2
<1>8. Rebuilt(l, tables) \in Tables
  BY <1>6, <1>7 DEF Tables, IsIndex
<1> QED
  BY <1>1, <1>6, <1>8

LEMMA TypeStep == TypeInv /\ [Next]_vars => TypeInv'
<1> SUFFICES ASSUME TypeInv, [Next]_vars PROVE TypeInv'
  OBVIOUS
<1>1. CASE UNCHANGED vars
  BY <1>1 DEF vars, TypeInv
<1>2. CASE Begins
  <2>1. PICK todo \in Seq(Operations) :
          tx' = [open |-> TRUE, todo |-> todo, work |-> index]
    BY <1>2, BeginsStart DEF Started
  <2>2. /\ stamp' \in 0 .. MaxStamp
        /\ UNCHANGED <<day, log, index, manifest, rebuild, lost>>
    BY <1>2, BeginsStart, ConstantsOK DEF Started, TypeInv
  <2>3. tx' \in [open : BOOLEAN, todo : Seq(Operations), work : Tables]
    BY <2>1 DEF TypeInv
  <2> QED
    BY <2>2, <2>3 DEF TypeInv
<1>3. CASE AppendSteps
  BY <1>3, AppendStep, TypeAppends
<1>4. CASE SupersedeSteps
  <2>1. tx' \in [open : BOOLEAN, todo : Seq(Operations), work : Tables]
    BY <1>4, SupersedeStep, Continued
  <2> QED
    BY <1>4, <2>1, SupersedeStep DEF TypeInv
<1>5. CASE Commit
  <2>1. index' \in Tables
    BY <1>5 DEF Commit, TypeInv
  <2> QED
    BY <1>5, <2>1, NoTxIsTyped DEF Commit, TypeInv, NoTxTyped
<1>6. CASE Rollback
  BY <1>6, NoTxIsTyped DEF Rollback, TypeInv, NoTxTyped
<1>7. CASE Midnight
  BY <1>7, ConstantsOK DEF Midnight, TypeInv
<1>8. CASE IndexLost
  <2>1. EmptyIndex \in Tables /\ DOMAIN NoManifest = {}
    BY DEF EmptyIndex, Tables, IsIndex, NoManifest
  <2> QED
    BY <1>8, <2>1 DEF IndexLost, TypeInv
<1>9. CASE RebuildScan
  BY <1>9 DEF RebuildScan, TypeInv
<1>10. CASE RebuildCommit
  <2>1. index' \in Tables
    BY <1>10, RebuiltRows DEF RebuildCommit, TypeInv
  <2>2. DOMAIN manifest' \subseteq FileNames
    <3>1. DOMAIN manifest' \subseteq Files(rebuild.seen)
      BY <1>10 DEF RebuildCommit, RebuildManifests
    <3>2. \A i \in DOMAIN rebuild.seen : rebuild.seen[i] \in Records
      BY DEF TypeInv
    <3> QED
      BY <3>1, <3>2 DEF Files, Records, Entries
  <2>3. NoRebuild.phase = "idle" /\ NoRebuild.seen = <<>>
    BY DEF NoRebuild
  <2>4. <<>> \in Seq(Records)
    OBVIOUS
  <2> QED
    BY <1>10, <2>1, <2>2, <2>3, <2>4 DEF RebuildCommit, TypeInv
<1>11. CASE RebuildRefused
  BY <1>11 DEF RebuildRefused, TypeInv
<1> QED
  BY <1>1, <1>2, <1>3, <1>4, <1>5, <1>6, <1>7, <1>8, <1>9, <1>10, <1>11
  DEF Next, Begins, AppendSteps, SupersedeSteps

(* Whatever fails and however files fill up, every record goes to a file   *)
(* of its own type and day, a part with room always being found            *)
(* (shard.RotateIfNeeded), and every row of the index, of an open          *)
(* transaction and of a rebuild is one its table can hold.                 *)
THEOREM StoreTypes == Spec => []TypeOK
<1> QED
  BY TypeInit, TypeStep, TypeImplied, PTL DEF Spec

-----------------------------------------------------------------------------
(* Written ahead.                                                          *)

(* What a rebuild has read is in the shards still, for nothing is taken    *)
(* out of them.                                                            *)
SeenLogged ==
  \A i \in DOMAIN rebuild.seen :
    Logged(log, rebuild.seen[i].file.type, rebuild.seen[i].row)

AheadInv ==
  /\ AllLogged(log, index)
  /\ AllLogged(log, tx.work)
  /\ SeenLogged

(* An append logs its row and keeps every other logged.                    *)
LEMMA LoggedKept ==
  ASSUME NEW l \in Seq(Records), NEW type, NEW d, NEW row, NEW new,
         Extended(l, type, d, row, new)
  PROVE  /\ \A t, r : Logged(l, t, r) => Logged(new, t, r)
         /\ Logged(new, type, row)
<1>1. /\ DOMAIN l = 1 .. Len(l) /\ Len(l) \in Nat
      /\ DOMAIN new = 1 .. Len(l) + 1
      /\ \A i \in 1 .. Len(l) : new[i].file = l[i].file /\ new[i].row = l[i].row
      /\ new[Len(l) + 1].file.type = type
      /\ new[Len(l) + 1].row = row
  BY DEF Extended
<1>2. ASSUME NEW t, NEW r, Logged(l, t, r)
      PROVE  Logged(new, t, r)
  <2>1. PICK i \in DOMAIN l :
          l[i].file.type = t /\ Flagless(t, l[i].row) = Flagless(t, r)
    BY <1>2, Zenon DEF Logged
  <2>2. i \in DOMAIN new /\ new[i].file.type = t /\ new[i].row = l[i].row
    BY <1>1, <2>1
  <2> QED
    BY <2>1, <2>2 DEF Logged
<1>3. Logged(new, type, row)
  <2>1. Len(l) + 1 \in DOMAIN new
    BY <1>1
  <2> QED
    BY <1>1, <2>1 DEF Logged
<1> QED
  BY <1>2, <1>3

LEMMA AheadAppends ==
  ASSUME TypeInv, AheadInv, AppendSteps
  PROVE  AheadInv'
<1>1. PICK op \in {"save", "update"}, type \in Types, d \in 0 .. MaxDay,
           end \in {"whole", "cut", "open"} : \E rows \in SUBSET Rows(type) :
        /\ Doing(op, type)
        /\ rows \subseteq tx.work[type] \cup {Row}
        /\ Appends(type, d, end, rows)
  BY AppendStep
<1>2. PICK rows \in SUBSET Rows(type) :
        /\ Doing(op, type)
        /\ rows \subseteq tx.work[type] \cup {Row}
        /\ Appends(type, d, end, rows)
  BY <1>1
<1>3. /\ \A t, r : Logged(log, t, r) => Logged(log', t, r)
      /\ Logged(log', type, Row)
  <2>1. Row \in Rows(type) /\ log \in Seq(Records)
    BY <1>2, NextOperation DEF TypeInv
  <2>2. Extended(log, type, d, Row, log')
    BY <1>2, <2>1, Appended DEF Appends
  <2> QED
    BY <2>1, <2>2, LoggedKept
<1>4. index' = index /\ rebuild' = rebuild
  BY <1>2 DEF Appends
<1>5. AllLogged(log', index') /\ SeenLogged'
  BY <1>3, <1>4 DEF AheadInv, AllLogged, SeenLogged
<1>6. AllLogged(log', tx'.work)
  <2>1. CASE tx' = NoTx
    BY <2>1 DEF NoTx, EmptyIndex, AllLogged
  <2>2. CASE tx' = Continue(type, rows)
    <3>1. /\ tx'.work[type] = rows
          /\ \A t \in Types \ {type} : tx'.work[t] = tx.work[t]
      BY <1>2, <2>2, Continued
    <3> QED
      BY <1>2, <1>3, <3>1 DEF AheadInv, AllLogged
  <2> QED
    BY <1>2, <2>1, <2>2 DEF Appends
<1> QED
  BY <1>5, <1>6 DEF AheadInv

(* A row that differs in a flag from one that is logged is logged.         *)
LEMMA FlagsDoNotCount ==
  ASSUME NEW l, NEW type, NEW row, NEW old,
         Flagless(type, row) = Flagless(type, old), Logged(l, type, old)
  PROVE  Logged(l, type, row)
BY DEF Logged

LEMMA AheadStep == TypeInv /\ AheadInv /\ [Next]_vars => AheadInv'
<1> SUFFICES ASSUME TypeInv, AheadInv, [Next]_vars PROVE AheadInv'
  OBVIOUS
<1>1. CASE UNCHANGED <<log, index, tx, rebuild>>
  BY <1>1 DEF AheadInv, SeenLogged
<1>2. CASE Begins
  <2>1. tx'.work = index /\ UNCHANGED <<log, index, rebuild>>
    BY <1>2, BeginsStart DEF Started
  <2> QED
    BY <2>1 DEF AheadInv, SeenLogged
<1>3. CASE AppendSteps
  BY <1>3, AheadAppends
<1>4. CASE SupersedeSteps
  <2>1. PICK type \in {"assignments", "rules"} : \E rows \in SUBSET Rows(type) :
          /\ Doing("supersede", type)
          /\ tx' = Continue(type, rows)
          /\ \A row \in rows : \E old \in tx.work[type] :
               Flagless(type, row) = Flagless(type, old)
    BY <1>4, SupersedeStep
  <2>2. PICK rows \in SUBSET Rows(type) :
          /\ Doing("supersede", type)
          /\ tx' = Continue(type, rows)
          /\ \A row \in rows : \E old \in tx.work[type] :
               Flagless(type, row) = Flagless(type, old)
    BY <2>1
  <2>3. /\ tx'.work[type] = rows
        /\ \A t \in Types \ {type} : tx'.work[t] = tx.work[t]
        /\ type \in Types
    BY <2>2, Continued DEF Types
  <2>4. \A row \in rows : Logged(log, type, row)
    BY <2>2, <2>3, FlagsDoNotCount DEF AheadInv, AllLogged
  <2>5. AllLogged(log, tx'.work)
    BY <2>3, <2>4 DEF AheadInv, AllLogged
  <2> QED
    BY <1>4, <2>5, SupersedeStep DEF AheadInv, SeenLogged
<1>5. CASE Commit
  <2>1. AllLogged(log, NoTx.work)
    BY DEF NoTx, EmptyIndex, AllLogged
  <2> QED
    BY <1>5, <2>1 DEF Commit, AheadInv, SeenLogged
<1>6. CASE Rollback
  <2>1. AllLogged(log, NoTx.work)
    BY DEF NoTx, EmptyIndex, AllLogged
  <2> QED
    BY <1>6, <2>1 DEF Rollback, AheadInv, SeenLogged
<1>7. CASE IndexLost
  <2>1. AllLogged(log, EmptyIndex)
    BY DEF EmptyIndex, AllLogged
  <2> QED
    BY <1>7, <2>1 DEF IndexLost, AheadInv, SeenLogged
<1>8. CASE RebuildScan
  <2>1. rebuild'.seen = log /\ UNCHANGED <<log, index, tx>>
    BY <1>8 DEF RebuildScan
  <2>2. SeenLogged'
    BY <2>1 DEF SeenLogged, Logged
  <2> QED
    BY <2>1, <2>2 DEF AheadInv
<1>9. CASE RebuildCommit
  <2>1. /\ index' = Rebuilt(rebuild.seen, index)
        /\ rebuild'.seen = <<>>
        /\ UNCHANGED <<log, tx>>
    BY <1>9 DEF RebuildCommit, NoRebuild
  <2>2. ASSUME NEW type \in Types, NEW row \in index'[type]
        PROVE  Logged(log, type, row)
    <3>1. PICK old \in index[type] \cup Collected(rebuild.seen, type) :
            Flagless(type, row) = Flagless(type, old)
      BY <2>1, <2>2, RebuiltRows DEF TypeInv
    <3>2. CASE old \in index[type]
      BY <3>1, <3>2, FlagsDoNotCount DEF AheadInv, AllLogged
    <3>3. CASE old \in Collected(rebuild.seen, type)
      <4>1. \E i \in DOMAIN rebuild.seen : /\ rebuild.seen[i].file.type = type
                                           /\ rebuild.seen[i].row = old
        BY <3>3, CollectedRows DEF TypeInv
      <4>2. Logged(log, type, old)
        BY <4>1 DEF AheadInv, SeenLogged
      <4> QED
        BY <3>1, <4>2, FlagsDoNotCount
    <3> QED
      BY <3>2, <3>3
  <2>3. SeenLogged'
    BY <2>1 DEF SeenLogged
  <2> QED
    BY <2>1, <2>2, <2>3 DEF AheadInv, AllLogged
<1>10. CASE RebuildRefused
  <2>1. rebuild'.seen = <<>> /\ UNCHANGED <<log, index, tx>>
    BY <1>10 DEF RebuildRefused
  <2>2. SeenLogged'
    BY <2>1 DEF SeenLogged
  <2> QED
    BY <2>1, <2>2 DEF AheadInv
<1> QED
  BY <1>1, <1>2, <1>3, <1>4, <1>5, <1>6, <1>7, <1>8, <1>9, <1>10
  DEF Next, vars, Begins, AppendSteps, SupersedeSteps, Midnight

(* With any of the faults, in any order: a transaction that is aborted,    *)
(* torn or races, a full file, an index that is lost, a rebuild beside the *)
(* server, none makes the index hold a row no shard line tells of          *)
(* (store.Save*, indexer.Rebuild).                                         *)
THEOREM ShardsWrittenAhead == Spec => []WrittenAhead
<1>1. Init => AheadInv
  BY DEF Init, AheadInv, AllLogged, SeenLogged, EmptyIndex, NoTx, NoRebuild
<1>2. AheadInv => WrittenAhead
  BY DEF AheadInv, WrittenAhead
<1> QED
  BY <1>1, <1>2, TypeInit, TypeStep, AheadStep, PTL DEF Spec

-----------------------------------------------------------------------------
(* The manifest.                                                           *)

(* Files are neither renamed nor removed while a rebuild is under way.     *)
ManifestInv ==
  /\ \A file \in DOMAIN manifest : manifest[file] \in Nat
  /\ ManifestNotAhead
  /\ Files(rebuild.seen) \subseteq Files(log)

(* Files grow by whole appends: no file gets fewer lines.                  *)
LEMMA FilesGrow ==
  ASSUME NEW l \in Seq(Records), NEW type, NEW d, NEW row, NEW new,
         Extended(l, type, d, row, new)
  PROVE  /\ Files(l) \subseteq Files(new)
         /\ \A file : Lines(l, file) <= Lines(new, file)
<1>1. /\ DOMAIN l = 1 .. Len(l) /\ Len(l) \in Nat
      /\ DOMAIN new = 1 .. Len(l) + 1
      /\ \A i \in 1 .. Len(l) : /\ new[i].file = l[i].file
                                /\ l[i].end # "joined" => new[i].end # "joined"
  BY DEF Extended
<1>2. Files(l) \subseteq Files(new)
  BY <1>1 DEF Files
<1>3. ASSUME NEW file
      PROVE  Lines(l, file) <= Lines(new, file)
  <2> DEFINE was == {i \in InFile(l, file) : l[i].end # "joined"}
             is == {i \in InFile(new, file) : new[i].end # "joined"}
  <2>1. IsFiniteSet(is)
    BY LinesFinite DEF Extended
  <2>2. was \in SUBSET is
    BY <1>1 DEF InFile
  <2> HIDE DEF was, is
  <2>3. Cardinality(was) <= Cardinality(is)
    BY <2>1, <2>2, FS_Subset
  <2> QED
    BY <2>3 DEF Lines, was, is
<1> QED
  BY <1>2, <1>3

LEMMA ManifestStep ==
  TypeInv /\ ManifestInv /\ [Next]_vars => ManifestInv'
<1> SUFFICES ASSUME TypeInv, ManifestInv, [Next]_vars PROVE ManifestInv'
  OBVIOUS
<1>1. CASE UNCHANGED <<log, manifest, rebuild>>
  BY <1>1 DEF ManifestInv, ManifestNotAhead
<1>2. CASE AppendSteps
  <2>1. PICK op \in {"save", "update"}, type \in Types, d \in 0 .. MaxDay,
             end \in {"whole", "cut", "open"} :
          /\ Doing(op, type)
          /\ log' = AppendRecord(log, type, d, Row, end)
          /\ UNCHANGED <<manifest, rebuild>>
    BY <1>2, AppendStep DEF Appends
  <2>2. Row \in Rows(type) /\ log \in Seq(Records)
    BY <2>1, NextOperation DEF TypeInv
  <2>3. Extended(log, type, d, Row, log')
    BY <2>1, <2>2, Appended
  <2>4. log' \in Seq(Records)
    BY <2>3 DEF Extended
  <2>5. /\ Files(log) \subseteq Files(log')
        /\ \A file : Lines(log, file) <= Lines(log', file)
    BY <2>2, <2>3, FilesGrow
  <2>6. Files(rebuild'.seen) \subseteq Files(log')
    BY <2>1, <2>5 DEF ManifestInv
  <2>7. ASSUME NEW file \in DOMAIN manifest'
        PROVE  file \in Files(log') /\ manifest'[file] <= Lines(log', file)
    <3>1. Lines(log, file) \in Nat /\ Lines(log', file) \in Nat
      BY <2>2, <2>4, LinesFinite
    <3>2. file \in Files(log) /\ manifest[file] <= Lines(log, file)
      BY <2>1, <2>7 DEF ManifestInv, ManifestNotAhead
    <3>3. manifest[file] \in Nat
      BY <2>1, <2>7 DEF ManifestInv
    <3> QED
      BY <2>1, <2>5, <3>1, <3>2, <3>3
  <2> QED
    BY <2>1, <2>6, <2>7 DEF ManifestInv, ManifestNotAhead
<1>3. CASE IndexLost
  BY <1>3 DEF IndexLost, NoManifest, ManifestInv, ManifestNotAhead
<1>4. CASE RebuildScan
  BY <1>4 DEF RebuildScan, ManifestInv, ManifestNotAhead
<1>5. CASE RebuildCommit
  <2>1. /\ manifest' = RebuildManifests(rebuild.seen, log)
        /\ rebuild'.seen = <<>>
        /\ log' = log
    BY <1>5 DEF RebuildCommit, NoRebuild
  <2>2. /\ DOMAIN manifest' \subseteq Files(rebuild.seen)
        /\ \A file \in DOMAIN manifest' : manifest'[file] = Lines(log, file)
    BY <2>1 DEF RebuildManifests
  <2>3. \A file : Lines(log, file) \in Nat
    BY LinesFinite DEF TypeInv
  <2>4. Files(<<>>) = {}
    BY DEF Files
  <2>5. ManifestNotAhead'
    BY <2>1, <2>2, <2>3 DEF ManifestInv, ManifestNotAhead
  <2> QED
    BY <2>1, <2>2, <2>3, <2>4, <2>5 DEF ManifestInv
<1>6. CASE RebuildRefused
  <2>1. rebuild'.seen = <<>> /\ UNCHANGED <<log, manifest>>
    BY <1>6 DEF RebuildRefused
  <2>2. Files(<<>>) = {}
    BY DEF Files
  <2> QED
    BY <2>1, <2>2 DEF ManifestInv, ManifestNotAhead
<1> QED
  BY <1>1, <1>2, <1>3, <1>4, <1>5, <1>6, BeginsStart, SupersedeStep
  DEF Next, vars, Begins, AppendSteps, SupersedeSteps, Started, Commit,
      Rollback, Midnight

(* Reconcile never finds a shard with fewer records than the manifest      *)
(* says, whatever is appended between a rebuild's reading and its commit,  *)
(* and whatever is torn, full or lost (indexer.Reconcile).                 *)
THEOREM ManifestTrails == Spec => []ManifestNotAhead
<1>1. Init => ManifestInv
  BY DEF Init, ManifestInv, ManifestNotAhead, NoManifest, NoRebuild, Files
<1>2. ManifestInv => ManifestNotAhead
  BY DEF ManifestInv
<1> QED
  BY <1>1, <1>2, TypeInit, TypeStep, ManifestStep, PTL DEF Spec

-----------------------------------------------------------------------------
(* Replay.                                                                 *)

(* The types whose rows carry a revision.                                  *)
Revised == {"items", "failures"}

(* Of two records of one id the later is of no earlier day and revision.   *)
InOrder(l) ==
  \A i, j \in DOMAIN l :
    (/\ i < j
     /\ l[i].file.type \in Revised
     /\ l[i].file.type = l[j].file.type
     /\ l[i].row.id = l[j].row.id)
      => /\ l[i].file.day <= l[j].file.day
         /\ l[i].row.rev <= l[j].row.rev

(* A record is of a day that has come and a transaction that has begun.    *)
Past(e) ==
  e.file.type \in Revised =>
    /\ e.file.day <= day
    /\ e.row.rev < stamp
    /\ e.file.type = "failures" => e.row.id < stamp

(* An operation not done yet is of the transaction begun last.             *)
Due(o) ==
  o.type \in Revised =>
    /\ o.day <= day
    /\ o.row.rev + 1 = stamp
    /\ o.type = "failures" => o.row.id < stamp

Fresh(o) ==
  \A i \in DOMAIN log : log[i].file.type = o.type => log[i].row.id # o.row.id

(* What is to be saved under an id of its own comes first: nothing has     *)
(* been appended since the id was seen to be new.                          *)
FirstOfItsId(i) ==
  (tx.todo[i].op = "save" /\ tx.todo[i].type \in Revised)
    => i = 1 /\ Fresh(tx.todo[i])

ReplayInv ==
  /\ \A i \in DOMAIN log : Past(log[i])
  /\ InOrder(log)
  /\ \A i \in DOMAIN tx.todo : Due(tx.todo[i]) /\ FirstOfItsId(i)

LEMMA GreatestNatural ==
  ASSUME NEW N \in Nat, NEW T \in SUBSET (0 .. N), T # {}
  PROVE  \E n \in T : \A m \in T : m <= n
<1> DEFINE U == {N - n : n \in T}
<1>1. U \in SUBSET Nat /\ U # {}
  <2>1. \A n \in T : n \in 0 .. N
    OBVIOUS
  <2>2. \A n \in 0 .. N : N - n \in Nat
    OBVIOUS
  <2>3. \A n \in T : N - n \in Nat
    BY <2>1, <2>2
  <2> QED
    BY <2>3
<1>2. PICK u \in U : \A v \in U : u <= v
  BY <1>1, LeastNatural
<1>3. PICK n \in T : u = N - n
  BY <1>2
<1>4. ASSUME NEW m \in T
      PROVE  m <= n
  <2>1. N - n <= N - m
    BY <1>2, <1>3
  <2>2. n \in 0 .. N /\ m \in 0 .. N
    OBVIOUS
  <2> QED
    BY <2>1, <2>2
<1> QED
  BY <1>4

LEMMA RevisedRows ==
  ASSUME NEW type \in Revised, NEW row \in Rows(type)
  PROVE  /\ row.rev \in Nat
         /\ type = "failures" => row.id \in Nat
BY DEF Revised, Rows

(* Days and revisions of the records of such a type are numbers.           *)
LEMMA RevisedRecords ==
  ASSUME NEW l \in Seq(Records), NEW i \in DOMAIN l,
         l[i].file.type \in Revised
  PROVE  /\ l[i].file.day \in Int
         /\ l[i].row.rev \in Nat
         /\ l[i].file.type = "failures" => l[i].row.id \in Nat
<1>1. l[i] \in Records
  OBVIOUS
<1>2. l[i].file \in FileNames /\ l[i].row \in Rows(l[i].file.type)
  BY <1>1 DEF Records, IsRecord
<1>3. l[i].file.day \in Int
  BY <1>2, ConstantsOK DEF FileNames
<1> QED
  BY <1>2, <1>3, RevisedRows

(* Records in order are replayed in order: the one read last is the one    *)
(* written last.                                                           *)
LEMMA OrderReplays ==
  ASSUME TypeInv, InOrder(log)
  PROVE  ReplayNotOlder
<1>1. SUFFICES ASSUME NEW type \in Revised, NEW row \in index[type],
                      NEW j \in DOMAIN log,
                      log[j].row = row, log[j].file.type = type,
                      Readable(log[j])
               PROVE  \E i \in LastRead(log, type, row.id) :
                        log[i].row.rev >= row.rev
  BY DEF ReplayNotOlder, Revised
<1> DEFINE R == RecordsOf(log, type, row.id)
<1>2. log \in Seq(Records)
  BY DEF TypeInv
<1>3. j \in R
  BY <1>1 DEF RecordsOf
<1>4. /\ Len(log) \in Nat
      /\ R \in SUBSET (0 .. Len(log))
      /\ R \subseteq DOMAIN log
  <2>1. DOMAIN log = 1 .. Len(log) /\ Len(log) \in Nat
    BY <1>2
  <2> QED
    BY <2>1 DEF RecordsOf
<1>5. \A k \in R : log[k].file.type = type /\ log[k].row.id = row.id
  BY DEF RecordsOf
<1> HIDE DEF R
<1>6. PICK i \in R : \A k \in R : k <= i
  BY <1>3, <1>4, GreatestNatural
<1>7. ASSUME NEW k \in R, k # i
      PROVE  /\ log[k].file.day <= log[i].file.day
             /\ log[k].row.rev <= log[i].row.rev
             /\ k < i
  <2>1. k < i
    <3>1. k \in 0 .. Len(log) /\ i \in 0 .. Len(log) /\ k <= i
      BY <1>4, <1>6
    <3> QED
      BY <1>4, <1>7, <3>1
  <2> QED
    BY <1>4, <1>5, <2>1 DEF InOrder
<1>8. /\ log[i].row.rev \in Nat
      /\ \A k \in R : log[k].file.day \in Int
  BY <1>2, <1>4, <1>5, RevisedRecords
<1>9. i \in LastRead(log, type, row.id)
  <2>1. \A k \in R \ {i} : ReadBefore(log, k, i)
    BY <1>7, <1>8 DEF ReadBefore
  <2> QED
    BY <2>1 DEF LastRead, R
<1>10. log[i].row.rev >= row.rev
  <2>1. CASE j = i
    BY <1>1, <1>8, <2>1
  <2>2. CASE j # i
    BY <1>1, <1>2, <1>3, <1>7, <1>8, <2>2, RevisedRecords
  <2> QED
    BY <2>1, <2>2
<1> QED
  BY <1>9, <1>10

(* An operation a transaction begins with, in its place.                   *)
Orderly(o, i) ==
  o.type \in Revised =>
    /\ o.day = day
    /\ o.row.rev = stamp
    /\ o.type = "failures" => o.row.id \in 0 .. stamp
    /\ o.op = "save" => i = 1 /\ Fresh(o)

LEMMA BegunInOrder ==
  ASSUME TypeInv, ReplayInv, NEW program, NEW todo, Begin(program, todo),
         \A i \in DOMAIN todo : Orderly(todo[i], i)
  PROVE  ReplayInv'
<1>1. /\ stamp \in Nat /\ day \in Int
      /\ stamp' = stamp + 1
      /\ tx'.todo = todo
      /\ UNCHANGED <<day, log>>
  BY ConstantsOK DEF TypeInv, Begin
<1>2. ASSUME NEW i \in DOMAIN log
      PROVE  Past(log[i])'
  <2>1. Past(log[i]) /\ log \in Seq(Records)
    BY DEF ReplayInv, TypeInv
  <2>2. log[i].file.type \in Revised =>
          /\ log[i].row.rev \in Nat
          /\ log[i].file.type = "failures" => log[i].row.id \in Nat
    BY <2>1, RevisedRecords
  <2> QED
    BY <1>1, <2>1, <2>2 DEF Past
<1>3. ASSUME NEW i \in DOMAIN todo
      PROVE  Due(todo[i])' /\ FirstOfItsId(i)'
  <2>1. todo[i].type \in Revised =>
          /\ todo[i].day = day
          /\ todo[i].row.rev = stamp
          /\ todo[i].type = "failures" => todo[i].row.id < stamp + 1
          /\ todo[i].op = "save" => i = 1 /\ Fresh(todo[i])
    BY <1>1 DEF Orderly, Begin
  <2> QED
    BY <1>1, <2>1 DEF Due, FirstOfItsId, Fresh
<1>4. InOrder(log')
  BY <1>1 DEF ReplayInv
<1> QED
  BY <1>1, <1>2, <1>3, <1>4 DEF ReplayInv

LEMMA BeginsInOrder ==
  ASSUME TypeInv, AheadInv, ReplayInv, Begins
  PROVE  ReplayInv'
<1>1. stamp \in Nat
  BY ConstantsOK DEF TypeInv
<1>2. /\ \A type \in Types \ Revised : \A row, i : Orderly(Save(type, row), i)
      /\ \A type, row, i : type \notin Revised => Orderly(Supersede(type, row), i)
      /\ \A row, i : row.rev = stamp => Orderly(Change("items", row), i)
  BY DEF Orderly, Save, Change, Supersede, Operation
<1>3. /\ "assignments" \in Types \ Revised
      /\ "escalations" \in Types \ Revised
      /\ "audit" \in Types \ Revised
      /\ "rules" \in Types \ Revised
  BY DEF Types, Revised
<1>4. ASSUME NEW id \in ItemIds, NEW ref \in Refs, Register(id, ref)
      PROVE  ReplayInv'
  <2> DEFINE save == Save("items", [id |-> id, ref |-> ref, rev |-> stamp])
             refer == Save("assignments", Referral(id))
  <2>1. Orderly(save, 1)
    BY <1>4 DEF Register, Orderly, Save, Operation, Fresh
  <2>2. Orderly(refer, 2)
    BY <1>2, <1>3
  <2>3. Begin("register", <<save, refer>>)
    BY <1>4 DEF Register
  <2> HIDE DEF save, refer
  <2>4. \A i \in DOMAIN <<save, refer>> : Orderly(<<save, refer>>[i], i)
    BY <2>1, <2>2
  <2> QED
    BY <2>3, <2>4, BegunInOrder
<1>5. ASSUME NEW item \in index["items"],
             Update(item) \/ Escalate(item) \/ Reevaluate(item)
      PROVE  ReplayInv'
  <2> DEFINE row == [item EXCEPT !.rev = stamp]
             change == Change("items", row)
             save == Save("escalations", [id |-> stamp, item |-> item.id])
             end == Supersede("assignments", item)
             refer == Save("assignments", Referral(item.id))
  <2>1. item \in Rows("items")
    BY DEF TypeInv, Tables, IsIndex, Types
  <2>2. row.rev = stamp
    BY <2>1 DEF Rows
  <2>3. \A i : /\ Orderly(change, i)
               /\ Orderly(save, i)
               /\ Orderly(end, i)
               /\ Orderly(refer, i)
    BY <1>2, <1>3, <2>2
  <2>4. \/ Begin("update", <<change>>)
        \/ Begin("escalate", <<save, end, refer, change>>)
        \/ Begin("reevaluate", <<end, refer, change>>)
    BY <1>5 DEF Update, Escalate, Reevaluate
  <2> HIDE DEF change, save, end, refer
  <2>5. /\ \A i \in DOMAIN <<change>> : Orderly(<<change>>[i], i)
        /\ \A i \in DOMAIN <<save, end, refer, change>> :
             Orderly(<<save, end, refer, change>>[i], i)
        /\ \A i \in DOMAIN <<end, refer, change>> :
             Orderly(<<end, refer, change>>[i], i)
    BY <2>3
  <2> QED
    BY <2>4, <2>5, BegunInOrder
<1>6. ASSUME NEW seen \in 0 .. MaxVersion, NEW s \in 0 .. MaxVersion,
             CreateRule(seen, s)
      PROVE  ReplayInv'
  <2> DEFINE save == Save("rules", [id |-> seen + 1, status |-> "active"])
             end == Supersede("rules", [id |-> s, status |-> "superseded"])
             audit == Save("audit", [id |-> stamp, rule |-> s])
  <2>1. \A i : Orderly(save, i) /\ Orderly(end, i) /\ Orderly(audit, i)
    BY <1>2, <1>3
  <2>2. Begin("rule", <<save>>) \/ Begin("rule", <<end, audit, save>>)
    BY <1>6 DEF CreateRule
  <2> HIDE DEF save, end, audit
  <2>3. /\ \A i \in DOMAIN <<save>> : Orderly(<<save>>[i], i)
        /\ \A i \in DOMAIN <<end, audit, save>> :
             Orderly(<<end, audit, save>>[i], i)
    BY <2>1
  <2> QED
    BY <2>2, <2>3, BegunInOrder
<1>7. ASSUME RecordTaskFailure
      PROVE  ReplayInv'
  <2> DEFINE row == [id |-> stamp, rev |-> stamp]
             save == Save("failures", row)
  <2>1. ASSUME NEW i \in DOMAIN log, log[i].file.type = "failures"
        PROVE  log[i].row.id # stamp
    <3>1. Past(log[i]) /\ log \in Seq(Records)
      BY DEF ReplayInv, TypeInv
    <3>2. log[i].row.id < stamp /\ log[i].row.id \in Nat
      BY <2>1, <3>1, RevisedRecords DEF Past, Revised
    <3> QED
      BY <1>1, <3>2
  <2>2. Orderly(save, 1)
    BY <1>1, <2>1 DEF Orderly, Save, Operation, Fresh
  <2>3. Begin("fail", <<save>>)
    BY <1>7 DEF RecordTaskFailure
  <2> HIDE DEF save
  <2>4. \A i \in DOMAIN <<save>> : Orderly(<<save>>[i], i)
    BY <2>2
  <2> QED
    BY <2>3, <2>4, BegunInOrder
<1>8. ASSUME NEW failure \in index["failures"], RetryFailure(failure)
      PROVE  ReplayInv'
  <2> DEFINE row == [failure EXCEPT !.rev = stamp]
             change == Change("failures", row)
  <2>1. failure \in Rows("failures")
    BY DEF TypeInv, Tables, IsIndex, Types
  <2>2. row.rev = stamp /\ row.id = failure.id /\ failure.id \in Nat
    BY <2>1 DEF Rows
  <2>3. Logged(log, "failures", failure)
    BY DEF AheadInv, AllLogged, Types
  <2>4. PICK k \in DOMAIN log :
          log[k].file.type = "failures" /\ log[k].row = failure
    BY <2>3 DEF Logged, Flagless
  <2>5. failure.id < stamp
    BY <2>4 DEF ReplayInv, Past, Revised
  <2> HIDE DEF row
  <2>6. Orderly(change, 1)
    BY <1>1, <2>2, <2>5 DEF Orderly, Change, Operation
  <2>7. Begin("retry", <<change>>)
    BY <1>8 DEF RetryFailure, row
  <2> HIDE DEF change
  <2>8. \A i \in DOMAIN <<change>> : Orderly(<<change>>[i], i)
    BY <2>6
  <2> QED
    BY <2>7, <2>8, BegunInOrder
<1> QED
  BY <1>4, <1>5, <1>6, <1>7, <1>8 DEF Begins

(* Doing the first operation of a transaction leaves others that are due.  *)
LEMMA RestIsDue ==
  ASSUME TypeInv, ReplayInv, NEW op, NEW type, Doing(op, type),
         NEW i \in DOMAIN Tail(tx.todo)
  PROVE  /\ Due(Tail(tx.todo)[i])
         /\ Tail(tx.todo)[i].op = "save" => Tail(tx.todo)[i].type \notin Revised
<1>1. tx.todo \in Seq(Operations) /\ tx.todo # <<>>
  BY DEF TypeInv, Doing
<1>2. /\ Tail(tx.todo)[i] = tx.todo[i + 1]
      /\ i + 1 \in DOMAIN tx.todo
      /\ i + 1 # 1
  <2>1. /\ Len(Tail(tx.todo)) = Len(tx.todo) - 1
        /\ Tail(tx.todo) \in Seq(Operations)
        /\ Len(tx.todo) \in Nat
    BY <1>1
  <2>2. i \in 1 .. Len(tx.todo) - 1
    BY <2>1
  <2> QED
    BY <1>1, <2>2
<1> QED
  BY <1>2 DEF ReplayInv, FirstOfItsId

(* The next operation of a transaction, and the day its record is filed    *)
(* under.                                                                  *)
LEMMA NextIsDue ==
  ASSUME TypeInv, ReplayInv, NEW op \in {"save", "update"}, NEW type \in Revised,
         Doing(op, type)
  PROVE  /\ Row.rev + 1 = stamp
         /\ type = "failures" => Row.id < stamp
         /\ (IF op = "save" THEN Head(tx.todo).day ELSE day) <= day
         /\ op = "save" =>
              \A i \in DOMAIN log : log[i].file.type = type => log[i].row.id # Row.id
<1>1. tx.todo \in Seq(Operations) /\ tx.todo # <<>>
  BY DEF TypeInv, Doing
<1>2. 1 \in DOMAIN tx.todo /\ Head(tx.todo) = tx.todo[1]
  BY <1>1
<1>3. Due(Head(tx.todo)) /\ FirstOfItsId(1)
  BY <1>2 DEF ReplayInv
<1>4. Head(tx.todo).op = op /\ Head(tx.todo).type = type
  BY DEF Doing
<1>5. op = "save" => Fresh(Head(tx.todo))
  BY <1>2, <1>3, <1>4 DEF FirstOfItsId
<1>6. day \in Int
  BY ConstantsOK DEF TypeInv
<1> QED
  BY <1>3, <1>4, <1>5, <1>6 DEF Due, Fresh, Row

(* A record of today, or of an id of its own, goes behind all that are to  *)
(* be replayed before it.                                                  *)
LEMMA AppendsInOrder ==
  ASSUME TypeInv, ReplayInv, NEW op \in {"save", "update"}, NEW type \in Types,
         NEW d \in 0 .. MaxDay, NEW new,
         Doing(op, type), d = IF op = "save" THEN Head(tx.todo).day ELSE day,
         Extended(log, type, d, Row, new)
  PROVE  (\A i \in DOMAIN new : Past(new[i])) /\ InOrder(new)
<1>1. /\ DOMAIN log = 1 .. Len(log) /\ Len(log) \in Nat
      /\ log \in Seq(Records) /\ new \in Seq(Records)
      /\ DOMAIN new = 1 .. Len(log) + 1
      /\ \A i \in 1 .. Len(log) :
           new[i].file = log[i].file /\ new[i].row = log[i].row
      /\ new[Len(log) + 1].file.type = type
      /\ new[Len(log) + 1].file.day = d
      /\ new[Len(log) + 1].row = Row
  BY DEF Extended, TypeInv
<1> DEFINE last == Len(log) + 1
<1>2. type \in Revised =>
        /\ Row.rev + 1 = stamp
        /\ type = "failures" => Row.id < stamp
        /\ d <= day
        /\ op = "save" =>
             \A i \in DOMAIN log : log[i].file.type = type => log[i].row.id # Row.id
        /\ op = "update" => d = day
  BY NextIsDue
<1>3. stamp \in Nat /\ day \in Int
  BY ConstantsOK DEF TypeInv
<1>4. type \in Revised => Row.rev \in Nat
  BY NextOperation, RevisedRows
<1>5. ASSUME NEW i \in DOMAIN new
      PROVE  Past(new[i])
  <2>1. CASE i \in DOMAIN log
    BY <1>1, <2>1 DEF ReplayInv, Past
  <2>2. CASE i = last
    BY <1>1, <1>2, <1>3, <1>4, <2>2 DEF Past
  <2> QED
    BY <1>1, <2>1, <2>2
<1>6. ASSUME NEW i \in DOMAIN new, NEW j \in DOMAIN new,
             i < j,
             new[i].file.type \in Revised,
             new[i].file.type = new[j].file.type,
             new[i].row.id = new[j].row.id
      PROVE  /\ new[i].file.day <= new[j].file.day
             /\ new[i].row.rev <= new[j].row.rev
  <2>1. i \in DOMAIN log
    BY <1>1, <1>6
  <2>2. CASE j \in DOMAIN log
    BY <1>1, <1>6, <2>1, <2>2 DEF ReplayInv, InOrder
  <2>3. CASE j = last
    <3>1. type \in Revised /\ log[i].file.type = type /\ log[i].row.id = Row.id
      BY <1>1, <1>6, <2>1, <2>3
    <3>2. d = day
      BY <1>2, <2>1, <3>1
    <3>3. log[i].file.day <= day /\ log[i].row.rev < stamp
      BY <2>1, <3>1 DEF ReplayInv, Past
    <3>4. log[i].row.rev \in Nat
      BY <1>1, <2>1, <3>1, RevisedRecords
    <3>5. log[i].row.rev <= Row.rev
      BY <1>2, <1>3, <1>4, <3>1, <3>3, <3>4
    <3> QED
      BY <1>1, <2>1, <2>3, <3>2, <3>3, <3>5
  <2> QED
    BY <1>1, <2>2, <2>3
<1> QED
  BY <1>5, <1>6 DEF InOrder

(* Every step keeps the records in order.                                  *)
LEMMA ReplayStep ==
  TypeInv /\ AheadInv /\ ReplayInv /\ [Next]_vars => ReplayInv'
<1> SUFFICES ASSUME TypeInv, AheadInv, ReplayInv, [Next]_vars PROVE ReplayInv'
  OBVIOUS
<1>1. CASE UNCHANGED <<day, stamp, log, tx>>
  BY <1>1 DEF ReplayInv, Past, Due, FirstOfItsId, Fresh
<1>2. CASE Begins
  BY <1>2, BeginsInOrder
<1>3. CASE AppendSteps
  <2>1. PICK op \in {"save", "update"}, type \in Types, d \in 0 .. MaxDay,
             end \in {"whole", "cut", "open"} : \E rows \in SUBSET Rows(type) :
          /\ Doing(op, type)
          /\ d = IF op = "save" THEN Head(tx.todo).day ELSE day
          /\ Appends(type, d, end, rows)
    BY <1>3, AppendStep
  <2>2. PICK rows \in SUBSET Rows(type) :
          /\ Doing(op, type)
          /\ d = IF op = "save" THEN Head(tx.todo).day ELSE day
          /\ Appends(type, d, end, rows)
    BY <2>1
  <2>3. Extended(log, type, d, Row, log')
    <3>1. Row \in Rows(type) /\ log \in Seq(Records)
      BY <2>2, NextOperation DEF TypeInv
    <3> QED
      BY <2>2, <3>1, Appended DEF Appends
  <2>4. (\A i \in DOMAIN log' : Past(log'[i])) /\ InOrder(log')
    BY <2>2, <2>3, AppendsInOrder
  <2>5. UNCHANGED <<day, stamp>> /\ (tx' = NoTx \/ tx' = Continue(type, rows))
    BY <2>2 DEF Appends
  <2>6. ASSUME NEW i \in DOMAIN tx'.todo
        PROVE  Due(tx.todo[i])' /\ FirstOfItsId(i)'
    <3>1. CASE tx' = NoTx
      BY <2>6, <3>1 DEF NoTx
    <3>2. CASE tx' = Continue(type, rows)
      <4>1. tx'.todo = Tail(tx.todo)
        BY <2>2, <3>2, Continued
      <4>2. /\ Due(tx'.todo[i])
            /\ tx'.todo[i].op = "save" => tx'.todo[i].type \notin Revised
        BY <2>2, <2>6, <4>1, RestIsDue
      <4> QED
        BY <2>5, <4>2 DEF Due, FirstOfItsId
    <3> QED
      BY <2>5, <3>1, <3>2
  <2>7. \A i \in DOMAIN log' : Past(log[i])'
    BY <2>4, <2>5 DEF Past
  <2> QED
    BY <2>4, <2>6, <2>7 DEF ReplayInv
<1>4. CASE SupersedeSteps
  <2>1. PICK type \in {"assignments", "rules"} : \E rows \in SUBSET Rows(type) :
          Doing("supersede", type) /\ tx' = Continue(type, rows)
    BY <1>4, SupersedeStep
  <2>2. tx'.todo = Tail(tx.todo) /\ UNCHANGED <<day, stamp, log>>
    BY <1>4, <2>1, SupersedeStep, Continued
  <2>3. ASSUME NEW i \in DOMAIN tx'.todo
        PROVE  Due(tx.todo[i])' /\ FirstOfItsId(i)'
    <3>1. /\ Due(tx'.todo[i])
          /\ tx'.todo[i].op = "save" => tx'.todo[i].type \notin Revised
      BY <2>1, <2>2, <2>3, RestIsDue
    <3> QED
      BY <2>2, <3>1 DEF Due, FirstOfItsId
  <2> QED
    BY <2>2, <2>3 DEF ReplayInv, Past
<1>5. CASE Commit \/ Rollback
  <2>1. tx'.todo = <<>> /\ UNCHANGED <<day, stamp, log>>
    BY <1>5 DEF Commit, Rollback, NoTx
  <2> QED
    BY <2>1 DEF ReplayInv, Past
<1>6. CASE Midnight
  <2>1. day' = day + 1 /\ day \in Int /\ UNCHANGED <<stamp, log, tx>>
    BY <1>6, ConstantsOK DEF Midnight, TypeInv
  <2>2. ASSUME NEW i \in DOMAIN log
        PROVE  Past(log[i])'
    <3>1. log[i].file.type \in Revised => log[i].file.day \in Int
      BY RevisedRecords DEF TypeInv
    <3> QED
      BY <2>1, <3>1 DEF ReplayInv, Past
  <2>3. ASSUME NEW i \in DOMAIN tx.todo
        PROVE  Due(tx.todo[i])' /\ FirstOfItsId(i)'
    <3>1. tx.todo[i] \in Operations
      BY DEF TypeInv
    <3>2. tx.todo[i].day \in Int
      BY <3>1, ConstantsOK DEF Operations
    <3>3. Due(tx.todo[i]) /\ FirstOfItsId(i)
      BY DEF ReplayInv
    <3> QED
      BY <2>1, <3>2, <3>3 DEF Due, FirstOfItsId, Fresh
  <2> QED
    BY <2>1, <2>2, <2>3 DEF ReplayInv
<1> QED
  BY <1>1, <1>2, <1>3, <1>4, <1>5, <1>6
  DEF Next, vars, Begins, AppendSteps, SupersedeSteps, IndexLost, RebuildScan,
      RebuildCommit, RebuildRefused

(* Replay takes, of the records of an item or a dead letter that can be    *)
(* read, none older than the one the index holds: an update is filed under *)
(* the day it is made, and a record that is filed under the day its        *)
(* transaction began has an id nobody wrote before (shard.Append,          *)
(* indexer.Rebuild).                                                       *)
THEOREM ReplayGoesForward == Spec => []ReplayNotOlder
<1>1. Init => AheadInv
  BY DEF Init, AheadInv, AllLogged, SeenLogged, EmptyIndex, NoTx, NoRebuild
<1>2. Init => ReplayInv
  BY DEF Init, ReplayInv, InOrder, NoTx
<1>3. TypeInv /\ ReplayInv => ReplayNotOlder
  BY OrderReplays DEF ReplayInv
<1> QED
  BY <1>1, <1>2, <1>3, TypeInit, TypeStep, AheadStep, ReplayStep, PTL DEF Spec
=============================================================================
