---------------------------- MODULE CaseClients -----------------------------
(***************************************************************************)
(* Clients of CaseService that need many of its steps: a client that reads *)
(* an item with its history (GetItemDetail), one that walks through a list *)
(* page by page (ListItems, as the worker, the export and every caller of  *)
(* the list do), and an import of a batch, row by row (Import).  Each      *)
(* query is a step; requests, the sweep and the worker run in between.     *)
(***************************************************************************)
EXTENDS CaseService, SequencesExt

CONSTANTS
  Importer,      (* the request that imports                               *)
  Batches,       (* the lists of rows [ref, subject] it may import         *)
  Filters,       (* the statuses lists are asked for, Anything for all     *)
  Anything,
  NewestFirst,   (* the lists read backwards over idx_items_registered     *)
  PageMax        (* the rows of a page: what was asked for, 200 at most    *)

ASSUME ClientsAssumption ==
  /\ Importer \notin Clients
  /\ \A b \in Batches : b \in Seq([ref : Refs, subject : Subjects])
  /\ Filters \subseteq Statuses \cup {Anything}
  /\ Anything \notin Statuses
  /\ NewestFirst \subseteq Filters
  /\ PageMax \in Nat \ {0}

VARIABLES
  order,     (* the ids of the items, as their rows were inserted          *)
  detail,    (* a reader of one item: what its queries have returned       *)
  walk,      (* a reader of a list: its position, and what it has seen     *)
  import     (* an import: the rows left, the results so far               *)

clients == <<order, detail, walk, import>>
allVars == <<vars, clients>>

None == [phase |-> "none"]
Failed == "failed"

AllInit ==
  /\ Init
  /\ order = <<>>
  /\ detail = None
  /\ walk = None
  /\ import = None

-----------------------------------------------------------------------------
(* Reading one item.                                                       *)

DetailItem(id) ==
  /\ detail = None
  /\ detail' = [phase |-> "item", id |-> id, row |-> items[id]]
  /\ UNCHANGED <<vars, order, walk, import>>

DetailReferrals ==
  /\ detail.phase = "item"
  /\ detail' = [phase |-> "referrals", id |-> detail.id, row |-> detail.row,
                referrals |-> referrals[detail.id]]
  /\ UNCHANGED <<vars, order, walk, import>>

(* Seeded fault: the item is read last.                                    *)
DetailItemLast ==
  /\ detail.phase = "referrals"
  /\ detail' = [phase |-> "told", id |-> detail.id, row |-> items[detail.id],
                referrals |-> detail.referrals,
                escalations |-> escalations[detail.id]]
  /\ UNCHANGED <<vars, order, walk, import>>

DetailEscalations ==
  /\ detail.phase = "referrals"
  /\ detail' = [phase |-> "told", id |-> detail.id, row |-> detail.row,
                referrals |-> detail.referrals,
                escalations |-> escalations[detail.id]]
  /\ UNCHANGED <<vars, order, walk, import>>

(* The answer is out, or a query failed.                                   *)
DetailEnds ==
  /\ detail # None
  /\ detail' = None
  /\ UNCHANGED <<vars, order, walk, import>>

-----------------------------------------------------------------------------
(* Walking through a list.                                                 *)

ListedIn(table, filter) ==
  {id \in DOMAIN table : filter = Anything \/ table[id].status = filter}

Listed(filter) == ListedIn(items, filter)

Inserted(id) == CHOOSE i \in DOMAIN order : order[i] = id

(* ORDER BY registered_at DESC.  Among equal instants the plan decides: a  *)
(* list read backwards over the index of registered_at has the row         *)
(* inserted last first, one found by its status and then sorted the row    *)
(* inserted first.                                                         *)
Before(filter, a, b) ==
  \/ items[a].registeredAt > items[b].registeredAt
  \/ /\ items[a].registeredAt = items[b].registeredAt
     /\ \/ filter \in NewestFirst /\ Inserted(a) > Inserted(b)
        \/ filter \notin NewestFirst /\ Inserted(a) < Inserted(b)

(* The rows the list shows before that of an item.                         *)
Ahead(filter, id) == {other \in Listed(filter) : Before(filter, other, id)}

(* OFFSET and LIMIT: the rows with offset rows before them, or more, and   *)
(* PageMax of them.                                                        *)
Page(filter, offset) ==
  {id \in Listed(filter) :
     Cardinality(Ahead(filter, id)) \in offset .. offset + PageMax - 1}

WalkBegin(filter) ==
  /\ walk = None
  /\ walk' = [phase |-> "count", filter |-> filter, offset |-> 0, total |-> 0,
              page |-> {}, seen |-> {}, steady |-> Listed(filter),
              left |-> FALSE]
  /\ UNCHANGED <<vars, order, detail, import>>

(* Every call counts first and then reads its page.                        *)
WalkCount ==
  /\ walk.phase = "count"
  /\ walk' = [walk EXCEPT !.phase = "page",
                          !.total = Cardinality(Listed(walk.filter))]
  /\ UNCHANGED <<vars, order, detail, import>>

WalkPage ==
  /\ walk.phase = "page"
  /\ LET page == Page(walk.filter, walk.offset) IN
       walk' = [walk EXCEPT !.phase = "read", !.page = page,
                            !.seen = @ \cup page]
  /\ UNCHANGED <<vars, order, detail, import>>

(* Seeded fault: the next offset is one past the page.                     *)
NextOffsetPast(offset) == offset + PageMax + 1

NextOffset(offset) == offset + PageMax

(* A page that is not full is the last one.                                *)
WalkOn ==
  /\ walk.phase = "read"
  /\ Cardinality(walk.page) = PageMax
  /\ walk' = [walk EXCEPT !.phase = "count", !.page = {},
                          !.offset = NextOffset(@)]
  /\ UNCHANGED <<vars, order, detail, import>>

(* A reader may stop at any page (an export reads one) or fail.            *)
WalkEnds ==
  /\ walk # None
  /\ walk' = None
  /\ UNCHANGED <<vars, order, detail, import>>

(* What the walk must show is what stays in the list; whether anything     *)
(* has left it.                                                            *)
Watch ==
  IF walk = None THEN UNCHANGED walk
  ELSE LET before == Listed(walk.filter)
           after == ListedIn(items', walk.filter)
       IN  walk' = [walk EXCEPT !.steady = @ \cap after,
                                !.left = @ \/ ~ before \subseteq after]

Arrive == order' = order \o SetToSeq(DOMAIN items' \ DOMAIN items)

-----------------------------------------------------------------------------
(* Importing a batch.                                                      *)

ImportBegin(batch) ==
  /\ import = None
  /\ import' = [phase |-> "rows", rows |-> batch, results |-> <<>>,
                made |-> {}]
  /\ UNCHANGED <<vars, order, detail, walk>>

ImportGoesOn == import.phase = "rows" /\ import.rows # <<>>

Reported(id) ==
  [import EXCEPT !.rows = Tail(@),
                 !.results = Append(@, [ref |-> Head(import.rows).ref,
                                        id |-> id])]

(* Registered before: the row succeeds with the item there is.             *)
ImportKnown ==
  /\ ImportGoesOn
  /\ Importer \notin DOMAIN request
  /\ \E id \in DOMAIN items :
       /\ items[id].ref = Head(import.rows).ref
       /\ import' = Reported(id)
  /\ UNCHANGED <<vars, order, detail, walk>>

ImportRegister ==
  /\ ImportGoesOn
  /\ Register(Importer, Head(import.rows).ref, Head(import.rows).subject)
  /\ UNCHANGED clients

ImportCommit ==
  /\ ImportGoesOn
  /\ CommitRegister(Importer)
  /\ \E id \in DOMAIN items' \ DOMAIN items :
       import' = [Reported(id) EXCEPT !.made = @ \cup {id}]
  /\ Arrive
  /\ Watch
  /\ UNCHANGED detail

(* Seeded fault: a row another request registered meanwhile succeeds with  *)
(* the id that was drawn for it.                                           *)
ImportRowFailsUnnoticed ==
  /\ ImportGoesOn
  /\ Importer \in DOMAIN request
  /\ \E id \in ItemIds \ DOMAIN items : import' = Reported(id)
  /\ request' = Without(request, Importer)
  /\ UNCHANGED <<now, rules, items, referrals, escalations, sweep, reeval,
                 order, detail, walk>>

(* Not valid, routed by no rule, or a query or the transaction failed: the *)
(* import goes on with the next row.                                       *)
ImportRowFails ==
  /\ ImportGoesOn
  /\ import' = Reported(Failed)
  /\ request' = Without(request, Importer)
  /\ UNCHANGED <<now, rules, items, referrals, escalations, sweep, reeval,
                 order, detail, walk>>

(* The batch is written last: the client is answered with the results, or, *)
(* when that fails, with an error, and the items stay.                     *)
ImportEnds ==
  /\ import.phase = "rows"
  /\ import.rows = <<>>
  /\ import' = None
  /\ UNCHANGED <<vars, order, detail, walk>>

-----------------------------------------------------------------------------

ServiceStep == Next /\ Arrive /\ Watch /\ UNCHANGED <<detail, import>>

DetailSteps ==
  \/ \E id \in DOMAIN items : DetailItem(id)
  \/ DetailReferrals
  \/ DetailEscalations
  \/ DetailEnds

WalkSteps ==
  \/ \E filter \in Filters : WalkBegin(filter)
  \/ WalkCount
  \/ WalkPage
  \/ WalkOn
  \/ WalkEnds

ImportSteps ==
  \/ \E batch \in Batches : ImportBegin(batch)
  \/ ImportKnown
  \/ ImportRegister
  \/ ImportCommit
  \/ ImportRowFails
  \/ ImportEnds

AllNext == ServiceStep \/ DetailSteps \/ WalkSteps \/ ImportSteps

AllSpec == AllInit /\ [][AllNext]_allVars

-----------------------------------------------------------------------------
(* Properties.                                                             *)

(* The parts of a detail are read one after the other, while sweeps,       *)
(* cycles and requests change the item: whoever reads it still finds the   *)
(* referral its lead and rule version come from and the escalation its     *)
(* level comes from, because the item is read first and the logs only grow *)
(* (query_service.go:29).                                                  *)
DetailExplained ==
  detail.phase = "told" =>
    /\ \E i \in DOMAIN detail.referrals :
         /\ detail.referrals[i].lead = detail.row.lead
         /\ detail.referrals[i].version = detail.row.version
    /\ detail.row.level > 0 =>
         \E k \in DOMAIN detail.escalations :
           detail.escalations[k].to = detail.row.level

(* Unless an item leaves the list meanwhile, a walk to the last page shows *)
(* everything that was there from its beginning, whatever is registered or *)
(* enters the list in between, and a single page falls short of the total  *)
(* reported with it only by being full (queries.go:268, reeval.go:65,      *)
(* batch_service.go:87).                                                   *)
WalkIsComplete ==
  walk.phase = "read" /\ ~ walk.left =>
    \/ Cardinality(walk.page) = PageMax
    \/ /\ walk.steady \subseteq walk.seen
       /\ walk.offset + Cardinality(walk.page) >= walk.total

(* While others register the same references, a row an import reports as a *)
(* success names the item stored under its reference, and no item the      *)
(* import made goes unreported (batch_service.go:38).                      *)
ImportTellsTruth ==
  import # None =>
    LET ids == {import.results[i].id : i \in DOMAIN import.results} IN
      /\ \A i \in DOMAIN import.results :
           LET result == import.results[i] IN
             result.id # Failed =>
               result.id \in DOMAIN items /\ items[result.id].ref = result.ref
      /\ import.made \subseteq ids
=============================================================================
