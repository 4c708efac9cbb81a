# WuxiangAIHub: specifications and proofs

TLA+ modules, TLC configurations and TLAPS proofs for the service in `src/`:
a hub that registers compliance cases, routes them by dispatch rules, escalates
the overdue ones, re-evaluates them when rules change, and keeps everything in
JSONL shard files with a SQLite index beside them. Paths below are relative to
`src/internal/` unless they start with `cmd/`, `migrations/` or `README`.

## Running it

    tlc -config case_races.cfg MCCaseService     # any run of PROJECT.json
    tlapm CaseServiceProofs.tla                  # any module of proofs

`PROJECT.json` lists the runs with their properties, the seeded faults each
property was seen to catch, the lines every definition was translated from, the
disagreements between code and documents, the hazards and the theorems.

## 1. Inventory

| Component | State | Operations | What is hard | What makes it correct |
|---|---|---|---|---|
| Domain (`domain/`, `dispatch/`) | none | status transitions, rule matching, choice of a rule, name of the escalated lead | rules overlap; judged at the registration instant | one rule outranks all others; closed statuses have no way out |
| Case requests (`service/case_service.go`) | rows of items, referrals | register, start, modify, return, resubmit, cancel, complete | row read, checked, changed and written back whole, in two separate steps; nothing versioned | one item per reference; stamps agree with status; routing comes from a referral |
| Rules (`service/rule_service.go`) | rows of rules | create (and supersede one) | version drawn before the transaction | versions never rewritten |
| Escalation (`service/escalation_service.go`) | rows of escalations, referrals, items | one sweep over a list read once | stale list, first error ends the sweep | one current referral; levels accounted for; overdue items get their turn |
| Re-evaluation (`worker/`) | referrals, items | cycle: newest version, active rules, stale items, reload, decide, write | four separate reads before the write | late rules applied; work in progress untouched |
| Two-part store (`repo/`, `store/`) | shards + index | WithTx and its saves, RebuildIndex, Reconcile | append is not undone by rollback; flags no record carries; rebuild beside a server | whatever is committed can be found in a shard; replay does not turn back |
| Shard files (`shard/`) | files of lines | append, rotate, scan, read | torn lines, full files, files of other days | files only grow |
| SQLite index (`index/`, `migrations/`) | tables | inserts, updates, queries | UNIQUE and PRIMARY KEY fire at write time | keys hold |
| Scheduler (`scheduler/`) | two goroutines | rounds, retries, backoff, dead letters, Stop | timeout of the round that must record its failure | a letter per exhausted round; Stop returns |
| Process (`cmd/wuxiangai`, `httpapi/server.go`) | goroutines, open store | accept, answer, signal, drain, stop, close | main does not wait for the shutdown goroutine | store closed under no loop |
| Sessions (`auth/`) | users, sessions, one JSON file | open, login, resolve, logout | memory changed before the file is written; hash not encoded | a confirmed logout holds for ever |
| AI hub (`hub/ai_*.go`) | applications, clusters, routes, offers, scenes, communities, events | submit, reserve, release, approve, assign, apply, publish, enroll, ... | long sequences of legal calls; capacity at its limit | ledgers balance; the event log tells what happened |
| Brand hub (`hub/registry.go`, `hub/service.go`) | licences and inspections with versions, catalogues; recalls are values | activate, renew, inspect, publish, launch, acknowledge, close | read and checked first, saved with an expected version later | no renewal lost, none of a suspended licence; completions in line; a closed recall is covered |
| Brand policies (`hub/*_policy.go`) | none | checks of one record | limits, rounding | those that brand state depends on |
| Clients (`service/query_service.go`, `service/batch_service.go`, lists) | results so far | an item's detail, walks through lists, imports | many queries, anything in between | what is told explains itself; nothing passed over; results are true |
| Handlers, configuration, logs | none | decoding, output | - | not modelled, see section 8 |

**Interactions.** Handlers (`httpapi/`) call one service method per request and
run concurrently. The scheduler calls the escalation service; the worker calls
the adjudicator; all of them reach the tables through `store.Store`. The index
has one connection (`index/schema.go:32`), so a query or a transaction is atomic
and transactions never overlap, but nothing is held between a query and the
transaction that rests on it. A transaction's body appends to the shards while
it is open. `rebuild-index` and `reconcile` are run by hand (`cmd/hubctl`) or by
the scheduler. The hub packages keep their own registries in memory, each behind
one mutex, and no other package calls them.

## 2. Modules

| Module | Models | Extends / composes |
|---|---|---|
| `CaseDomain` | `domain/`, `dispatch/`: operators, no state | - |
| `CaseService` | requests, sweep and worker over the index tables | `CaseDomain` |
| `DurableTables` | what the data directory promises: atomic transactions on four tables | - |
| `ShardedStore` | shards, index, transactions step by step, rebuild | implements `DurableTables` (INSTANCE) |
| `ServerProcess` | goroutines of the process: loops, retries, shutdown | - |
| `AuthSessions` | users and sessions, in memory and in their file | - |
| `AIHub` | the AI project registry and its methods | - |
| `LicenseBook` | what the brand registry promises: licences granted, amended and renewed in whole steps | - |
| `BrandHub` | licences, inspections, catalogues, campaigns and recalls of the brand | implements `LicenseBook` (INSTANCE) |
| `CaseClients` | readers of an item and of lists, and imports, beside the whole service | composes with `CaseService` |
| `CaseServiceProofs` | proofs about `CaseService`, its steps taken by anyone | `CaseService`, TLAPS |
| `CaseClientsProofs` | proofs about `CaseClients` beside the whole service; it implements `CaseService` (INSTANCE) | `CaseClients`, `CaseServiceProofs` |
| `ServerProcessProofs`, `AuthSessionsProofs`, `BrandHubProofs`, `AIHubProofs`, `ShardedStoreProofs` | proofs about these modules | the module, TLAPS |
| `DurableStoreProofs` | `ShardedStore` implements `DurableTables` | `ShardedStoreProofs` |
| `MC...` | model values, small sets and symmetry for TLC | the module they are named after |

Operators commented "Seeded fault" are variants of the definition that follows
them, changed as a plausible bug would change it; no action uses them. Each
property of a passing run has one that TLC finds it violated under.

### CaseService

Every operation is two steps, as in the code. The first reads a row, checks and
changes a copy (`StartProcessing`, `Cancel`, ..., `SweepBegin`, `ReevalRead`); the
second writes all columns of the copy in one transaction (`CommitRegister`,
`CommitUpdate`, `CommitRule`, `Escalate`, `ReevalCommit`). `request`, `sweep` and
`reeval` hold the copies in between. A check that fails answers with an error
and is no step; a failing transaction is `RequestFails`, `SweepFails`,
`ReevalFails`. Time is a counter of ticks; the adjudicator judges at the
registration instant. A lead is a department and the list of supervisor
suffixes escalations gave it. Audit entries decide nothing here and are left out.

### DurableTables and ShardedStore

`ShardedStore` takes one transaction apart: `Begin` fixes what it has to do, each
save appends to a shard file and changes the open transaction's tables, `Commit`
publishes them. A line is a record with a file (type, day, part) and the way it
ends: whole, cut, without its newline, or joined to a torn line before it.
`RotateIfNeeded`, `Scanned`, `Collected` and `Rebuilt` are the rotation, scanner,
collector and rebuild of the code. A row keeps its keys, its flags and a
revision number. CONSTANT `Faults` says what may go wrong: aborted and torn
transactions, overlapping requests, loss of the index, a rebuild beside the
server. The refinement maps each table to the index, or, while the index is lost,
to what a rebuild of the shards would give (checked by `store_durable`, proved in
`DurableStoreProofs`).

### ServerProcess

One phase per goroutine of a loop (waiting, running, backoff, recording,
returned), the step the signal goroutine has come to, requests, and the store.
Durations are left out: a timeout strikes at any moment, a drain ends at once or
when its own timeout does. `late` marks an attempt that started with its context
done, which fails at its first call.

### AuthSessions

`memory` and `disk` are the diskState of the process and of the file. Every
operation that writes has three outcomes: written and answered, not written and
answered with an error, and the process dying on either side of the rename.
Encoding drops the password hash, as the JSON tag does.

### AIHub

A method holds the registry's mutex throughout, so it is one action. `WriteStatus`
stands for the statuses no method assigns (returned, active, cancelled), which
the tests write into the registry. A resource is added as its caller gives it: the
capacity is checked, the amounts in use and the members it comes with are not, and an
application keeps the route and the offer its caller names. The ledgers therefore speak of
what happened since. Three histories say what that is: `given`, a field of each resource
(what was in use when it was added, or how many members a community came with); `assigned`,
the routes assigned by `AssignRoute`; and `applied`, the offers applied for by `ApplyOffer`,
each with its instant. No guard reads them.

### LicenseBook and BrandHub

A call is two steps, as in the code: `ActivateLicense`, `RenewLicense`,
`CompleteInspection` and `PublishStoreCatalog` read and check, `SaveLicense`,
`SaveInspection` and `PublishCatalog` save under the lock; `calls` holds what each
caller is about to save and the version it expects. `LaunchCampaign` saves nothing and
is one step. Nothing in `src/` suspends a licence: `AmendLicense` is the caller outside
that reads it and saves it with another status. Recalls are values, so each caller has
its copy, and `HandOver` passes one on. History variables: `extended` (what renewals
added since a licence was granted), `results` (answers to completions), `launched`
(listings campaigns were launched with) and `confirmed` (stores that acknowledged).

`LicenseBook` has only whole steps: `Grant`, `Amend`, and `Renew`, which adds its
extension to the licence as it stands. That `BrandHub` implements it says that
optimistic concurrency works: nothing lost, nothing applied to another licence than
the one it was checked against.

### CaseClients

`AllNext` is a step of the service (`ServiceStep`), of a reader of one item
(`DetailItem`, `DetailReferrals`, `DetailEscalations`), of a reader of a list
(`WalkBegin`, `WalkCount`, `WalkPage`, `WalkOn`) or of an import, whose registrations are
CaseService's own `Register` and `CommitRegister` under the name `Importer`. `order` is
the order rows were inserted in, which decides among equal instants: forwards in a list
sorted after a filter, backwards in one read off `idx_items_registered` from its end
(`NewestFirst`, a constant naming those filters, because it is SQLite's plan and not the
code that decides). A page is given by
ranks: the rows that have at least `offset` rows and fewer than `offset + PageMax` rows ahead of
them (`Ahead`), which is what OFFSET and LIMIT select from the ordered rows. `walk.steady` is
what has been in the list since the walk began, `walk.left` whether anything has left it.

## 3. Runs

Bounds are in the `.cfg`. Passing runs:

| Run | Asks | Distinct states |
|---|---|---|
| `case_races` | what survives two overlapping requests of any kind, the sweep and the worker | 2.9 million |
| `case_loops` | registrations and new rules against both loops: routing and current referral agree, overdue items are escalated, late rules applied | 168 thousand |
| `store_durable` | refinement of `DurableTables` over two days, with the index lost and rebuilt | 427 thousand |
| `store_faults` | what shards still guarantee under every fault | 1.1 million |
| `process_rounds` | rounds, retries, timeouts and shutdown in every order; a signal ends in a closed store | 518 thousand |
| `auth_sessions` | sessions over failing writes, crashes and restarts | 155 thousand |
| `hub_registry` | compute, routes and reviews, offers, scenes and communities at their limits: ledgers, approvals and the event log, whatever resources were added with | 67 thousand |
| `case_clients` | an item read in parts beside both loops, a list walked while it changes, an import beside the same registrations | 1.8 million |
| `brand_hub` | refinement of `LicenseBook`; renewal window, completions, catalogues and campaigns, recalls | 512 thousand |

Runs that find a disagreement between the code and a document (the quotations
are in `PROJECT.json`, "findings"):

| Run | Shows |
|---|---|
| `case_closed_rewritten` | a cancel that read earlier turns a completed item into a cancelled one |
| `case_sweep_blocked` | an overdue returned item keeps everything behind it from being escalated |
| `store_half_records` | a rolled back registration comes to life in a rebuild |

**Why the bounds are enough.** The races are between two writers of one row: two
clients and two loops make every pair (and every triple with both loops), and a
second item makes the sweep's list longer than one. Two rule versions give one
rule created too late and one superseded. `MaxReferrals` also cuts off a repetition
that has no end in the code (section 4), which is why `OverdueIsEscalated` speaks of
items with room for one more referral and `case_loops` has one item. In the store, two
days and two lines per file make records of one item lie in different files and
fill a file; three or four transactions are a registration, a change and a third
that races, tears or rebuilds. The process run uses two rounds per loop of two
attempts, so that a second round meets what the first left. Hub runs let capacities
be met exactly and exceeded by one, and add resources with amounts in use of -1, 0 and one
more than any capacity, communities with no member, one, and one seated twice. `RequestFails` and its kin are never bounded.

Three runs have a CONSTRAINT, because parts that share no state need not be combined:
`hub_registry` reviews projects beside compute and routes of which nothing is in use (`Reviews`),
reserves and moves compute in clusters added with any amount (`Computing`), moves
applications of two tenants and countries between two routes (`Routing`), applies for an
offer at instants before, in, at the ends of and after its window (`Offering`), or has scenes
and communities in use (`Places`); `brand_hub` one of licences, inspections, catalogues and recalls (`OneAreaInUse`), `case_clients` one of
the three clients in a behaviour (`Watched`, `Walked`, `Imported`): a reader with one item
and both loops, walks and imports with up to three items and requests alone. In the
brand run a licence has versions up to four, so two renewals, an amendment and an
activation race with two callers, and the clock passes the licence's end. A page of one
row makes every list of two or three several pages.

Deadlock is checked in the `case_*`, `store_*` and `auth_*` runs, where a read, a
crash or the tools can always go on. It is switched off (`CHECK_DEADLOCK FALSE`) for
`process_rounds`, where a process that has exited does nothing, and for `hub_registry` and
`brand_hub`, where a registry that is used up has no caller.

**Symmetry** is used for ids, references, users and tokens, in runs without
liveness only; no definition chooses among them.

## 4. Other disagreements met while modelling

Each is visible in the actions named; no run checks a property about it.

* `CaseService!ReevalCommit`: the worker checks a reloaded copy and writes it in a later
  transaction (`worker/reeval.go:139`), so an item started in between goes back to
  adjudicated, although `worker/reeval.go:18` says that work in progress is left alone.
* `CaseService!Rerouting`: adjudication is at the registration instant, so an item of a
  superseded rule registered before the newer one took effect is never migrated, as
  `worker/worker.go:36` promises. Where an older active rule still matches, every cycle
  writes the item and one more referral, and undoes an escalation it races with.
* `CaseService!CommitUpdate`: a request that read before an escalation writes the old
  lead back while the escalation's referral stays current (`README.legacy.md:45`).
* `CaseService!CommitRule`: only the version named by `supersede_version` is superseded,
  although `README.legacy.md:117` says that older rules are, automatically.
* `ShardedStore!RebuildRefused`: rebuild-index leaves the rules of the index in place
  (`index/writes.go:217`), inserts them again and is rolled back; it works on an index
  without rules only, such as a new one.
* `ShardedStore!Scanned`: the files a full shard is rotated to (`x.jsonl_001`) do not
  end in `.jsonl` and are not rebuilt (`shard/scanner.go:38`).
* `ShardedStore!PostProcessRebuild`: after a rebuild an escalated item has no current
  referral and a re-evaluated one has several (`repo/rebuild.go:188`).
* Reconcile compares shards with a manifest only rebuild-index writes, and reports
  what was appended since as orphaned (`repo/rebuild.go:266`).
* `ServerProcess!RecordingFails`: a dead letter is saved with the round's context; when
  that timed out, saving fails too (`scheduler/tasks.go:24`, `README.legacy.md:197`).
* `AuthSessions!Encoded`: the password hash has the tag `json:"-"` (`auth/auth.go:37`), so
  after a restart no user of the file can log in; `auth/auth.go:43` says it is stored.
* `AIHub!CanApprove`: a released reservation counts as one (`hub/ai_service.go:135`).
* `AIHub!OfferOutsideWindow`: an offer can be had at the instant it ends
  (`hub/ai_service.go:370`), which `hub/ai_service_test.go:148` expects to be refused.
* `AIHub!AddCluster`, `AddRoute`, `AddOffer`, `AddCommunity`: the amounts and members a
  resource comes with are stored unchecked (`hub/ai_registry.go:64`, `:80`, `:97`, `:113`), so
  one may be over its capacity, or a member seated twice, before anybody uses it; and
  `SubmitApplication` keeps an offer that was never applied for (`hub/ai_service.go:34`).
  No document says otherwise.
* `CaseService!Complete`, `Cancel`: a transition to the same status is valid
  (`domain/compliance_case.go:78`), so a closed item may be closed again and gets a new
  closing stamp. No document forbids it.
* `ServerProcess!MainReturns`: ListenAndServe returns as soon as Shutdown begins and main
  with it, while requests are in flight and the store is open (`cmd/wuxiangai/main.go:70`),
  although `README.md:20` promises a graceful shutdown.
* `CaseClients!WalkEnds`: an export asks for 1000 rows, gets one page of 200 at most and
  prints the total as exported (`index/queries.go:314`, `cmd/hubctl/main.go:197`).
* `CaseClients!WalkOn`: a list is read by OFFSET, so an item that leaves it moves the next
  page's first item to a page already read; a worker's cycle then misses it.
* `CaseClients!ImportEnds`: when the row of the batch cannot be saved, the client is
  answered with an error and the items registered for it stay (`service/batch_service.go:68`).
* Instants are stored and compared as texts without trailing zeros (`index/schema.go:181`):
  within one second, and between zones, their order is not that of the instants.
  `ListItems` with OverdueOnly uses the wall clock, not the service's (`index/queries.go:298`).
* `BrandHub!PublishCatalog`: of two publications that overlap the older may stay
  (`hub/registry.go:78`). `BrandHub!LaunchCampaign`, `PublishStoreCatalog`: the licence is the
  caller's copy, which may have been suspended since. `BrandHub!CanRenewLicense`: the window
  has no end, so a licence that ran out long ago is renewed (`hub/license_policy.go:74`).
  `BrandHub!Expected`: an id nobody saved takes any version (`hub/registry.go:33`).

## 5. Fairness

`CaseService!Fairness`: the clock advances and the tickers of both loops keep
firing (WF of the steps that begin and continue a round); a handler that has read
goes on to its transaction or fails. Nothing is assumed of clients. A step a
failure can cut off has SF: the database may refuse a transaction, but not each
time it is tried, for every later round tries again.

`ServerProcess!Fairness`: the Go runtime runs every goroutine that can run (WF of
each step), a task returns, and a `select` whose cases stay ready does not pass
over the same one for ever (SF of `LoopReturns`): Go chooses uniformly. No signal,
tick or request need ever come, and retries need not succeed.

## 6. What is proved

For all values of the constants that satisfy the assumptions each module states
(`ServiceAssumption`, `ClientsAssumption`, `ConstantsOK`), by TLAPS, every safety property
the passing runs check, both refinements, and one more (`ImportIsOneMoreClient`):

* `CaseService`: `TypeCorrect`, `CurrentReferralUnique`, `RegisteredOnce`,
  `RoutingFromReferral`, `AdjudicatedByRulesInForce`, `ClosingInstants`,
  `LevelsAccounted`, `CopiesStayAgreed`, `RulesNeverRewritten`: every property
  that run `case_races` checks; and `RoutingShownIsCurrent`. Of every step:
  `HistoryOnlyGrows`. Of the adjudicator: `AdjudicationDecides` (exactly one rule routes an
  item that some rule in force matches) and `DefaultRuleRoutesAll` (with a default rule
  active, as `hubctl init` leaves it, every registration is routed).

**The argument.** None of the properties of the tables is inductive: a
transaction writes a copy read long ago, so the tables are only safe if every copy
in flight is. `CopiesAgree` says what a copy must satisfy by itself: it has the
reference and registration instant of the item it will be written to, its stamps
agree with its status, its level is accounted for by a record, its routing by a
referral. That is stable because the tables only grow in the respects it mentions
(`Grown`: rules keep their content, referral and escalation logs are only
appended to, identity columns never change), whoever writes. The invariant is
`SafeInv`: types, the table properties and `CopiesAgree`. Each transaction preserves
the tables and is a growth (one lemma per transaction); growth keeps all copies
agreed (`StaysAgreed`, `RequestStaysAgreed`, ...); and each read makes an agreed
copy (`RegisterSafe`, `PrepareSafe`, ...). The lemmas are about a step that anyone takes
(`AnyonesStep`), so that they hold for requests other modules add.

`RoutingAgrees` needs a hypothesis, because the code does not keep it in general: a request
that read an item before an escalation writes the old lead back (section 4). The theorem
assumes `NoUpdates` (registrations and new rules beside both loops, as in run `case_loops`) or
`NoLoops` (requests of every kind, no loop): it takes one writer of each sort to part routing
and referral. A loop writes an item and its new referral in one transaction, from one copy, so
however old the copy is the two agree (`RoutingRewritten`); without the loops no referral is
ever added to an item, and the copies of requests keep showing the one there is
(`UpdatesAgree`, `RoutingInv`).

* `CaseClients`, beside the whole service: `DetailsAreExplained`, `WalksAreComplete`,
  `ImportsTellTruth`, and `SafeBesideImports`, the invariant of the service with an import as
  one more writer. Every step is a step of the service as anyone may take it
  (`AllNextIsAnyonesStep`), so tables grow (`Grown`), and each client rests on that. A reader's
  copy came from a referral and an escalation that were logged when it was taken, and the
  logs are read later (`DetailOK`). For walks, whatever stays in the list and was not shown has
  as many rows ahead of it as were passed over (`WalkOK`): rows ahead of an item only get
  more while nothing leaves (`AheadGrows`), because registrations come first or last among
  equals and no registration instant ever changes; and what a page shows is exactly the rows whose
  rank is in its window, a page that is not full being the last, because the ranks of a list are
  0, 1, 2, ... without a gap (`RankBijective`, `SliceOfRanks`). For imports, its
  request is for the row it has come to (`ImportOK`), and what was registered stays so.
  `ImportIsOneMoreClient`: all of it implements the service with `Clients \cup {Importer}` as
  its clients (`Joined`, an INSTANCE of `CaseService`), each step mapping to a step of the
  importer's registration, to one of the service or to none.

* `ServerProcess`: `TypeCorrect`, `ClosedAfterLoops`, `LettersAccounted`. The invariant
  adds what the counters rest on: a task in an attempt or a backoff is in a round it
  has not used up and has attempts left; and what the signal goroutine waited for
  stays so, because a goroutine that has returned takes no step. One lemma covers any
  step of one loop, one any step that touches no loop.
* `AuthSessions`: `LogoutIsFinal`, `IssuedIsDurable`. The file must keep every answer
  by itself, because the process may die, and memory must keep it too, because the next
  write puts memory in the file's place; for issued tokens both hold the same sessions.
  That a token is drawn once is an assumption of the model (`Login`'s guard). `SessionsTyped`
  is its type invariant.

* `BrandHub`: `LicensesKeepTheBook` (the refinement of `LicenseBook`), `RenewalsStayInWindow`,
  `CompletionsStayInLine`, `ClosedRecallsAreCovered`, `FeaturedWereChecked`,
  `HubKeepsItsTypes`: every property that run `brand_hub` checks. A save replaces a licence by a copy
  made earlier; it is a step on the licence as it stands because a version names one
  licence. The invariant (`LicenseInv`) says so: a call expects a version no newer than the
  one stored, and while it is the one stored, its copy is the present licence with the
  call's own change (`Unspoilt`). A save raises the version, so every other call on the
  licence is past (`SaveLicenseInv`). The window needs in addition that what a renewal is
  about to save is within it (`WindowInv`); completions, that every inspection stored has
  answers (`CompletionInv`); recalls, that copies only name stores that did acknowledge
  (`RecallInv`); featured listings, that every catalogue stored or about to be was checked
  (`ListingInv`) and that the listing that counts for a SKU is one of its catalogue (`SkuListed`).
  That a score is from 0 to 100 is a fact about a fold over a report of any length: there
  is such a fold (`FoldExists`), and a least set of sections whose sum broke the bound would
  leave a smaller one (`FoldBounded`).

* `ShardedStore`, for every choice of `Faults` and any number of lines per file: `StoreTypes`,
  `ShardsWrittenAhead`, `ManifestTrails`, `ReplayGoesForward`: every property that run
  `store_faults` checks. Types need that rotation finds a part with room (`SomeRoom`):
  if the parts up to the number of files were all full, they would be more files than
  there are. That the index is logged needs that the open transaction's tables and a
  rebuild's scan are too (`AheadInv`), since both may become the index. That replay does not
  turn back rests on the order of the log (`InOrder`): later records of an id are of no
  earlier day and revision. A save is filed under the day its transaction began and
  an update under the day it is made, so a transaction over midnight keeps the order only
  because what it saves under a new id is the first thing it appends, while nobody
  has written that id (`FirstOfItsId`), and because a transaction's revision is later than any
  before it (`Due`, `Past`).
* `ShardedStore` implements `DurableTables`: `StoreIsDurable`, under `Undisturbed`: at most the
  index is lost (no abort, torn line, overlap or rebuild beside the server: each of them is a
  real exception, which run `store_half_records` shows for aborts), CreateRule supersedes
  only versions that exist, and no file fills up (a transaction appends at most four
  lines). The invariant (`DurableInv`) says that the shards tell the tables: items,
  escalations and dead letters are the latest records of their ids, rules those records with the ones
  the audit names marked superseded (`Settled`, `Marked`), and a rebuild of lines in order
  is exactly that (`RebuiltFromLatest`). While a transaction is open it holds of the
  transaction's tables, and what the transaction has left to do to each of them (`Pending`,
  `Heading`) leads to a goal that is one step of `DurableTables` from the index (`StepTo`); so
  `Commit` is that step, and losing and rebuilding the index is a stutter (`Restored`). The
  version a rule gets must be above every version the audit names (`VersionsSeen`), or the
  rebuild would mark it.
* `AIHub`: `HubTypes`, `ComputeIsHeldByReservations`, `RoutesHoldTheirs`, `OffersHoldTheirs`,
  `ApprovedAreServed`, `SeatsAreHeldOnce`, `LogTellsApprovals`: every property that run
  `hub_registry` checks. Compute in use is a sum over the live reservations. The sum of the
  community modules takes elements in an order it chooses; `SumsAgree` and `AnyFirst` show
  that the order and the surrounding set do not matter, by a least counterexample, so that
  reserving adds one term and releasing removes one (`PetaopsOfOneMore`). `ComputeInv` adds
  that reservations are finitely many and live ones are in clusters that exist. No ledger supposes anything of what a
  resource was added with: each compares with that amount (`given`), and bounds by the capacity
  only resources that were reserved, assigned, applied for or enrolled in since, because
  those are what the code checks. The ledgers of routes and offers count
  applications, and uses, with a cardinality; `RouteInv` and `OfferInv` add that what was
  assigned or applied for exists, so that a new route or offer starts with an empty ledger.
  An assignment adds at least one unit for at most one more application, an offer applied for
  one use for at most one more application and instant, and neither is given back when the
  application moves on. Seats are compared by position, the first `given` of them left
  out: two of the members a community came with may be one. The log
  needs that its entries are of applications that exist (`AuditInv`), so that a submission is
  the first entry of its application.

## 7. What is only model-checked

Liveness: `OverdueIsEscalated`, `LateRuleApplied` and `ShutdownCompletes`, with the fairness of
section 5, is out of TLAPS's reach and stays with TLC. So do the three disagreements of
section 3, which are counterexamples. The library's theorems of induction take an operator as
a parameter, which the provers at hand cannot instantiate; where a proof needs induction
over a number it looks at a least counterexample instead (`LeastNatural`, from the
well-foundedness of the naturals). The meaning of the folds is taken from the definitions in
the community modules, not assumed.

## 8. What is not modelled

* **Brand policies** that no state depends on (broth, chili oil, certificates, cold chain,
  stock, training, transfer, appeals, corrective deadlines, subsidies): pure checks of one
  record; the unit tests reach their branches.
* **Handlers, DTOs, middleware, logging**: no state of their own.
* **Queries** beyond those that decisions, details, lists and imports rest on: the backlog,
  failures and audit lists, further filters and text search.
* **The worker's pages** are read in `CaseClients`; `CaseService` reads one list.
* **Audit entries** appear only where a rebuild reads them. The row of an **import batch** is
  read by nothing; only that saving it may fail is modelled.
* **Configuration**: `Validate` leaves intervals unchecked, and a ticker of a duration that
  is not positive panics (`config/config.go:123`); nothing there changes after the start.
* **A rebuild reading file by file** beside a running server: the model reads all
  files in one step, before its transaction.
* **Overflow of amounts** in the AI hub: an amount is an integer of any size, so a route added
  with an amount near the least `int` has room in the model where Go's subtraction wraps.
* **SQLite and the file system** are trusted to do what `COMMIT`, `rename` and
  `O_APPEND` promise. Shard writes are taken to be on disk once written.

## 9. Plan

1. (done) `CaseDomain`, `CaseService`: the core, its runs and proofs.
2. (done) `DurableTables`, `ShardedStore`: the store, its refinement and faults.
3. (done) `AIHub`, `ServerProcess`, `AuthSessions`.
4. (done) `BrandHub` and its abstract specification `LicenseBook`, with proofs.
5. (done) `CaseClients`: details, lists and imports as clients of `CaseService`.
6. A composition of `ServerProcess` and `CaseService`: cycles cut off by Stop.
7. (done) Proofs about `ShardedStore` and `AIHub`.
8. (done) The refinement of `DurableTables` proved.
9. (done) Proofs about `CaseClients`, the compute ledger and the types of `BrandHub`.
10. (done) Theorems about the adjudicator: one rule outranks all others.
11. (done) `CaseClients` implements `CaseService` with one client more.
12. That an overdue item's place in a sweep is reached unless the sweep fails, the safety
    half of `OverdueIsEscalated`.
