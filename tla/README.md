# S.O.K. (Oferty_PV) in TLA+

Specifications of the concurrent core of the offer, order and production system
in this repository, the TLC runs that check small instances of them, and proofs
that TLAPS checks for every instance. Paths below are relative to `src/`.

## 1. Inventory

The server (`src/`) is Express and Prisma over PostgreSQL at READ COMMITTED; the
browser (`public/js/`) keeps documents in memory and talks to it by `fetch`. Any
number of pages, of several users, run at once. Nothing but the database is
shared between requests, apart from a few in-process caches and mutexes.

| component | state | operations | what is hard | what must hold |
|---|---|---|---|---|
| production numbers (`src/routes/orders/numbering.ts`, `production.ts`) | counter per user and year, pool of recycled numbers, orders | claim a range, PUT a batch, return numbers, delete one or many | claims, PUTs and deletes interleave; reads outside the transaction | a number is in one place: pool, run or order; none is lost |
| bulk generation (`public/js/studnie/orderBulk.js`, `shared/fetchJson.js`) | claimed numbers, saved ids, chunk, attempt | claim, PUT in chunks, return the rest; retry, cancel | lost and late requests, retries of what was done, New Year | claimed = saved + returned; the run ends |
| document locks (`src/utils/docLocks.ts`, `src/routes/locks.ts`, `public/js/shared/lockService.js`) | a row per edited document; `_held`, `_hbTimer` in the page | acquire, heartbeat, release, force, lazy clean | five statements of one acquire interleave with everything; expiry | who was told so has the lock; nobody is shut out for ever |
| document saves (`src/utils/versionWrite.ts`, PATCH/POST/PUT of offers and orders) | `version`, content; version and base in the form | read, test lock, test base, write where version | lost answers, a conflict met by a form full of edits | no unread change is overwritten |
| drafts (`src/services/drafts/draftService.ts`, `src/routes/drafts.ts`, `public/js/shared/draftAutosave.js`, `draftSync.js`) | a copy with a version on the server; local copy, known version, queue and timer in the browser | autosave, push with If-Match, settle a conflict, recover, discard, expire | answers lost or out of order, two browsers, deletion and re-creation restart the version | no copy is replaced by a browser that did not know it; what waits is sent |
| idempotency keys (`src/utils/idempotency.ts`) | PENDING and DONE rows with an age | claim, replay, complete, reclaim, forget, clean | crash between effect and completion; a reclaim while the first still runs; retries | one execution at a time, one answer per key, no key blocked for good |
| production orders one by one (`public/js/studnie/orderZlecenia*.js`, `pzGuard.js`) | the list of the page, the save on its way | claim a number, PUT the whole list, delete, reload | keys that outlive the order; lists saved as a whole | the number of an order is its own |
| pricelists (`src/services/pricelist`, `src/routes/pricelistVersions.ts`, `src/middleware/writeLock.ts`, `src/utils/orderStamp.ts`) | versions with a status and an hour of entry, the version chosen by hand, a mutex per axis; stamps of documents | create, edit, replace, label, approve, cancel, choose, clear, delete, clone | checks before the mutex and again inside, a mutex per process, time that passes meanwhile, two mutexes at once | a version is always in force; each operation acts as one step; published rows stay |
| offers, orders (`src/routes/offers`, `src/routes/orders`) | documents, items, history | CRUD, deletion guards | guard then delete; whole lists saved from a stale cache | no order without its offer |
| care, SLA, follow-ups | cases, deadlines | open, answer, close | two users close and reopen | status follows its offer |
| sessions, shares, audit | rows | log in, expire, share | idle and absolute expiry | no use after expiry |
| ML, telemetry, exports, search, cron, calculators | files, derived rows, forms | train, record, render, compute | numerical or derived | out of scope, see section 8 |

Components meet in three ways: the browser calls the server and may never hear
the answer; handlers meet in tables between any two of their statements; a
document carries into another component a value it read earlier (a number, a
version, a pricelist stamp).

## 2. Modules

| module | models | extends |
|---|---|---|
| `ProductionNumbers` | the three tables and what one transaction does to them | |
| `BulkGeneration` | runs of `executeBulkGeneration`, the network, PUT/return/delete handlers, editors, New Year | `ProductionNumbers` |
| `BulkGenerationProofs` | theorems about it: types, the ledger of numbers, no gaps | `BulkGeneration`, TLAPS |
| `BulkSettledProofs` | theorem: a run that loses no message ends owed nothing of this year | `BulkGenerationProofs` |
| `DocLocks` | the table `doc_locks` and the conditions of its statements | |
| `DocEditing` | pages, lock routes, forms, save handlers | `DocLocks` |
| `DocEditingProofs` | theorems about it: types, leases, versions | `DocEditing`, TLAPS |
| `PriceTimeline` | versions of price lists as data: which is in force, what a version is exported with, labels, unique indexes | |
| `PriceList` | abstract: every change of the price lists as one permitted step | `PriceTimeline` |
| `PricelistVersions` | the operations with their mutexes, transactions, failures, restarts; stamping of documents; implements `PriceList` | `PriceTimeline` |
| `PriceTimelineProofs` | lemmas about the queries on a table of versions | `PriceTimeline`, TLAPS |
| `PricelistVersionsProofs` | theorems: all invariants and action properties, and the refinement | `PricelistVersions`, `PriceTimelineProofs` |
| `DraftSync` | browsers of one user, the draft handlers, the network | |
| `DraftSyncProofs` | theorems about it: types, what a replacement and a deletion may do | `DraftSync`, TLAPS |
| `IdempotencyKeys` | the table `idempotency_keys` and the statements on it | |
| `SingleClaims` | saves of single production orders, the claim under a key, PUT and DELETE | `ProductionNumbers`, `IdempotencyKeys` |
| `SingleClaimsProofs` | theorems about it: types, one execution, one answer per key | `SingleClaims`, TLAPS |
| `MC...` | values of the constants for TLC | the module of that name |

### ProductionNumbers and BulkGeneration

A number `[owner, year, seq]` stands for the printed `symbol/letter/seq/yy`.
`lastNumber`, `recycled`, `orders` are the tables `production_order_counters`,
`recycled_production_numbers` and `production_orders_rel`; `year` is the
server's clock. `claimProductionSeqs` locks what it reads, so a claim is one
step (`ClaimChunk`); a PUT is a read and a commit (`PutRead`, then `PutCommit` or
`PutRollback`), and a delete is three steps (`DeleteRead`, `DeleteCheck`,
`DeleteCommit`), because those handlers read without a lock. `run[r]` is the
position in `executeBulkGeneration`, `claimed` and `saved` its local variables,
`net` the requests in the network or the server. A request that the client has
given up stays in `net`. The numbers that are left go back in slices
(`SendReturn`, `Slice`, `NextSlice`), each best effort: whatever becomes of one, the next
follows. A claim carries a key per chunk, and its retries replay
one answer: it is one grant, whose answer may be lost. `Lossy` is the set of runs whose
requests the network may lose, delay or repeat; `Init` lets any of the runs and deletes be
asked for, in any year. Two history variables serve the properties: `owed[r]`,
the numbers granted to `r` that were neither stored nor returned, and
`misplaced`, the numbers stored or returned by someone to whom they were not
owed. The second makes the limits of the ledger explicit: what it says is said
of all other numbers.

### DocLocks and DocEditing

`lock[d]` is the row of a document, with `heartbeatAt` kept as an age. Ages below
`TTL` are fresh (`isLockFresh`), above it expired (`heartbeatAt < cutoff`); at
exactly `TTL` a row is neither, as in the code. A handler reads the clock before it
sends a statement, and `acquireDocLock` writes into the row that it creates the clock
that it read before its first statement (`docLocks.ts:143-145`, `164-173`). So a statement
carries the age of its clock (`acq[t].clock`; `late` for the handlers of one statement), which
grows while it waits: a row may be born aged, and a cutoff may be old. `MaxLate` bounds
that age: `Tick` waits for a statement that is so late to take effect. `acq[t]` is the statement at
which the acquire of page `t` stands: every statement of `acquireDocLock` is an
action (`AcquireTake`, `AcquireCreate`, `AcquireRead`, ...), since none shares a
transaction with the next. `tab[t]` is the page: `held` and `timer` are `_held` and
`_hbTimer`, `open`, `ver`, `told` the document in the form, its version and its
base (`_baseUpdatedAt`, kept as the content it belongs to), `copy` the offers
in memory. An answer waits in `acq[t]` until
the page hears it (`HearGrant`, `HearRefusal`), and others act meanwhile. `lease` and `told` are
history: `lease` is the age of the clock reading that the server's last grant or renewal was
written with, from the moment of the write on, whether the page has heard of it or not. A save (`net`) reads the row
(`SaveRead`), tests the lock and then, for an order, the base (`SaveCheck`), and
writes (`Commit`, `Conflict`). The form of an order sends version and base; that
of an offer sends none, because `GET /:id` gives it none. A page that gives up
(`SaveGivesUp`, `Close`, `Unload`, `AskFails`) does not stop the handler.
Contents are numbered in the order of their writing; that number also stands
for `updatedAt`, which two writes of one document are taken not to share.

### PriceTimeline, PriceList and PricelistVersions

`version[i]` is a row of `PricelistVersion`, `pin[t]` the setting
`pricelist_active_override_<type>`, `lock[t]` the mutex of an axis in the memory
of the process. `req[r]` is an operation between two of its statements, in one of
four stages: waiting for the mutex (`"lock"`), for the second one that the
deletion of a PRECO version takes (`"inner"`), in the transaction with its checks
to come (`"tx"`), and with its checks passed (`"commit"`). Each operation has an
action that does what the code does before it waits (`ApproveVersion`,
`DeleteVersion`, ...); then follow `AcquireLock` or `Busy` (30 s have passed), `Check`
or `Refuse`, and `Commit`, with one `Write...` operator per operation. `Fail` rolls
one request back, `Restart` loses them all with the mutexes. `Tick` lets time pass
between any two steps, so that a scheduled version may come into force between a
check and its commit. Documents take no mutex: `ReadStamp` is the read before the
transaction of a save, `SaveDoc` its commit. The rows of a version are one value
and its `sha` is that value. `raced` is history: the versions that a cancellation
withdrew after they had come into force, because its clock was read before
(`CancelsLate`).

`PriceList` promises what the operations amount to: a change is one step, in a
state that permits it. `PricelistVersions` implements it by the identity of the
three shared variables (`Promised`), and the run checks `Promised!Spec`: that every
commit finds what its checks found, although other requests, documents and the
clock go on in between.

### DraftSync

One document, several browsers of one user. `row` is the copy on the server;
`page[d]` a browser: the form with its local copy, the version it knows (`meta`), the
queue and timer of pushes, the question after a conflict and the one after opening.
`net` holds the requests with the statement that their handler has come to
(`PutMatch`, `PutFind`, `PutCreate`, `PutReread`; `GetRead`, `GetPurge`; `Delete`). An
answer is an action of its own (`Hear`), as are its loss (`Lose`) and a page that
stops waiting while the handler goes on (`GiveUp`, `Leave`). `Run` is `_draftSyncRun`
with everything that it sets off. `born` tells a row from a deleted one of the same
version; no browser sees it. `does` says what the user does on which browser and is chosen
once, among `Habits`. `seen` and `shown` are history: what a browser has held in its form or
was asked about in a conflict, and what was only shown when the document was opened.

### IdempotencyKeys and SingleClaims

`keys[k]` is the row of a key (user, endpoint, key): the hash of the body, the
answer or none yet, and the age. `Decision` is what a request makes of the row that
it finds, and every statement of `claimIdempotencyKey` is an action of a request
`m` in `net`: `TryCreate`, `Find`, `Forget`, `TakeOver`; then `Work`, the transaction of
`claimProductionSeqs`, and `Complete`. A request keeps the age of the clock that it
read at its beginning (`m.age`) and whether the row it read is still that row
(`m.same`, the test of `createdAt`). `page` is the save or deletion that the page
waits for, `mem` its list. `KeyOf` is the scope of the key: the element for an order
that is not in the list, the order otherwise. `Save` claims a number unless the order
has one, `LoseClaim` is the retry of `fetchWithRetry429` under the same key, `Built`
puts the order into the list and sends the whole list. The initial table holds what
a crashed process may have left: a PENDING row of the page's body or of another.
`told` and `crossed` are history, and so is the mark `stale` of a claim: it has met a
row past its TTL, or its own row was deleted by one that had (`Bereft`). An answer is a
number of the model, `[owner, year, seq]`.

## 3. Runs

Every passing run is exhaustive for its instance.

| run | instance | properties | shows |
|---|---|---|---|
| `bulk` | five scenarios, below; three users, six runs, two years | `TypeOK`, `PoolIsFree`, `OwedOnce`, `OneHolder`, `CounterPassed`, `NoGaps`, `AllSettled`, `RunsFinish` | the ledger of numbers under loss, repetition, delay, deletion and reassignment; every run ends, and owes nothing if its network answers (54 942 states) |
| `doc_locks` | two users' pages on one order, TTL 2, clocks up to 1 old, two lock requests at a time, no saves | `TypeOK`, `LeaseHeld`, `OpensEventually` | mutual exclusion as the page understands it, and progress (499 849) |
| `order_saves` | two pages of one user on one order, TTL 1, two saves | `VersionNamesContent`, `OverwritesOnlyTold` | compare-and-set survives lost answers and closed forms (821 641) |
| `offer_saves` | two users, one an admin, on one offer, TTL 2, clocks up to 1 old, one save | `LockKeepsOthersOut` | the save guard honours a lock that a page relies on (1 291 894) |
| `pricelists` | axes studnie and PRECO with two versions each, one request that deletes and one that does anything | `TypeOK`, `AlwaysPriced`, `OverrideResolves`, `LocksReleased`, `PickedPrecoKept`, `Atomic`, `WaitsEnd` | two mutexes, their refusal and their release; no sequence of operations leaves an axis without prices; refinement of `PriceList` |
| `price_edits` | one axis, an edit against any operation, two contents, labels, one document | `StampedInForce`, `PublishedFrozen`, `EditsOnlySeen`, `Atomic` | edits that waited, published rows, stamps |
| `drafts` | two browsers that edit at once, or one that resumes what the other left; two contents, losses, copies that grow old | `TypeOK`, `ReplacesOnlyKnown`, `FreshKept`, `QueueDrains` | compare-and-set from the browser's side; cleaning never takes a fresh copy; the queue never stalls (331 061) |
| `single_claims` | one element, two claims in the server, one fault, rows left by a crash | `TypeOK`, `OneAnswerPerKey`, `OneExecution`, `GetsNumber` | retries, crashes and takeovers under one key |
| `accepted_deleted` | a run of three orders, a batch delete and an editor | `AcceptedStays` violated | finding 1 |
| `replayed_number` | one element, two orders one after the other, no faults | `GivenIsTaken` violated | finding 2 |
| `repeated_return` | three runs of one user, one of which repeats its requests | `GrantedOnce` violated | finding 3 |
| `shown_replaced` | two browsers that open and edit a document | `ReplacesOnlyDecided` violated | finding 4 |

Bounds and why they are enough. The scenarios of `bulk` (`MCBulkGeneration`) are the
overlaps that differ in kind, each with as few actors as it needs; `ChunkSize` is 2.
`Repeated`: a run of one order whose requests are lost, taken up late and sent twice
(`MaxAttempts` 2; the code has 3), so that the attempts of a PUT and of a return overlap, beside
a run whose network answers. `Chunked`: a run of three orders, so of two chunks and two slices,
whose requests are lost and given up, across the turn of the year: one chunk of several fails,
is never answered, or the user stops between chunks. `Turned`: runs of one and of two orders
whose numbers may come back under the new year, above its head, which is what the skipping loop
of `claimProductionSeqs` is for: the next claim reuses them and its range passes over them.
`Deleted`: what a run in two chunks stores is deleted by a parent's single request and an owner's batch,
accepted and reassigned. `Reassigned`: the same changes between two runs of one user. Deletes and
losses never meet in one behaviour of these; the proofs cover that as well. `MaxSeq` caps
how far a counter grows: it allows every claim of the instance to be granted beyond the counter.
In `DocEditing`, TTL 2 with `MaxLate` 1 has a fresh, an exact and an expired age, a row that is
born aged and a lease that outlasts the time that a statement may be late; TTL 1 with
`MaxLate` 0, in `order_saves`, keeps the exact and the expired one. `MaxLocking` is the number of acquire and release
requests under way, `MaxSaves` the saves of one page in the server, `MaxWrites`
caps `writes` plus the saves under way: 3 allows two saves (the initial content
is number 1). `Inspected` names the documents whose lock is asked for by GET;
`order_saves` has none, as its one user's lock never matters, and `offer_saves` none, as
`doc_locks` covers the cleaning. `order_saves` uses one user
because no lock keeps that user's two pages apart: any sequence of saves that two
users could produce is also one of two pages of one user.

In `PricelistVersions`, two requests are the fewest that wait for one another, and the
one that waits for two mutexes is a deletion, so `pricelists` always has one.
`MaxTime = 1` gives a version that is scheduled and one that comes into force while
requests are on their way. `price_edits` has two contents, so that an edit can
be made from rows that are no longer there. In `DraftSync`, `MaxEdits`, `MaxOpens`,
`MaxVersion` and `MaxBirths` cap what the user types, how often the document is
opened, and versions and re-creations of the copy; two of each (three versions) are the
fewest that overlap. `Habits` has two members in `drafts`: two browsers that edit, flush,
discard and settle conflicts, and one that types and leaves beside one that opens, restores,
dismisses and saves, with time to grow old; in `shown_replaced` both edit. In `SingleClaims`, `Reclaim = 1` and `Ttl = 2` give a row that is young,
one that may be taken over and one that is forgotten; `MaxNet` is the number of claims
in the server, `MaxWrites` that of saves and deletions, `MaxFaults` that of errors,
reloads and claims that lose attempts (the attempts of one claim may all be lost),
`MaxAttempts = 2` stands for the 3 of the code, and `MaxSeq` is high enough
for every claim of the instance. The page does one operation at a time.

Deadlock is not checked where everything really stops: when the runs are done in
the bulk runs, and when the users of `DraftSync` and `SingleClaims` do nothing more.

Fairness. `BulkGeneration`: the loop of a run continues, and the server takes up
some request that it can; each `fetch` ends by an answer or an error, and handlers
have transaction limits (`HOT_TX_OPTS`). Nothing is assumed of users, deletes or the
calendar. `DocEditing`: time passes, the server finishes an acquire, a release
arrives or is lost, and the user at the dialog tries again. Nothing is assumed of
heartbeats, loads, cleaning or of any page being closed: that the others have
left is a premise of `OpensEventually`. `PricelistVersions`: a request that waits gets
the mutex or is refused after 30 seconds, since `acquireLock` polls with a
timeout; a transaction may hang for ever. `DraftSync`: timers fire, and a push or an
attempt to settle a conflict ends by an answer or an error. `SingleClaims`: time passes
and the server finishes what it has begun; nothing is assumed of users, whose saving
again and again is the premise of `GetsNumber`.

## 4. Properties

* `PoolIsFree`, `OwedOnce`, `OneHolder`: a number that was not misplaced is in one
  place only: free in the pool, owed to one run, or on one order.
* `CounterPassed`: no number above the counter was ever given out.
* `NoGaps`: every number that the counter has passed is in the pool, on an order,
  owed to a run or misplaced. `AllSettled`: a run that loses no message, whatever the others
  lose, is at its end not owed a number of this year (what it claimed last year is returned
  under this year's number, see the limits).
* `RunsFinish`: every run ends.
* `LeaseHeld`: from the clock reading that the server's last grant or renewal to a page was
  written with, for TTL less the time that a statement may be late (`Leased`), the row is its
  user's and fresh, unless an admin forced it or that user released it. The lateness
  counts because a late statement of the same user may set `heartbeatAt` back. `LockKeepsOthersOut`:
  meanwhile no save of another user passes.
* `OpensEventually`: who keeps asking gets in after the others have left, with no
  cron job, even if they left without a release.
* `VersionNamesContent`: a form holding the row's version was told of the row's
  content. `OverwritesOnlyTold`: a PATCH replaces the content its form was told of.
  Told is not seen: see the limits below.
* `AlwaysPriced`: every axis has a version in force. `OverrideResolves`: a version
  chosen by hand is approved and due. `PickedPrecoKept`: a PRECO version that a studnie
  version is exported with is not deleted.
* `LocksReleased`: a mutex belongs to a request that is using it. `WaitsEnd`: no
  request waits for good.
* `PublishedFrozen`, `EditsOnlySeen`: rows change by an edit of the draft, or by the
  explicit correction of a published version, and an edit with If-Match replaces what
  it was made from. `StampedInForce`: the version that a document carries, or is about to,
  stays approved and in force while it exists, unless it came into force between the check of
  a cancellation and its commit.
* `Atomic`: the operations implement `PriceList`.
* `ReplacesOnlyKnown`: a copy on the server is replaced by a browser that has had it,
  decided about it, or took over its version on opening the document, when it was shown; a row
  deleted and created anew is excepted. `ReplacesOnlyDecided` is the same without "was shown",
  which is what I-013 asks for, and is violated. `QueueDrains`: what waits to be sent does not
  wait for good. `FreshKept`: a copy saved of late is deleted on request only.
* `GrantedOnce`: no number is in the hands of two runs, misplaced or not; violated.
* `OneExecution`: two executions of one key overlap only if the first is older than
  the time of reclaim, or a row past its TTL was met. `OneAnswerPerKey`: unless
  executions overlapped, the answers of one life of a key name one number and were given
  to one body. `GetsNumber`: who keeps saving an order gets a number for it.

## 5. Findings

1. `accepted_deleted`: an order accepted between the re-check and the DELETE of one
   transaction is deleted (`production.ts:797`).
2. `replayed_number`: an order deleted and made again for the same element within 24
   hours is answered the number of the deleted one, which is in the pool by then
   (`orderZleceniaModal.js:238`). The next claim of the user grants it once more, and the
   list with the later of the two orders is refused (409) as a whole.
3. `repeated_return`: a return that is sent again after it took effect, and after another run
   claimed its numbers, files them once more, and the next claim grants them a second time.
   `orderBulk.js:880` says that the repetition is a no-op ("brak dziur ani dubli").
4. `shown_replaced`: opening a document takes over the version of the copy that it shows, and an
   autosave that waits by then replaces the copy without a decision of the user
   (`draftAutosave.js:2407`, `draftSync.js:336`). `docs/SYSTEM_INVARIANTS.md:134` (I-013) excludes it.

Limits that the properties name as their exceptions, all of them in the model:

* `misplaced` collects the numbers that were stored or returned by somebody to whom they were not
  owed. `PoolIsFree`, `OwedOnce`, `OneHolder` and `CounterPassed` say nothing of them. There are
  four ways to become one:
  * the return repeated after a reclaim, finding 3;
  * a bulk run returns numbers of orders that were stored, when the answer was lost or the PUT was taken
    up late (`orderBulk.js:1069`). The pool then holds a number that an order carries, so
    "claimed = saved + recycled" (`orderBulk.js:939`) does not hold of a run whose requests are lost;
  * numbers claimed before New Year and returned after it are filed under the new year
    (`production.ts:891`);
  * `DELETE /:id` returns the number of the row that it read first, under the owner of then
    (`production.ts:1075`): of a row that is gone, that a parent's `deleteMany` leaves
    where it is, or that has changed its owner meanwhile;
* saves of offers carry no version, so a form without a lock overwrites unseen changes
  (`offerCrud.js:113`, `offers/crud.ts:119`): `OverwritesOnlyTold` is about orders;
* after a 409 the form of an order keeps its wells and takes the new version
  (`orderHelpers.js:209`): told, but not seen;
* `EditsOnlySeen` is about edits with If-Match, which the route lets be absent
  (`productsV2.ts:104-110`), although `lifecycle.ts:308` calls it required;
* a document may carry the stamp of a version that has been deleted (`ruryCrud.ts:443`), or
  cancelled after it came into force: `StampedInForce` excepts both;
* a draft that is deleted and created anew starts at version 1 again (`draftService.ts:185`):
  `born` in `ReplacesOnlyKnown` and `ReplacesOnlyDecided`;
* two requests that meet a key past its TTL may both execute (`idempotency.ts:110`):
  `stale` in `OneExecution`.

Where the model is coarser than the code:

* the editor's PUT of each axis runs inside one process-wide mutex, `pricelistLock`
  (`productsV2.ts:88`, `writeLock.ts:63`), around the mutex of the axis. The model has the inner one
  only (`SaveRowsToDraft`), so it admits more interleavings: the safety properties hold of the code
  as well, but a wait for the outer mutex is not among those of `WaitsEnd`;
* the rows of a PRECO version are in three tables, which a clone and an export read by three statements
  (`validation.ts:525-535`); the model has one value and one read (`CloneAsDraft`), so a copy that
  mixes two contents of a version under edit is not seen. No property is about the contents of a copy;
* the freshness of a row is tested in the step that reads it (`AcquireRead`, `AcquireReread`, `SaveCheck`),
  although the clock is read a moment later.

## 6. Proofs

Every invariant and every action property that a run checks, and the refinement of
`PriceList`, is a theorem: TLAPS proves it for every value of the constants, TLC checked
it, and the inductive invariant it rests on, on small instances first.

| module | theorem | states |
|---|---|---|
| `BulkGenerationProofs` | `TypeCorrect`, `LedgerCorrect`, `NoGapsCorrect` | `TypeOK`; `PoolIsFree`, `OwedOnce`, `OneHolder`, `CounterPassed` (each also by itself); `NoGaps` |
| `BulkSettledProofs` | `AllSettledCorrect` | `AllSettled` |
| `PricelistVersionsProofs` | `TypeCorrect`, `LocksReleasedCorrect`, `AlwaysPricedCorrect`, `OverrideResolvesCorrect`, `PickedPrecoKeptCorrect`, `PublishedFrozenCorrect`, `EditsOnlySeenCorrect`, `StampedInForceCorrect`, `AtomicCorrect` | the properties of these names; `AtomicCorrect` is `Spec => Promised!Spec` |
| `DocEditingProofs` | `TypeCorrect`, `LeaseHeldCorrect`, `LockKeepsOthersOutCorrect`, `VersionNamesContentCorrect`, `OverwritesOnlyToldCorrect` | the properties of these names |
| `SingleClaimsProofs` | `TypeCorrect`, `OneExecutionCorrect`, `OneAnswerPerKeyCorrect` | the properties of these names |
| `DraftSyncProofs` | `TypeCorrect`, `ReplacesOnlyKnownCorrect`, `FreshKeptCorrect` | the properties of these names |

`PriceTimelineProofs` holds lemmas only. The theorems use nothing but the named
assumptions of the modules they are about, which TLC evaluates in the runs of those modules:
`UsersAssumption`, `YearsAssumption`, `NoRowAssumption`, `RunsAssumption`,
`DeletesAssumption`, `DocsAssumption` (bulk); `TimelineAssumption`, `RowAssumption`,
`DocsAssumption`, `RequestAssumption` (price lists); `TTLAssumption`, `NoLockAssumption`,
`TabsAssumption`, `NoDocAssumption` (locks and saves); `AgesAssumption`, `NoKeyAssumption`,
`ClaimsAssumption` (keys); `BoundsAssumption`, `NoneAssumption` (drafts). They type the
constants, keep the null values apart from the records, say that an order of the bulk
generation is a position of its run, that a table of price lists is finite and that an axis
PRECO comes with the axis studnie it is exported with.

### Bulk generation

Type correctness is not inductive alone: a PUT writes `claimed[d]` into a row, and
that is a number only because a request exists for chunks already claimed.
`IndInv` adds `RunsOK`: a run that still claims has no request on its way, no stored
order, and numbers for the chunks behind it (`ClaimingFresh`), a run that saves has
numbers for all its positions (`SavingClaimed`), so has the run of a PUT in the
network (`RequestsClaimed`), and a stored order carries what its run claimed
(`RowsCarryClaims`).

The ledger adds `PoolLedger`, `OwedLedger` and `RowLedger`: each says of the numbers
in one place that, unless misplaced, they are in no other and at or below the
counter. A claim moves numbers from the pool, or from beyond the counter, to the run
(lemma `ClaimTakes`), a commit from the run to the rows, a return and a delete back
to the pool; each step either preserves the three or puts the number into
`misplaced`. `NothingLost` is the converse: no step takes a number out of the four
places together, and `NoGaps` follows, as a claim grants the whole range that it passes
(what it skips there comes from the pool).

`AllSettled` follows one run that loses no message (`RunSettled`), whatever the other runs lose. What is
owed to it is on orders that it believes unsaved: a claim for `n` orders is granted `n`
numbers (`ClaimedCount`, which needs the finiteness of the pool's lowest entries), and as they are
given in order, to different orders, every one of them is given (`ChunkTakesAll`, a counting
argument). Its one request is awaited, and no order ahead of the chunk that is being
saved is stored, so that a PUT creates its whole chunk and pays for all its numbers. What
is left at the end is returned slice by slice, and the slices cover it; their year is the year of the
numbers unless the year has turned. The other runs, their requests, the deletes and the edits spare a
run (`Spares`, `ClientSpares`, `ServeSpares`): they create no order of it.

### Price lists

`Inv` is `TypeInv /\ MutexInv /\ CheckInv`. `TypeInv` says besides the types that two
approved versions of an axis have different instants, and what a request has read fits its
axis. `MutexInv` says that a request past its wait holds the mutex of its axis, and a
deletion of a PRECO version that of studnie too (`Holds`). `CheckInv` is the heart: what a
request in the stage `"commit"` has checked is still true (`Checked`), although time has passed and the
other axis, the documents and the requests that wait went on. Only a commit changes rows, and a
commit on the same axis is excluded by the mutex (`CommitKeepsChecked`), so a version in force
is never taken away: a deletion leaves another that is due (`Spared`), and passing time only adds
to those that are due. `AlwaysPriced` also needs that `resolveActive` answers a version when there is one,
which is the existence of a maximum of a finite set (`MaximumExists`, by the well-foundedness of strict
inclusion on finite sets).

`AtomicCorrect`: the initial states agree, and a step of `PricelistVersions` is, under the
identity of the three variables, a commit that some action of `PriceList` permits
(`CommitImplements`: what it permits is what `Checked` says), a tick of the clock, or a stutter.

`StampedInForce` adds that a stamp names a version that there is or was (`StampsNameVersions`).

### Locks and saves

`LeaseInv` says of every word of the server that it is backed (`BackedIn`): as long as it is
younger than TTL less `MaxLate`, the row of its document is its user's, and older than the word by
no more than `MaxLate`. It says so of the lease of a page and of a grant that the page has yet to
hear, because a row may be taken between the write and the answer. The proof goes through the
statements of `acquireDocLock` one by one, each with the clock that it carries: only a row of the same
user, or one older than TTL by a cutoff that is at most `MaxLate` old, is ever taken over or removed
(`TakenFromNobody`), and a statement of the same user sets the age to at most `MaxLate`. `LockKeepsOthersOut`
follows, as the test of a save reads that row. For the versions, `IdsInv` says that a save is
known by its page and number, and `KnowInv` that a version in the hands of a form or of a
save on its way, if it is the row's, comes with the row's content, and is never ahead of the row
(`FormKnows`, `SaveKnows`): so a PATCH that passes the test of the version replaces what its
form was told.

### Keys

`IndInv` types the state and says that at most one claim and one write are awaited.
`RowInv` ties the requests to the rows: under one that executes there is a row no older than
it, unless it is past the time of reclaim or marked `stale` (`HeldIn`), and one about to take over what it read meets a row old enough
(`OldIn`). From it a takeover or a creation admits a second execution only as `OneExecution` says.
`LifeInv` follows a life of a row: before the answer nothing was told, there is one execution and
the answer is its, after it the answer is the row's (`OneLife`), unless executions have crossed.

### Drafts

`IndInv` says for every version in the hands of a page or a request which row it is of: a version
never exceeds that of the row born with it, and names a content that the page has seen or was shown if
it is the row's (`Fits`, `PageKnows`, `RequestKnows`, `Tells`). A push with that version therefore
replaces a content that was seen or shown. `FreshKept` needs what a read that goes on to delete has read.

### What the proofs changed

Three properties were false for larger values than a run had; proving them showed it:

* the property that stamped versions stay published did not see a document that is stamped
  after the check of a cancellation, with `MaxTime = 2`: `StampedInForce` replaces it, as a state
  property;
* `OneExecution` was false with three claims in the server: the deletion of a row past its
  TTL may hit the fresh row of another. That claim is `stale` now as well (`Bereft`);
* `AllSettled` said "nothing" where the turn of the year leaves numbers of the old one.

And `LeaseHeld` was false once a statement carried its clock, with the whole of TTL: a late
statement of the same user sets `heartbeatAt` back, and a row that is born aged is fresh for less.
`Leased` therefore subtracts the lateness.

### Only model-checked

`RunsFinish`, `OpensEventually`, `WaitsEnd`, `QueueDrains` and `GetsNumber`: liveness under
fairness is outside the prover. `accepted_deleted`, `replayed_number`,
`repeated_return` and `shown_replaced` are counterexamples and need no proof.

## 7. Plan

1. Done: production numbers with bulk generation, locks and saves, price lists with their abstract
   specification, drafts, idempotency keys with single claims; every safety property of
   theirs proved.
2. Abstract specifications of the other components and their refinement, proved: the table of a
   document as a register with compare-and-set (`DocEditing`), the numbers as a
   ledger of atomic moves (`BulkGeneration`).
3. `OrderList`: the cached list of pipe orders saved as a whole, 409 and 423 for one
   of many, and deleted orders that come back.
4. Deletion guards of offers and orders against documents created meanwhile; care
   cases; sessions.

## 8. Not modelled

* Of production numbers: order numbers (`claim-number`), the single POST of an order, print
  counters. Of single orders: acceptance and its withdrawal, versions (a refusal that may
  come at any time), several pages, two operations of one page at once.
* Of documents: batch PUT of well orders, lists, the POST under an idempotency key (it
  uses the two functions of `IdempotencyKeys` as the claim does). `DELETE` of a document
  is a single step, as its guards concern other tables.
* Of drafts: drafts too large for localStorage or for the server, several tabs of one
  browser, the draft of a document that has no id yet, the limit of 50.
* Of price lists: notes, audit, timestamps of activity, exports and previews beyond
  the choice of the PRECO version, and the editor in the browser, whose calls may come in
  any order here.
* Permissions are kept where a handler's result depends on them (`CanWriteDoc`).
* Not planned: rendering (PDF, DOCX, XLSX), search and caches (derived data,
  invalidated as a whole on each write), telemetry and audit (append-only), machine
  learning (numerical), scheduled jobs, and the calculators of the browser, which are pure
  functions of a form. They are most of the repository's lines.
