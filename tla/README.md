# Construct v6: a formal model

Construct v6 (this repository) keeps the money and the stock of a small business: orders with
payments and returns, a warehouse priced by FIFO lots, bank statements that are turned into
operations, transfers, plans and reports. This directory holds TLA+ models of the parts where
that can silently go wrong, the TLC configurations that check them, and theorems that TLAPS proves.

All of the models are translated from `apps/api/src` (NestJS services over Prisma and PostgreSQL)
and, for the minting of idempotency keys, from `apps/web/src/lib/api.ts`. The database runs at
READ COMMITTED; what a service does under a row lock or inside one transaction is one action, and
what it does in several statements without one is several actions that others interleave with.
`Receipts` goes one step further: there a transaction takes its row locks one at a time.

## 1. The system

| Component | State it keeps | Operations | Talks to |
|---|---|---|---|
| Warehouse (`warehouse/`, `common/fifo.ts`) | items with the caches `stockQty`, `avgCost`; lots; consumption rows; the movement journal; write-off expenses | create and Excel import, adjust, write off, set cost, sell, take back, restock, supplier return, archive, remove | called by Orders, Purchases and receipts inside their transaction |
| Purchases (`purchase/`) | purchase documents, their payment | register, void | creates and voids lots |
| Orders (`orders/`) | orders with the caches `paidAmount`, `paymentStatus`; lines with shipped, returned, cost snapshot; return events | create, update, add and remove receipt lines, pay (also by a loan), delete a payment, ship, finalize, return, cancel, reopen, remove | Warehouse, Transactions, statement lines |
| Transactions (`transaction/`) | the general ledger | create, update, delete, bulk edits; refuses entries that another component owns | written by every component |
| Accounts, transfers (`account/`, `transfer/`) | accounts, transfers of two legs | create, archive, delete; create and delete a transfer | Inbox confirms transfers |
| Bank synchronisation (`integrations/sync.service.ts`) | connections, cursor, statement lines | poll, ingest a line (adopt an entry, book it by a rule, leave it NEW) | Inbox, Rules |
| Inbox (`integrations/inbox.service.ts`) | the status and the links of a statement line | categorize, rules, attach to an order, confirm a transfer, mark as transfer, pay a plan, dismiss, undo | Orders, Transfers, Planning |
| Import (`import/`) | batches of lines from files, parsers | preview, commit, revert | Inbox |
| Marketplace receipts (`wb-receipt/`) | receipts and what they made | commit, revert | Orders, Warehouse, Transactions |
| Planning (`planning/`) | planned payments, recurring rules, the forecast | pay, revert, materialise | Transactions, Inbox |
| Rules (`rule/`) | rules | match a line (pure) | Inbox, sync, import |
| Balance anchors, reconciliation | known balances, the opening balance derived from them | set, recompute, reconcile | Accounts |
| CRM (`crm/`) | snapshots of deals, links to orders | sync, create an order of a deal, link one by one and in bulk, set aside, list discrepancies | Orders |
| Idempotency and unit of work (`common/`) | the `IdempotencyKey` table, commit hooks | reserve, evict, run, mark, cache, release | wraps every mutating request |
| Reports (`reports/`, `trade-reports/`) | none: P&L, month summary, tax section, cash flow, balance, breakdown, margin | read | the tables of all the others |
| Reference data, auth, audit, attachments, search | plain records | | |
| Web client | keys of mutations, retry policy | | the API |

### What is hard about it

- **Caches.** Quantities, average costs, cost snapshots, paid amounts, payment status, returned
  quantities: each is derived from rows that many operations change, and each operation refreshes
  it on its own.
- **Long legal sequences.** Ship, close, return, reopen, change the composition, close again,
  cancel: every step of such a sequence assumes that the tallies of the order and the consumption
  rows of the warehouse still agree.
- **Two ledgers that must move together.** Money (transactions) and goods (lots), orders and stock,
  statement lines and transactions.
- **Handlers that are several transactions.** Most of the inbox reads a line, claims it by a
  compare-and-swap, calls a service that commits on its own, and writes the line again; the process
  may die or another request may run between any two of these.
- **Reads before locks.** Removal and archiving of an item, voiding of a purchase, dismissal and
  undo of a line decide by what they read earlier.
- **Retries.** A client that got no answer sends the request again; a reservation whose owner died
  must be taken over, and no more than once.
- **Rounding.** Unit costs have more digits than money; sums rounded once and piece by piece differ.

`PROJECT.json` lists these as hazards, each with the line where it bites and the properties that
would catch it.

### What makes each component correct

- *Warehouse*: stock leaves oldest first and comes back latest first; the caches are what the lots
  say; a lot has lost exactly what its rows still have out; documents, journal and lots agree; the
  loss booked is the cost of what was lost.
- *Orders*: what is counted as delivered can be given back; the payment state follows the money and
  the net revenue; undoing an order leaves nothing of it; no bank line hangs on a dead payment
  but one whose link was written late.
- *Inbox*: the money of a line is booked once, not at all while the line lies in the inbox, and no
  entry the inbox did not make is deleted by it.
- *Idempotency*: one key, one effect; nobody is told of an effect that did not happen; every request
  ends.
- *Planning*: a plan is paid once, by money that is in the books; a rule fills a date once.
- *Accounts*: a transfer is in the books whole or not at all; operations live on accounts that exist.
- *Synchronisation*: the cursor leaves no operation of the bank behind; reloading leaves no money
  without its line. *Import*: a file is in the inbox whole or not at all, and its revert strands no money.
- *Receipts*: a document is booked once and whole; its revert takes only what is its own.
- *Reports*: they agree with one another, and with the operations behind a number; the balance sheet
  ties to the profit. *CRM*: no won sale falls out of the books unseen.

## 2. The modules

| Module | Models | State ↔ code |
|---|---|---|
| `StockLedger` | the primitives of `WarehouseService` and `fifo.ts` as operators from a ledger to a ledger | `lots` is `WarehouseLot`; `rows` is `WarehouseLotConsumption` (`batch` numbers the call that wrote a row); `item` has the two caches, the sum of the journal (`moved`) and the balance its last row states (`qtyAfter`) |
| `Warehouse` | every operation on the stock, with purchases | `stock`; `purchases`; `losses` (WRITE_OFF money); `out` is what orders count as delivered; `pending` is what an unlocked handler has read |
| `FifoAlgorithms` | the loops of `consumePlan` and `reversePlan` as recursive functions | `PlansAgree` of `MCWarehouse` compares them with the closed forms of `StockLedger` |
| `Orders` | `OrderService` over `StockLedger`, and the links of bank lines with an order's transactions | `order`, `line`, `events` (the sum of `OrderReturn`), `txs` (`bankLine`: a statement line is linked with it); `found` is the transaction that `attachOrder` or the adoption of a synchronisation has read (`FindTx`) before it links the line by id (`LinkBankLine`) |
| `OnceOnly` | what an idempotency key promises, without reservations or statements | `done`: the work done of a key; `status`: what its client knows |
| `Idempotency` | the interceptor, the commit hook, crashes, lease and TTL, the client's keys; implements `OnceOnly` | `row` is the `IdempotencyKey` table; `pc` the next statement of a request |
| `Inbox` | the life of a statement line | `line` is `BankStatementLine`, `txs` the transactions, `job` what a handler knows between two statements |
| `Accounts` | accounts, transfers, the general list of operations | `account`, `txs`, `transfers`; `job` holds what `softDelete`, `create` and `update` read before they write |
| `Planning` | planned payments, recurring rules, payment by hand, by an existing operation and by a statement line | `plans`, `rule`, `txs`, `line`, `job` |
| `Sync` | a bank connection, its cursor, the two adapters' windows, the reload of a statement | `conn`, `line`, `txs`; `run` is a `syncConnection` under way; `day` is what the bank shows; `reset` what `resetStatement` has read |
| `StatementImport` | preview, commit and revert of statement files beside the inbox, an order and the bank | `conns`, `batch`, `line`, `txs`, `paid`; `job` is what a preview, a commit or a revert has read, or how far `attachOrder` (claim, payment, look-up, link) and `markAsTransfer` (claim, transfer, link) have come with a line |
| `Receipts` | documents of goods bought for a card, lock by lock | `receipts` is `WbReceipt` with its lines (`part`: what became of each), `order`, `txs`, `line`, `req` with the locks a request has (`has`) and wants (`todo`) |
| `Reports` | the reports as operators over a ledger that actions fill | `ledger` (a bag of transactions), `order`, `category`, `onHand`, `counted` (what `softDelete` of a category has found unused); a report is an operator with the name of its method |
| `CrmMatch` | `crm-match.ts`: the pairs of a deal and an order or an income | pure |
| `Crm` | the copy of amoCRM's leads, the ties of deals to orders, the checks on won sales | `lead` is amoCRM; `conn` with its cursor; `deal` is `CrmDeal`; `sync`, `user` hold what was read |
| `InboxProofs`, `OrdersProofs`, `ReceiptsProofs` | theorems about the module of that name | |
| `StockLedgerProofs` | sums over lots and rows, and the primitives of `StockLedger`; used by the proofs about `Warehouse`, `Orders` and `Reports` | |
| `StockAndSyncProofs` | theorems about `Warehouse` and about `Sync` | |
| `RequestsProofs` | theorems about `Idempotency` and about `Accounts` | |
| `PlansAndReportsProofs` | theorems about `Planning` and about `Reports` | |
| `ImportAndCrmProofs` | theorems about `StatementImport` and about `Crm` | |
| `MC...` | instances for TLC, one for each checked module | |

`Warehouse` and `Orders` both extend `StockLedger`: two compositions of the same ledger, one with an
abstract order (`out`) and every stock operation, one with the whole order and an abstract warehouse
(`Receive`, `RemoveItem`). `Idempotency` implements `OnceOnly` (`Promise == INSTANCE OnceOnly WITH ...`;
`KeepsPromise == Promise!Spec`). The other modules meet in the tables: `txs` and `line` are in six of them, each with the
fields its component reads and with the others' writes to them as actions of their own (`Erase`,
`Book`, `Undo`, `EnterByHand`).

### Abstractions worth knowing

- **Moments.** A lot's date is the number of lots so far, ties and backdating included; no other
  use is made of dates there.
- **Plans in closed form.** `Take` and `GiveBack` say what each lot or row contributes to a plan,
  without a loop; `PlansAgree` compares them with the loops on every ledger of three lots or three rows.
- **Locks.** A method that locks the item (`lockForUpdate`) or the order (`FOR UPDATE`) and then does
  all its work in that transaction is atomic, except in `Receipts`, where each lock is a step.
- **Orders** have at most one line per name in `Lines`; prices are constants of the line. Looking a
  transaction up and linking a bank line with it by id are two steps, and nobody asks in the second whether it was
  deleted in between; any kind but COGS and WRITE_OFF may be linked, as in `findManualTwin`.
- **Inbox.** A transfer is one record (its legs are created and deleted together; `Accounts` shows that
  they are). A read that the next statement repeats as its own condition is not a step. Whether an
  arriving line is adopted, booked by a rule or left is a choice; the search for an entry to adopt and
  the adoption are two steps, as in the code. The fingerprint is read in the step that books.
- **Idempotency.** Time is two thresholds: the lease (10 minutes) runs out only on a request that is no
  longer running (a transaction is cut off after 15 seconds), the TTL (24 hours) only when none is.
- **Sync.** A day is the grain of time; the lines of one answer are taken in any order; all operations
  have one amount, so that any entry by hand may be taken for any of them.
- **StatementImport.** One account and one order, rows worth 1, no two rows of a file alike (the unique
  index refuses such a file as a whole). Attaching and marking as a transfer take a step per transaction, with a
  revert wherever it fits between them; `categorize` and `undo` are one step here, since `Inbox` takes their statements
  apart. A payment is looked for by its amount, which tells rows apart.
- **Reports.** A date is a day of the business's time zone; every date is in the past. Money and
  unit costs are whole numbers of one unit, the last digit that a unit cost is kept in. What the code rounds to that digit or
  to a share is rounded the same way: `unitCostAtSale`, shares, taxes. The rounding of `costAmount` to money is left
  out: the amount is stored once and read with both signs, so it cancels between profit and stock; and so is `toFixed(2)` of
  a report. An order is one line of one item; orders are not deleted, items and accounts not archived.
- **CRM.** A page is cut from the list by offset; leads changed in one second come in the order of
  their ids; `PageLimit * MaxPages` covers what changes within `Overlap`, as the 40 pages of 250 leads
  are meant to; the first reading (180 days) is the beginning. The list of won sales without an order is asked for the sales
  closed `since` a time (90 days ago by default); `since` is any time here, and an older sale is on no such list. The fields of
  a won lead do not change without its stage. A status written by a synchronisation that was
  under way when the owner switched the connection off may switch it on again, as in the code.
- **Receipts.** Lines are one unit at price 1; stock older than the documents is always at hand, so
  that a closing may or may not take a document's lot; the own lines of an order ship at its closing.
  `Rollback` is a refusal, a failure, a timeout and the victim of a deadlock. Purchases take the same
  locks as a document of stock alone and are left out.

**Ghost variables.** Some sets are in no table and no guard reads them: `astray` and `for` (Inbox),
`raced` (Accounts), `raced`, `borrowed` and `erased` (Planning), `missed` (Sync), `lost` (StatementImport), `slipped`
(Crm), `touched` (Receipts), and the field `late` of a transaction (Orders). Each names exactly the rows for which a
documented race has happened; the properties except them and nothing else, and a property without the exception stands
beside each and is violated (`OneBookingPerLine`, `NoLineHeldByDeletedTx`, `NoOrphans`, `PaymentIsOurs`,
`PaidMeansMoney`, `NothingMissed`, `NothingEverStranded`, ...). In particular:

- `raced` (Planning): plans that a reversal reopened although it had read another payment of them. `borrowed`: plans linked
  with an operation that was not free at that moment: deleted since it was looked up, the unsettled booking of another
  handler's line, or made to pay another plan. It is the link that puts a plan there: `Withdraw`, the compensation that deletes
  the booking by id, marks nothing.
- `late` (Orders): the link was written after the transaction had been deleted.
- `lost` (StatementImport): rows whose line a revert deleted although the line had been booked since the revert read it or
  was in the hands of an attachment or a transfer, and rows one of whose attachments found two payments to choose from.

Operators whose comment begins "A fault for mutation" are not part of any specification: they are
plausible bugs, each of which makes a property fail.

## 3. What is checked

Every run passes; all searches are exhaustive, `inbox_once` up to its constraint. The numbers are distinct states.

| Run | Instance | Shows |
|---|---|---|
| `warehouse` (613k) | one item, two lots at prices 0 and 3, two order lines, one with a unit delivered before lots existed, a purchase, a handler that reads before it locks | `BooksMatchLots` (caches, journal and booked losses follow the lots), `LinesReversible`, `LotLedger` (lots, rows and purchases agree), `FifoDiscipline` (oldest first out, latest first back), `PlansAgree` (the loops) |
| `orders_goods` (268k) | two orders, two stock lines of one item, two lots at two prices | `DeliveredIsReversible`, `SnapshotIsFifoCost` |
| `orders_money` (502k) | one order with two stock lines and a receipt line (neither stock nor service: shipped by hand), two payments or refunds, a handler that links a bank line | `OrderAddsUp` (sums, payment status, return events), `HeldOnlyByLateLink`, `UndoneLeavesNothing` |
| `idempotency_once` (32k) | four requests under one key, two bodies, crashes, lease, TTL | `AtMostOnce`, `SuccessIsTrue`, `Answered` (liveness), `KeepsPromise` (refinement of `OnceOnly`) |
| `inbox_once` (2.18M) | a credit (with or without an acquirer's fee) and a debit of two accounts, two handlers, two transactions, one of them perhaps by hand | `BookedOnce`, `InboxIsUnbooked`, `ForeignSurvives` |
| `accounts` (215k) | two accounts, two handlers, four operations, one transfer with or without a fee | `TransfersWhole`, `OrphansWereRaced` |
| `planning` (3.48M) | a rule and a plan by hand, one date, a line, two handlers, two operations | `PaidOnce`, `PaidIsPaid`, `LinkedSurvives` |
| `sync` (960k) | two operations, two overlapping runs of an Alfa connection over three days, one fault, one command of the owner | `NothingLeftBehind`, `Arrives` (liveness), `ReloadIsClean` |
| `import` (2.43M) | two overlapping files and a batch of the former kind, two handlers, three operations; the shared row is also the bank's and the one people pick | `NothingStranded`, `PaidIsCurrent`, `ImportsWhole` |
| `reports` (44k) | two orders, three documents out of a dozen around the end of a year, the regrouping or removal of a category counted as one, a mark, and deletions of what was entered or paid | `SummaryAddsUp`, `ReportsAgree`, `TaxSectionAgrees`, `DrillDownMatches`, `BalanceTies` |
| `crm` (1.03M) | two leads, pages of one, two synchronisations, two people, two orders, two failures or crashes | `NoSaleLost`, `CatchesUp` (liveness), `BulkDisplacesNothing`, `SuggestionsAreSound` (every pair of deals and orders of a small set of fields) |
| `receipts` (1.46M) | documents over two orders and two items, two requests, two operations, two things people do to orders and operations, one statement line that comes at any moment | `BookedWholeAndOnce`, `RevertTakesItsOwn`, `SortedLocksNeverBlock` |

### Bounds, and why they are enough

- Warehouse: FIFO needs two lots to have an order; `PlansAgree` covers three. Two quantities per lot
  give partial consumption; prices 0 and 3 with two ledger units to the smallest coin
  (`MoneyUnit = 2`) give the zero-cost path of `setCost` and a rounding that is not exact. Two consuming
  calls (`MaxBatches`), so that a return meets rows of two sales. The run has no supplier, so every lot is anybody's;
  that the lots of the supplier go back first, `PlansAgree` checks over its three-lot ledgers, where each lot is of a
  supplier or of nobody, and `StockAndSyncProofs` proves for any suppliers.
- `MaxTxs` in Orders: two money rows, a payment and a refund or another payment; deleted rows count,
  so every history of two rows is there. One handler with a bank line in hand (`Handlers`) meets every other operation of the order.
- Two handlers (Inbox, Accounts, Planning, StatementImport, Receipts): a second one gives every race
  with the first, since every write is a single statement or a transaction. Handlers are
  interchangeable (symmetry); lines, orders and items are not.
- Inbox: two lines are the most a handler takes; two transactions are the booking and the double
  booking. A line booked, undone, and booked by a third transaction does not fit: `InboxProofs` has no
  such bound for what it proves. The constraint `OneOnTrack` ends a history when both lines are astray: `astray` only grows,
  and `BookedOnce` and `InboxIsUnbooked` say nothing of such lines; `ForeignSurvives`, which does not ask, is
  checked up to there and proved beyond.
- Sync: three days with portions of one day give a portion, a closed day and the current day; the
  second run gives the overwritten cursor. One fault and one command, at any moment.
- StatementImport: two files that share one row and differ in another; three batches give a
  re-import after a revert. People pick the lines of one row and the bank brings the same one (`PickedRows`,
  `BankRows`): the row that both files hold; the other row makes the files different.
- Reports: the dates are the edges (the last day of a year, the 15th and the end of February, the day
  after a closing); three documents give every pair and one more. A category that is regrouped or removed counts as a
  document: it needs one row under it, and leaves room for another. A deletion leaves room again: a payment, a refund
  and the deletion of the payment leave an order REFUNDED. Unit costs are such that two units have an average that is not whole.
- Crm: pages of one lead make every change of a lead a change of pages; one lead is there from the start, the other is
  entered while pages are read.
- Receipts: two orders and two items, listed out of order by one document, give every cycle two requests can
  close; two documents give one number twice and one expense twice. Two acts (`MaxActs`) close and reopen an order, or
  book and undo a line; reverts are not counted, and the line comes by itself.
- Idempotency: a reservation, its evictor, a late retry and one with another body.

`CHECK_DEADLOCK FALSE` is set everywhere because the bounds stop every model in the end, and because
an idle server is a legitimate state. (Deadlocks between row locks are states of `Receipts` in which
requests wait for each other, not deadlocks of the model: `Rollback` ends one.)

### Fairness

- `idempotency_once`: weak fairness of `Serve(r)`, the next statement of a request that is being
  served. Node runs every ready continuation and the driver ends every statement with a result or
  an error. Nothing is assumed of clients, crashes or time.
- `sync`: weak fairness of `Serve(r)`, the steps of a run from the reading of the connection to its
  end. The hourly cron comes again and again and also takes connections in error; faults are bounded
  by `MaxFaults`, since nothing arrives through a bank that always fails.
- `crm`: weak fairness of the disjunction "some synchronisation works": the cron comes every ten minutes
  and every call is answered; which synchronisation goes on is not said.

### Configurations outside the regular runs

They reproduce observations: each names a sentence of the repository that what the code does may
violate, and TLC finds the violation.

| Configuration | Property | What happens |
|---|---|---|
| `Warehouse_remove` | `NoStockOnDeletedItem` | `remove()` checks the quantity without a lock and deletes by id: a purchase in between leaves stock on a deleted item |
| `Warehouse_archive` | `NoStockOnArchivedItem` | an item archived while empty is stocked again, and the stock report hides it |
| `Warehouse_setcost` | `ReturnedAtSnapshotCost` | units come back at the lot's present price, not at the price they were sold at |
| `Orders_paid` | `PaidNeverNegative` | `returnItem` caps a refund, `deletePayment` does not look at refunds: pay, refund, delete the payment |
| `Orders_cogs` | `NetCogsNonNegative` | returns rounded one by one exceed the cost of goods rounded once |
| `Idempotency_direct` | `AtMostOnce` | `TransactionService.create` writes money outside `uow.run`: a crash after the commit, a retry after the lease |
| `Idempotency_replay` | `SameResponse` | a retry between the commit and the caching of the body is answered with null |
| `Idempotency_web` | `OneEffectPerOperation` | the client mints a new key for a repeated operation |
| `Inbox_double` | `OneBookingPerLine` | `markAsTransfer` and `confirmTransfer` return the line when a step *after* the creation of the transfer fails; `dismiss` and `undo` write by id after a read |
| `Inbox_fee` | `NoFeeWithoutPayment` | deleting a payment leaves the acquirer's fee behind |
| `StatementImport_double` | `BookedOnce` | a row booked of a file is booked again when the bank brings it: `findManualTwin` looks among operations without a line |
| `Sync_reset` | `HandSurvives` | reloading a statement deletes an operation entered by hand that a line had adopted, which the comment at `integrations.service.ts:219` and a test's name say it does not touch |

Properties without a configuration of their own, stated in the modules and violated: `NothingToPayIsPaid` of `Orders` (an order
created with nothing to pay is UNPAID until the first refresh) and `NoLineHeldByDeletedTx` (a payment deleted between its look-up
and the link of the line holds that line); `NoDeadlock` of
`Receipts` (inserting a line takes FOR KEY SHARE on its item before the items are locked in order, against the "анти-deadlock" comments of
`wb-receipt.service.ts:137` and of purchases), `RevertedIsGone` (an `order.update` with items deletes the line a document is tied to, by
`ON DELETE SET NULL`; the revert then leaves the goods in the order), `NoLineHeldByReverted`; `NoOrphans` (Accounts),
`PaymentIsOurs`, `DeletedRuleIsQuiet`, `PaidMeansMoney` and `WithdrawsItsOwn` (Planning: the compensation of
`payPlannedFromLine` deletes by id an operation that another plan may have been linked with), `NothingEverStranded` (StatementImport: a revert between
the claim of a line and its payment deletes the line, and the payment is made all the same), `NothingMissed` and `ReloadIsAlwaysClean` (Sync: a line
booked between the reads and the writes of a reloading), `BalanceTiesExactly` and `TaxSectionSeesPayments` (Reports: a bank payment of the first half of
February for December is in the P&L and not in the tax section).

What `BalanceTies` excepts is written out in `Outside`: money no report calls profit, tax paid for no month or due for
an earlier year, overpayments, the discount of an order that is returned whole, goods shipped
by an order still open, and orders whose paid sum is negative (a payment deleted after its refund): they are REFUNDED, so
`receivables` lists neither what a closed one is owed nor, for an open one, what was paid back. Beyond that it leaves room
for the rounding of `unitCostAtSale`: half of the last digit for each unit that customers have.

Seen while modelling and not stated as properties: `link`, `createOrder` and `setDismissed` of the CRM read a deal and
write it by id, so a later one overwrites an earlier one, and two bulks may tie two deals to one
order; a document whose order was deleted cannot be reverted; the process may die between the
claim of a line and its payment, and nothing returns that line to the inbox.

## 4. What is proved

`RequestsProofs` has two parts. Of `Idempotency`, for any requests and keys, if the handler works in `uow.run` (`InUow`):
**`SafeReservation`** (`AtMostOnce`: the work of a key is committed at most once in its TTL),
**`Truthful`** (`SuccessIsTrue`: nobody is told of work that is not committed, or of other work than was asked) and **`Refinement`**
(`Spec => Promise!Spec`: every step, crashes, takeovers and expiries included, is a step of
`OnceOnly` or invisible to it). `AtMostOnce` alone is not inductive: another request might be in its handler while the work is
committed. The invariant says who holds the row of a key: a request in its handler owns a fresh row that
is not completed and nothing is committed under the key; committed work has a completed row that has
not expired, with the hash of what was asked; a request past its handler has committed or still owns
the row it releases. Without `InUow` the theorems fail (`Idempotency_direct`).

`InboxProofs`: all three properties of the run and the unique indexes, for any lines, accounts,
handlers and bounds, with no assumption but `InboxAssumption` (fee lines are credits, no line is of the
account without statements or of the outside, the bounds are naturals). **`TablesKeepShape`**: the links of lines point at
transactions, no two lines of an account have one transaction, no two live transactions share a
fingerprint. **`ForeignEntriesSurvive`** (`ForeignSurvives`): no statement of a handler deletes an entry that was not made of
a line. The invariant `IInv` adds to the types what handlers hold between statements (`Hands`: lines of different
accounts; the payment found, the transfer made, the entry to delete exist and are of the right kind)
and who made what a line has (`Own`). Since a transaction is never removed and never changes its kind,
its lines or its fingerprint (`Grows`), knowledge of one does not go stale.
**`LinesBookedOnce`** (`BookedOnce`) and **`InboxHoldsNoMoney`** (`InboxIsUnbooked`) need to know who holds a line. `BookInv`
says of every line that did not go astray: its money, if it has any, is what it is linked to (`RowsOk`); a
handler that claimed it finds it as it left it and knows what it has booked of it so far (`Claims`); no
two handlers hold it (`OneHolder`); and a handler believes only what its first statement let pass (`Reads`). Each
statement that breaks one of these does so to a line it puts into `astray`: the proof confirms that the races
named there are all there are.

`ReceiptsProofs`: all three properties of the run, for any documents, orders, items, lines, requests and
bounds, from `ReceiptsAssumption` alone (and, for the locks, that ids are bounded: a table is finite).
**`BookedOnceAndWhole`** (`BookedWholeAndOnce`), **`TakenBackAlone`** (`RevertTakesItsOwn`) and
**`NeverBlocked`** (`SortedLocksNeverBlock`). `BookedWholeAndOnce` is not inductive: a request acts on what
it read before it had its locks. `Jobs` says what of it is still true then: the operation to link was
made by no document and has the sum unless people touched it (`CommitJob`); a line of an order that a
revert does not know is lost to the document, and the expense it will delete is the one the document
made (`RevertJob`). `Drift` collects what no step undoes, and one lemma (`JobKeeps`) shows that the jobs of
the other requests survive any step that drifts; `LotsSold` (the lots an order took are sold, and to it alone) is what
keeps the reopening of an order away from documents that were taken back. For the locks, `LocksInv` says that all a
request still wants lies beyond what it holds for update; of a circle of waiting requests `NoKnot` takes the
greatest item that is waited for, whose holder must wait for a greater one, then the greatest order,
the operations, the documents. The proof shows as well why it stops at locks for update: a FOR KEY SHARE
lock is taken as lines are listed, and nothing orders it.

Of `Accounts` (the second part of `RequestsProofs`): **`Whole`** (`TransfersWhole`) and **`OrphansRaced`** (`OrphansWereRaced`), for any accounts, handlers
and bounds. The danger is a handler that read earlier that an operation is no leg and moves it, or counted
the operations of an account and deletes it. `Hands` keeps the first true (no operation joins a transfer
later); `InStep` and `Complete` say that the legs of a transfer live exactly while it does and that none is missing, and
one lemma carries both over every step that touches only operations outside transfers (`Loose`).

Of `Planning` (the first part of `PlansAndReportsProofs`): all three properties of the run. **`PlannedAndPaidOnce`** (`PaidOnce`), **`PaidHasMoney`** (`PaidIsPaid`)
and **`LinkedOnlyUnlinked`** (`LinkedSurvives`). Reverting works by what was read before the compare-and-swap; the invariant says
what of it is still true (`Hands`: of an operation created for the plan that it is the plan's, of a linked
one that it is not), that `auto` tells the two apart (`PaidRows`), and that a plan no reversal raced over has no
other live payment than the one it points at (`Alone`). `PaidIsPaid` needs an invariant of its own (`MoneyInv`): a plan that is PAID and not
`borrowed` has an operation of its own, alive unless the list of operations erased it; and what a handler has booked and not
settled yet pays no other plan than a borrowed one. So the deletion by id in `Withdraw`
takes the money of borrowed plans at most.

Of `StatementImport` (the first part of `ImportAndCrmProofs`): all three properties of the run, if handlers are finitely many and `"hand"` is no row of a
file. **`RevertsWhole`** (`NothingStranded`), **`PaidStaysCurrent`** (`PaidIsCurrent`) and **`ImportedWhole`** (`ImportsWhole`). A revert deletes the
operations it read and computes the order again only if it read a payment then; `Hands` says that what it
read without a payment is still without one, and that what an attachment or a transfer is about to link is of the row it claimed;
`Grips` that a claimed line has left the inbox without an operation, that one handler at most has it, and that
its row is in `lost` once a revert took it away; `Rows` and `Entries` that the operation of a line is of the line's row,
`Spare` that the connections handlers are still to make have a number.

Of `Sync` (the second part of `StockAndSyncProofs`): **`CursorLeavesNothing`** (`NothingLeftBehind`) and **`ReloadLeavesNoMoney`** (`ReloadIsClean`), for both adapters, any windows
and any lateness of the bank that the look-back allows for (`SyncAssumption`: none for Alfa, which does not
look back). A run writes a cursor it computed when it read the connection: `Covered` says that what lies
behind that cursor has its line or is still in the hands of the run, `Clock` that no cursor has passed today (Alfa: a
day that is over), so that what the bank shows late is behind none. Proving it showed a mistake in the
model that no run had room for: a run that adopted two entries kept the first one in mind. `twin` is now
cleared after each, and the invariant was checked with room for two entries as well.

Of `Warehouse` (the first part of `StockAndSyncProofs`): all four properties of the stock, for any items, suppliers,
order lines, handlers and prices, from `WarehouseAssumption` alone: **`LotsAccountedFor`** (`LotLedger`), **`BooksFollowLots`**
(`BooksMatchLots`), **`ReturnsCanBeServed`** (`LinesReversible`) and **`OldestOutLatestBack`** (`FifoDiscipline`). They are about
sums over lots and rows, which the library folds recursively over finite sets. `StockLedgerProofs` begins with a theory of
such sums; where one would use induction, a lemma looks at a smallest set it fails for (`Smallest`, from the
well-foundedness of finite subsets). `Greedy` says what a plan of FIFO takes in all, in any strict order: what is needed,
or everything there is; it is used for consumptions and, with the order turned round, for reversals. Then each
primitive of `StockLedger` goes from a sound ledger to a sound one (`Sound`: lots and rows add up, a row is
of the item of its line, no two rows share batch and lot, caches and journal follow). The invariant (`Inductive`)
adds that lots live as long as their purchases (`Bought`), that losses are those of the write-off batches (`Booked`) and that
the rows of a line sum up to what it has out (`Delivered`). The last holds only while the item is there: a return
to a deleted item is a bare movement, and nothing restores an item. `FifoDiscipline` needs the invariant too: that the rows a
step adds are those with a new batch, and that a sale always takes rows of its own item.

`OrdersProofs`: all five properties of the two runs of `Orders`, for any orders, items, lines, prices, costs, amounts
and bounds: **`DeliveredCanComeBack`** (`DeliveredIsReversible`), **`MarginFollowsFifo`** (`SnapshotIsFifoCost`),
**`OrdersAddUp`** (`OrderAddsUp`), **`BankLinesAreFreed`** (`HeldOnlyByLateLink`: every deletion frees the line, so only a link written later is left) and **`UndoIsComplete`**
(`UndoneLeavesNothing`). All but the bank lines need more than themselves: the payment state depends on returns, returns on what was shipped, what can come
back on the rows, and what undoing an order leaves on all of them. `IInv` has two halves. `Tables` says of each order (`OrderOk`)
that its sums, its payment state, its lines and their events agree with its transactions, that a closed order has
shipped everything and that an undone one has nothing out and no live cost; `Goods` says that the ledger is `Sound` and each
line is `Served`: its rows sum up to what it has out, at the cost its snapshot says. `Served` needs the item to be there, as
`Delivered` does. Two things make the proof long. Money is a sum over a growing log of transactions, so `Added` and
`Deleted` say what an action's entries change in the sums of its order, and `Changes` that it touches nothing of any
other. And closing an order (`SellRemaining`) or undoing it works through its lines, each on the ledger the one before
left. A fold over a list cannot be unrolled by induction here; `Courses` gives the ledgers in between instead, and what holds of
all of them (`Selling`: the lines behind have all they need, those ahead are untouched, and the stock still covers what they
wait for; `Backing` likewise) is shown by looking at the first line it would fail for. `Selling` is where the check
of `finalize`, that the stock covers the order as a whole, turns into the fact that no line of it runs short.
`OrdersAssumption` asks that an order lists a line once and that lines are of one order (`orderItem` rows with
an order each, `sortItemsForLocking` orders them); `Suppliers` is the parameter of `StockLedger` that orders do not use.

Of `Reports` (the second part of `PlansAndReportsProofs`): four of the five properties of the run, for any accounts, categories,
groups, operations, transfers, orders, prices, discounts, days and bounds, from `ReportsAssumption`: the sets are finite,
what is entered has the types and kinds the API admits, a category starts in a bucket allowed for its kind,
and something is asked for on some day. **`TilesSumToTheirNumbers`** (`DrillDownMatches`), **`AccruedIsTaxSection`**
(`TaxSectionAgrees`), **`SummaryIsTheProfit`** (`SummaryAddsUp`) and **`ReportsAlwaysAgree`** (`ReportsAgree`). A report writes
nothing, so most of this is about operators on well-typed tables; the invariants are `TablesTyped` and, for the cash
reports alone, `TransfersCancel` (the legs of transfers sum to nothing, which is why a consolidated report may leave them
out). The ledger is a bag: `Weigh` is what a set of rows is worth in it, and what an entry or a deletion does to
it. Four facts carry the rest. *Tiles*: the list chooses rows by category and kind, the report by the bucket it gives each
row; case by case over the kinds they choose the same. *Calendar*: months tile the days (`MonthOf` is
monotone and a month's days are its own), so a period of whole months is the disjoint union of its months and the
sum over it the sum of theirs, and quarters of months likewise; the tax a month is given by its payments lies at most
62 days after its end, which is inside the window of every report that holds it, and within the tax section's 32 days
but for the named exception. *Largest remainder*: floors leave less than one unit per part, the ranks
by remainder are a permutation, so as many units are handed out as are missing, at most one to each. *Clients*:
orders are the disjoint union of those of each client.

Of `Crm` (the second part of `ImportAndCrmProofs`): **`SalesAreNotLost`** (`NoSaleLost`) and **`BulkReplacesNoOrder`**
(`BulkDisplacesNothing`), for any finite set of leads, any orders, synchronisations and people, any size and number of
pages and any overlap. `NoSaleLost` speaks of the cursor, and of the two kinds of sales no list need show (the paid order deleted; without an order and
closed before the time the list is asked for); the invariant speaks besides of every synchronisation under way that
may write one. For each lead that did not slip it is `Safe`: the lead is copied as it is, or among the entries still to be
stored, or changed late enough that this reading or the next one will come to it (`Ahead`). `Clocked` (nothing read
is later than the last change) makes a lead that changes now late enough for all of them, and `Place` is monotone in the order
of the list (`PlaceOrder`): what precedes an entry of a page is on that page or on one already read. The attempt showed that the
exception `slipped` had been drawn too narrowly. It named the leads whose change moved them to a page already read, but
a lead may change *on* such a page and stay there, while another lead entered much later takes the cursor past it; with both
leads in amoCRM from the start the run had no room for that. `slipped` now takes in what a page passes over (`PassedOver`), the run
begins with one lead to be entered later, and without that exception TLC finds the case.

Only model-checked: `BalanceTies` of `Reports`; `Answered`, `Arrives` and `CatchesUp`, since
liveness under fairness is beyond the prover; `PlansAgree` and `SuggestionsAreSound`, since what a loop computes for
every input needs induction over data (the theorems about plans are about their closed forms). `BalanceTies` is stated for
an instance: `Outside` names tax that is paid for no month, and a month before or after the calendar would have to join it, amounts would have to
be positive, and the cost of every unit, with its roundings, be followed through stock, orders and write-offs.

## 5. What is not modelled, and why

- Parsers of statement files, HTTP clients, the translation of banks' and amoCRM's answers, exports:
  translation without state of its own.
- The screens of the web client (two thirds of its lines): React components that show what the API
  returns and send what a form holds; only the minting of keys and the retry policy are modelled.
- Authentication, roles, workspace guards: stateless checks before a handler.
- Counterparties, budgets, audit, attachments, search, health: plain records and read-only queries.
- Of modelled components, what their entry in `PROJECT.json` names: the payment schedule of an order,
  supplier debts, the forecast, P&L by payment of the tax, margin by product, comparison periods, and what the removal of an order or the archiving
  of an item or an account does to a report.
- The rules engine: its outcome is a choice in `Inbox`. Balance anchors: see the plan.

## 6. Plan

Built: every module above. What would come next:

1. `BalanceAnchors`: the opening balance from competing anchors, against a reference definition.
2. `Rules`: `engine.ts` as a function against a reference definition.
3. The payment of suppliers beside the void of a purchase; the locks of purchases and closings in one
   module with `Receipts`.
4. Theorems: `BalanceTies` of `Reports`, with the cost of the stock as part of the invariant.
