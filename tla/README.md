# A TLA+ model of the POS backend

This directory specifies and verifies the parts of the backend (NestJS, Prisma,
PostgreSQL) whose correctness depends on what runs at the same time, or on the order in
which requests come: stock, the payment of a sale, returns, stock documents, tables and
kitchen, purchasing, and rental units. Paths are relative to `src/` of the repository;
modules of the server are under `src/modules/`.

Notation: a *handler* is one HTTP request or webhook. It is an asynchronous
function that reads rows, opens a Postgres transaction at the default READ
COMMITTED level (`PrismaService.$transaction`), and is interleaved with every other
handler at each statement. Only `inventory.service.ts` asks for Serializable, and
only the stock engine uses `SELECT ... FOR UPDATE`.

## 1. Inventory of the system

| Component | State | Operations | Hard behaviour | What makes it correct |
|---|---|---|---|---|
| Stock mutation engine (`inventory/stock-mutation.engine.ts`) | `stock_levels`, `stock_ledger_entries`, `inventory_idempotency`, batches, serial units | `mutateInTx`, `consumeForParent`, `restoreForParent`, `adjustReserved` | concurrent sales, retries, deadlocks, refused lines | ledger explains quantity, no oversell, exactly once, serialisable |
| Stripe payments (`payments/stripe.service.ts`, `payments.service.ts: applyProviderStatus`) | `payments`, `stripe_webhook_events`, the intent at Stripe | create intent, verify, webhook | duplicated, reordered, delayed events; crash between steps | a success is recorded once and kept |
| Prepared sale (`pos/pos.service.ts: prepareSaleCheckout, finalizeStripeSale, cancelPreparedSale`) | order status, `meta.awaitingStripePayment`, balance | prepare, finalize, cancel | three callers of finalize; cancel against pay | goods leave once, closed means paid and taken |
| Tenders and refunds (`payments/payments.service.ts`, `customers.service.ts: adjustStoreCredit`, `loyalty.service.ts: redeemGiftCardInTx`) | payments, store credit, gift cards | create, confirm, refund | overpayment, double refund, lost update of credit | refunds never exceed the payment, wallets agree with payments |
| Register (`pos/pos.service.ts`) | register sessions | open, cash movement, close | a payment meets the count | counted cash is all the cash |
| Sale returns (`pos/sale-returns.service.ts`) | returns, stock, refund | return, exchange, approve, reject, complete | two returns of one sale, retries, crash half way | nothing comes back twice, completed means refunded |
| Stock documents (`inventory/inventory-lifecycle.service.ts`, `stock-adjustment.service.ts`, `inventory-ops.service.ts`, `enterprise/enterprise-inventory.service.ts`) | reservations, transfers, adjustments, counts, levels | create, issue, receive, cancel, finalize, count, produce | status read without a lock, absolute writes | stock is explained by the documents |
| Restaurant (`restaurant/restaurant.service.ts`, `gst-orders`, POS at a table) | tables, dining orders, kitchen tickets, guest orders | open, send, bill, merge, split, move, void, tidy | two waiters at one table, failures between two transactions | table and order point at each other, cooked once |
| Purchasing (`suppliers/suppliers.service.ts`) | purchase orders, receipts, invoices, credit notes | order, receive, return, invoice, pay, cancel | receipts repeated or at once, partial receipts | status, goods and payables agree |
| Rental orders and units (`orders/orders.service.ts`, `pos/rental-pos.service.ts`, `returns/returns.service.ts`, `inventory/inventory.service.ts`) | life cycle and core status, lines, `stock_units`, `stock_reservations`, return events | advance, change status, reserve, release, exchange, extend, pick up, settle, return, inspect | overlap test without a lock, five services that write the same units | reservations of a unit stay apart; order, line, unit and reservation agree |
| Accounting (`accounting/`) | journal, numbers, periods, sync queue | post, reverse, lock, sync | numbering, period closing | balanced, once per source |
| Sessions (`auth/`) | refresh tokens, one-time codes | login, rotate, revoke | token reuse, races | a token is used once |
| Offline sync (`sync/`) | offline events | push | event pushed twice | applied once |
| Approvals (`enterprise/`) | approval requests | submit, decide | two deciders | decided once |
| Loyalty, subscriptions, billing | balances, periods, invoices | redeem, renew, issue | lost updates | balances conserved |
| Pricing, tax, rounding | none | pure functions | boundaries | agree with a reference definition |
| Catalog, customers, users, IAM, reports, configuration, notifications | records | create, change, query | little | - |

How they meet: checkout, finalize, restaurant, returns and receipts all call the
stock engine inside their own transaction; every succeeded payment goes through
`afterSucceededPayment`, which recalculates the order, writes an outbox event and
posts to accounting; Stripe reaches the server by the answer to the client's verify
and, independently, by webhooks; the counter, the order desk, the returns desk and the
inventory screen write the same rental units and reservations. `PROJECT.json` lists the
hazards at their lines with the properties that cover them; section 6 lists those that
have neither.

## 2. Plan

Done, in the order of the plan:

1. **StockOps, StockEngine, AtomicStock, StockRefinement** with proofs: the engine every
   other part calls.
2. **StripeSale** with proofs: order, payments, stock and books of one sale under
   concurrent handlers.
3. **Tenders** with proofs, on **SumTheorems**: internal tenders, their refunds and caps, wallets, register sessions.
4. **SaleReturns** with proofs, **StockDocuments** with proofs: what else moves stock.
5. **Dining** with proofs, **Purchasing** with proofs, **RentalUnits** with proofs: the protocols over several
   requests that no single transaction protects.

Left, most useful first: **StripeRefunds** (the refund the server asks for against the
refund events of Stripe, and `settleDeposit` against the refund of a deposit);
**StockTracking** (batches, first expired first out, and serial units in the engine);
**Journal** (numbering, period locks, one entry per source); **Sessions** (rotation of
refresh tokens).

## 3. The modules

Two abstractions are common to all of them. First, a handler has a position `pc` and the
values it has read and still uses; what it reads before its transaction may be stale when
it writes. Second, a transaction whose statements do not depend on what another
handler could commit in between is one step; where they do (the overlap test of a
reservation, the sum of the payments, the idempotency row, the row a transfer
overwrites), the read is a step of its own.

Some of these protocols are not protected against two requests on the same row: the code
tests with a plain read, and two requests that overlap do break what the tests mean to
ensure. The properties say which rows they speak of by history variables (`raced` in
Tenders, RentalUnits and Dining, `overlap`, `lost` and `loose` elsewhere), which collect the rows
two requests worked on at once or whose state another order took away. Where a key, a
unique constraint or Postgres does protect a row, the property speaks of it without that
exception, and two requests at a time are part of the run.

### StockOps - one call of the engine

Constants: `Levels` (a row of `stock_levels`, one product at one location), `Lines`
(its bundle lines with `consumeOnSale`), `RecipeOf` (products with a recipe line:
`hasRecipeExplosion`), `Keys`, `Opening`, and `Requests`, the transaction bodies that
callers run, each a sequence of `mutateInTx`/`adjustReserved` calls. Quantities are in
base units. `Allowed` is the conjunction of the two guards of `mutateInTx` and the
`WHERE` clause of its `UPDATE`; under the row lock they read the same values.
`Mutated` is the `UPDATE` with its ledger row. `ResultOp` is the trailing
update of the idempotency row, which a call leaves behind the calls for its components.

### StockEngine - transactions

`level`, `row` are what the writer of a row sees, `dbLevel`, `dbRow` what is committed;
`lock` and `rowOwner` are the row locks and the uncommitted unique-key inserts; `tx` is
a session's position and the calls it has left.

| Action | Code |
|---|---|
| `FindKey`, `InsertKey`, `Replay` | lookup and savepoint-protected insert of the idempotency row (94-158) |
| `LockLevel` | `lockLevel` (478-516) |
| `ApplyRecipe`, `ApplyLevel` | the recipe branch and the guarded update with its ledger row (160-288); both leave the component calls of `consumeComponents` and the result to do |
| `RejectMutation` | the three refusals (199-240), which throw and roll back |
| `SaveResult` | update of the idempotency row (182-193, 290-300) |
| `AdjustReserved` | the single guarded update (951-973) |
| `Commit`, `Rollback`, `Fail`, `DeadlockVictim` | what Postgres and Prisma do (external) |

Products in this module track neither batch nor serial: `applyBatch` and `applySerial`
then return at once. A level exists before it is mutated (`ensureLevel` finds it).

### AtomicStock, StockRefinement

`AtomicStock` executes a whole request in one step on committed stock, or not at all.
`Serialisable` states that StockEngine implements it with `stock <- dbLevel`,
`answers <- dbRow`: locks, unique keys and rollback make every interleaving equal to a
serial execution of the transactions that committed. The run checks it on its instance, and
`EveryCommitIsSerial` proves it for all.

### StripeSale - one sale paid through Stripe

The variables hold committed rows. A handler (`handler[h]`) has a position `pc` and
the values it has read and still uses: this is where stale reads live. Row locks are
held where they make others wait: a payment row from its update (`payLock`) and the
stock of the sale (`stockLock`). The order row is locked by the update in
`recalculateTotals`; everything from there to the commit is one step
(`CommitPayment`, `CloseSale`, `CommitCash`, `KeepPaidPart`), because no other handler can
write the order in between, and the sum of the payments is read in a step before
(`SumPayments`, `FinalSum`, `SumCash`), because the code reads it before that lock. The
stock levels are those of one order, so one lock stands for them: all handlers take
the first line first.

`CustomerPays` and `IntentExpires` are Stripe's moves; `events` only grows, so a delivery may
be repeated, late and out of order; `Deliver` starts a webhook handler. `Crash` ends a handler
anywhere: its open transaction disappears, its committed steps remain.
`CallIntent`, `CallVerify`, `CallFinalize`, `CallCancel` and `CallCash` are the cashier's requests.

Left out: refund events, coupons, tips, invoices, the dining overlay, customer credit
limits, two orders competing for one level (StockEngine has that).

### Tenders - counter payments, refunds, wallets and the drawer

`pay` holds one row per idempotency key, for sales and refunds alike; `wallet` the two
balances that are stored as numbers, with `debits` and `topups` the sums of their ledger
entries; `sessions` the register sessions in the order they were opened. `Requests` is what clients may
ask for. A payment goes through `CallPay` (key), `ReadOrder` (the guards on the balance),
`FindDrawer` or `ReadWallet` and `Debit`, `Insert`, `Sum` and `Commit`; a bank transfer commits as
pending and is succeeded by `CallConfirm`, `Confirm`, `ConfirmSum`, `Commit`; a refund by `CallRefund`,
`CapRefund`, `RefundDrawer` and the same last three. The wallet row is locked from its update
(`walletLock`), a payment row from its insert or update (`keyLock`), both until the commit. What
the transaction writes is in `handler[h]` until then, so a crash, or a duplicate key, which
aborts a Postgres transaction, loses it. `closeRegister` counts by three queries that run at
once (`CountPart`, in any order) and then closes (`CloseDrawer`).

The code reads the balance, what was refunded, the drawer and the wallet before it locks anything, so
requests that run at once spoil each other's results. `AtRisk` says which: the look of a payment at
the balance beside any other request on the payments of the order (`<<"order", key>>`), a refund
beside another refund of the same payment (`<<"refund", key>>`), a cash payment beside a count
(`<<"count", key>>`), a drawer into which cash is moved while it is counted (`<<"drawer", session>>`), a wallet
on which two requests work (`<<"wallet", w>>`). `Request` adds them to `raced` whenever a request begins beside
others, and the properties leave out these payments, refunds, drawers and wallets, and nothing else: a
spoiled balance, for example, is later met by payments that ran alone, and those must still fit the
order.

Left out: deposits (payments with another type), qr and wallet tenders (cash without a
drawer), scoping by shop, the journal. Drawers opened by two transactions are ordered by
commit, where the code orders by the start of the transaction.

### SaleReturns - what comes back of a sale

Rows: `event` (return events by key), `refund` (succeeded refunds by key), the levels'
`stock` and `damaged`. A return goes through `CallReturn`, `FindReturn` (the idempotency
lookup), `CheckQuantity` and `CheckAmount` (what other returns and refunds leave; the refunds
are read here) and ends as `InsertRequest`, if an approval is needed, or as `CompleteReturn`; an
exchange ends as `CheckSwap` and `CompleteExchange`; a waiting return is decided by
`CallDecide`, `CheckApproval` and `MarkApproved`, `FinishApproved` or `RejectReturn`.
`Finish` is `completeSaleReturn`: refund, restock and status in one transaction, decided by
the unique key of the refund. `Crash` loses a handler between any two of these steps; a
return that was marked approved and not finished stays so, since no handler takes it up.

### StockDocuments - transfers, reservations, adjustments, counts, production

`level` has the four quantities of a stock level, every other variable one kind of
document. `Begin` is the read of a document, `Commits` the transaction of a handler: the
guard is tested on what was read (`seen`), the levels change relatively under the guards
`CanMove` and `CanReserve`. `Finalize`, `Annul` and `DeleteAdjust` respect the idempotency
keys of ledger rows (`keys`, whose `gen` is the identity of the adjustment's line, renewed
by `UpdateAdjust`). Intercompany transfers write levels absolutely (`ReadLevel`, `WriteLevel`):
`lost` collects the levels where this overwrote a change. Damage of a transfer is reported
with the receipt that completes it; otherwise the code itself accepts more than was sent.

### Dining - tables, bills, kitchen

`table` and `order` point at each other, `itemOf` puts an item on a bill, `tickets` are the
kitchen's. Every request of `restaurant.service.ts` that changes one of these is an action
pair (`BeginOpen`/`Open`, ...), with those of the counter that close, pay or discard a dining
order without the restaurant's consent (`Pay`, `Close`, `Sale`, `Discard`). What the code does
after its transaction, releasing a table (`Release`) and computing its hold (`ReadHold`,
`WriteHold`), are steps that a `Crash` may prevent. When all tables are released, the items of a
sale that were not sent go to the kitchen (`Released`), while another request may already work
on the bill; like `Start`, this step notes in `raced` the rows it shares with others. `ShowFloor` and `TidyTable` are
`syncEmptyTables`, whose writes come one table after the other.

### Purchasing - order, goods, payables

One supplier with a credit limit; `received` counts purchase units, `stock` base units
(`Per` is the factor). `Receive` decides on the quantities it read in `BeginReceive` and, by the
unique key, inside its transaction; `Return` may make a credit note. `BeginFromGrn` makes the
invoice of a receipt that has none; `BeginManual` is `createInvoice`, where the client names the amount,
perhaps a receipt, which may be invoiced already, and perhaps the number, which must be
new (`Taken`). `Pay` writes the amount paid absolutely from the value it read. `SetLimit`
is `updateSupplier`: it may set the credit limit below what is owed, and the history variable `carried`
keeps what was owed then. `Sell` is the counter, which may leave too little to return.

### RentalUnits - rental orders, units, reservations

Five services write `unit`, `order`, `itemUnit` and `holds` here: the order desk
(`BeginAdvance`, `Judge`, `Advance`, with `ReserveUnits`, `CheckoutUnits` and `ReleaseHolds`; `WriteStatus`,
`Reschedule`, `AddItem`, `RemoveItem`), the rental counter (`Exchange`, `Extend`, `Pickup`, `Settle`, `Cancel`),
the returns desk (`Return`, `Inspect`, `CompleteCleaning`) and the inventory screen (`Reserve`,
`Release`, `SetStatus`). Only `Reserve` runs SERIALIZABLE: `Serializes` is what Postgres then
ensures, namely that no other SERIALIZABLE transaction inserted what its test would have seen. Row
numbers in `holds` are the order of insertion; `by` is a history field that says which
operation made the row live. An order starts as a quote or, if it is in `Booked`, with its
units reserved.

What these services do not do is in the model because it is in the code: the test of an
order does not see reservations without a line (`NOT orderItemId = x` is not true of
NULL), `RemoveItem` leaves its reservation, `Reschedule` and `Extend` leave the dates of the
reservations, `Exchange` and `Pickup` do not test for overlaps, `Pickup` leaves the reservation of the
unit it replaces, `Cancel` and `Settle` end the reservations other orders have of their units. The
properties name exactly these exceptions.

### Faults

Operators marked *fault* (`MutatedUnlogged`, `SumWithoutOwn`, ...) are not used by any
specification. Each is a variant of the definition that follows it with a plausible
mistake; substituting it makes TLC report the property that `PROJECT.json` pairs it with,
which shows that the property depends on that piece of code.

## 4. Runs

| Run | Instance | Shows |
|---|---|---|
| `stock_sales` | `MCStock.cfg` | two sessions, three levels (recipe, bundle, shared component), two keys, five of eight transactions: no oversell, ledger chain, exactly once, recorded answers, no pending row, history kept, serialisable, every transaction ends in spite of deadlocks (289 thousand states) |
| `sale_recovery` | `SaleRecovery.cfg` | one handler at a time, two cards and cash, four requests, two crashes: order, payments, stock and books agree (376 thousand) |
| `sale_settles` | `SaleLive.cfg` | liveness of recovery after a crash (11 thousand) |
| `sale_race` | `SaleRace.cfg` | two handlers, card and cash, two requests besides webhooks, one crash: what keys and locks do guarantee, and that nobody is blocked for good (141 thousand) |
| `tenders_counter` | `TendersCounter.cfg` | two handlers, six requests of twelve kinds, one of them beside another, one crash: balance, wallets, refunds and drawer agree with the payment rows, but for what overlapping requests spoil (2.2 million) |
| `tenders_race` | `TendersRace.cfg` | two handlers, four requests that share keys, a wallet and a payment: debits belong to recorded payments, no request hangs (134 thousand) |
| `returns` | `Returns.cfg` | two handlers, five requests with three keys, one crash: nothing comes back twice, the shelf is explained, completed means refunded (34 thousand) |
| `documents` | `Documents.cfg` | two handlers, five requests on four levels, with a transfer inside a business and one across: stock and promises agree with the documents (297 thousand) |
| `dining` | `Dining.cfg` | two tables, three orders, three items, three requests, one of which may begin beside another, and crashes: tables, orders and tickets agree, an empty table reopens (496 thousand) |
| `purchasing` | `Purchasing.cfg` | one order of two products, two credit limits, a number given by a client, five requests, one of them beside another: status, goods and payables agree (951 thousand) |
| `rental` | `Rental.cfg` | two orders, three lines, two units, four requests, one of them beside another: reservations stay apart, units, orders and reservations agree (1.4 million) |
| `race_success_rewritten` | `RewrittenSuccess.cfg` | finding: pending written over a success |

Run one with `tlc -config SaleRace.cfg MCSale.tla`.

**Bounds.** Two sessions are enough for every conflict on a row, and three levels with a
shared component for opposite lock orders; five transactions allow a sale, its retries,
colliding ones and later ones. In the sale, an order of 3 with a card of 2 and cash of 2
(of which 1 is due) gives split, partial and exceeding payment; two cards give stale and
reordered events; at the counter, cash of 2, store credit of 2, a gift card of 1 and a
bank transfer of 1 against the same total of 3 give clamped, refused and exceeding tenders.
A protocol over documents, tables, purchases or rentals is broken by a handful of requests:
to open, send, merge, cancel; to order, receive, return, receive again, pay; to reserve,
exchange, cancel, reserve again. `MaxCalls` bounds them, `MaxTogether` those that begin while another
one is running, `MaxCrashes` the failures, `MaxHolds` and `MaxSold` the rows. Webhooks are not
bounded. The mutants of every property are found within these bounds. Handlers are
symmetric in `returns` and `rental`, which are safety runs; symmetry is not used where liveness
is checked. Deadlock checking is off because the bounded systems stop when their requests are
used up.

**Finding.** `race_success_rewritten` is in `PROJECT.json` with the line of the code and the
statements it disagrees with: a webhook of an earlier event writes pending over a success.

**What the code does and no run shows.** Met while modelling, and why properties have
exceptions: two deliveries that both finalize a sale consume the components of a recipe
twice, since those carry no key (`pos.service.ts:3180`); two payments at once leave a balance
on a paid ticket (`orders.service.ts:877`); at the counter two payments at once exceed the order
or spend the same store credit (`payments.service.ts:122`, `:695`), two refunds exceed their payment
(`:350`) and a payment goes into a drawer that was counted without it, all of which happen in
`tenders_counter`, where `raced` marks them; of two equal lines with a serial only one is taken
(`pos.service.ts:3239`); the exclusion constraint on reservations is made for the table
`unit_reservations` (`prisma/sql/001_reservation_exclusion.sql:3`), while the rows are in
`stock_reservations`, so that two orders that reserve one unit at once overlap
(`orders.service.ts:612`); a settled return and the settlement of the deposit can refund the same
deposit.

**Fairness.** `StockEngine!FairSpec`: weak fairness of each session's next statement and of
Postgres' deadlock detector; nobody has to begin, none has to fail. `StripeSale!FairSpec` and
`Tenders!FairSpec`: weak fairness of a running handler (Node runs it to its end) and, for the
sale, strong fairness of the redelivery of an event that is not recorded, since Stripe repeats
a webhook until it is answered with success and the server becomes free again and again.
`DiningSpec`: weak fairness of a handler, which runs on or fails, and of the floor screen,
which is polled (`ShowFloor`) and carries out what it read (`TidyTable`). Customers and
cashiers owe nothing. Crashes are bounded where they would prevent recovery for ever. The
other modules claim no liveness: a draft may stay a draft.


## 5. Proofs

Checked by `tlapm Tenders_proofs.tla` and so on; each takes a few minutes from nothing,
`EngineAndDining_proofs.tla` about ten. Every invariant of a passing run is stated by a theorem,
and so is every property of them that is not liveness.

**EngineAndDining_proofs** holds the proofs about two modules that share no name and say
nothing of each other.

**Part one, StockEngine.** For every set of sessions, levels, lines, keys and requests that
satisfies `ConstantsAssumption`, `RequestsAssumption` and `SessionsAssumption`. None of the
properties is inductive: an oversell is excluded by the guard only if the row that was
tested is still the one that is written, and that depends on the lock. `IInv` therefore
has, besides the types, `CallsOK` (what a session still has to do are calls of its request, and
where it stands fits the next of them), `LocksOK` (a session at a write holds the lock of
the row; a row that differs from its committed value is locked), `KeysOK` (a row of a key
that is not committed has an owner, who owes its result), `StockOK` (the chain of the ledger
and the bound on the quantity, on working rows and on committed ones) and `EntriesOK` (where a
key may occur in the ledgers). `Invariance` proves it; the lemmas follow its layers
(`Control`, `Locks`, `Quantities`, `Entries`), each with one step per action. From it
`TypeCorrect`, `LedgerAlwaysChained`, `NeverOversold`, `KeyedCallsOnce`, `PendingNeverCommitted` and the
action property `HistoryIsKept`.

A fifth layer, `AnswersOK`, proves `AnswersAgree` (`RecordedResult`). The answer of a
call is fixed when its ledger row is written and recorded in its idempotency row later; in
between it is a promise the session holds, and other sessions may race for the key or the
transaction roll back. `AnswersOK` relates all three, on top of `IInv`: a recorded answer and a
ledger entry of a key belong together (`MovesAnswered`, `AnswersMoved`), what a session has
promised is what its entry holds (`PromisesTrue`), and a key nobody has moved stock for has
no promise (`NothingPromised`).

The last layer proves the refinement, `EveryCommitIsSerial` (`Serialisable`), for requests of any
length. Between its statements a session has done a part of its request on rows that nobody else
sees, while others commit; the mapping has only the committed rows to show. `Serial` relates the two
without history: for some request `r`, whatever stock `s` has the committed
rows where this session holds a lock, owns a key or can see an answer (`Agrees`), to run what it has left to
do (`tx[w].todo`) on what it sees of `s` (`View`) ends where `r` ends that runs on `s` alone (`Serves`). A step
of another session keeps the rows that are held (`OthersStay`); a session's own statement does to its
view what the first call of `todo` does (one lemma per action, `FindKeyServed` to
`AdjustReservedServed`); a level just locked is the committed one, which is where serialisation would
fail if the row were read before its lock. At the commit nothing is left to do and `s` is the committed
stock itself, so that the committed rows become what `r` makes of them (`CommitExecutes`).
`Ends`, the end of a run of calls one after another, is defined by its path and not by a fold, and
`EndsUnfolded` says that a call run at once and the same call taken apart (movement,
components, record) end alike; `EndsRequest` brings the path back to the `FoldLeft` of `AtomicStock`.

**Part two, Dining.** For any number of tables, orders, items, stations, reservations, handlers
and requests that overlap, with a crash at any point. `DiningAssumption` says that tables, orders and items are
different rows, and that the tables and bills there are at the beginning agree. `TablesPointBack`
(`TablesAgree`), `CookedOnceOnly` (`KitchenAgrees`) and `DiningTypeCorrect` follow from `FloorInv`. Of the rows it
says more than the properties: `PointsBack`, `NotOffered`, `BillShown` and `OpenIsDining` of tables and bills,
`CookedOnce` of tickets, and `NothingLeft`: an order that is no dining bill, no longer or not yet, has neither
items nor tickets, so that the bill of a split begins empty. None of these is kept alone, because
a handler writes what it decided on rows read in an earlier transaction. `Does(h)` says for each position of a
handler what it has read and can still rely on, unless the row is raced; `ScreenOK` the same of
the floor screen; `RacesKnown` that two of them on one row have it, and the tables of both, in `raced`.
`Changes(W)` bounds what a step may change whose handler works on the rows `W`: these, raced ones and new ones.
By `DoesKept` such a step leaves to every other handler what it relies on, so that each action is looked at
only for the rows and for the handler that takes it. The attempt corrected the model: the items that
`ensureKotAfterSale` sends after the tables are released were not counted as work on the bill, and
a request that meets it there can send them as well; `Released` now records the meeting.

**SumTheorems.** Lemmas about sums over the rows of a table (`SumFunction` of the community
modules): what one changed, inserted or filtered row does to a sum, and how sums compare. The
library's induction theorems take the property as an operator, which cannot be
instantiated here. The set of the subsets that have the property takes its place:
`FS_StrictSubsetOrderingWellFounded` says that there is no least subset without it. Every
proof about totals below rests on `SumOneRow` or `SumChanged`. The last lemmas are about folds
over a sequence (`FoldLeft` of the community modules), which are computed on the sets of its
positions: `LeftExists` is what makes such a fold the function its recursion describes, and
`FoldPath` takes it for the end of a path with one step per position.

**StockDocuments_proofs.** From `DocumentsAssumption` (documents are finitely many, since levels are
compared with sums over them). `Kept` types levels, documents and handlers and bounds each level
(`RowOK`). What a handler has read belongs to it: a transfer inside a group writes a value
computed from a row read earlier, and it cannot write a negative one only because the row it
remembers was within its bounds. `NeverOversold` follows, with any number of handlers on the same
documents. The second layer `DInv` proves `DocumentsExplainStock` (`StockExplained`) and `PromisesKept`
(`PromisesAgree`), which are not inductive for two reasons. A transaction writes what its handler decided
on a document read before: `HandlersSeen` says that what it read is still so, or that the
document is in `raced`. And the status of a document does not determine what it moved: `Told`
relates the two (the pieces of a transfer to its status, the keys of the ledger rows to the finalized and
annulled adjustments, the counted quantity to the correction). Two finalizations of one
adjustment do race without harm, since the key lets one of them move stock. Each action then
changes one level and one document by the same amount, or two, and the sums follow.

**SaleReturns_proofs.** `CompletedOnlyRefunded`: `IInv` adds `EventsOK` and `HandlersOK` (types),
and `Sequential`, which says that while requests come one at a time a handler that
is about to finish a return finds it as it was when it was decided. Without that a crash and a
second request could not be told from an overlap.

The second layer `CInv` needs finitely many keys and levels. `Fresh` says that while requests come
one at a time a handler that is alone still sees what it compared, up to the transaction it
ends with; `Recorded` that a refund belongs to an event with an amount; `WaitingPlain` that
only a return, never an exchange, waits for a decision. `NothingReturnedTwice`
(`NeverOverReturned`) and `ShelfExplained` (`StockExplained`) follow; the latter holds of stock and damaged stock
whatever runs at once, since the unique key of the refund decides who restocks.

**RentalUnits_proofs.** `ReservationsApart`: reservations of one unit never overlap, except
those named by `BookedApart`. The overlap is tested earlier than the reservation is
inserted, so `BookedApart` alone is not kept. `IInv` adds the types of the rows, `RacedOK` (two
handlers on the same rows have both in `raced`), `HandlersOK` (what each handler has tested still holds, or
the unit is raced) and `NoQuoteHeld` (the lines of a quote have no reservation,
without which the test that skips a line's own reservation would miss one). `OtherKept` says once
what a step leaves to the handlers that do not take it; each action then has to show
only what it does to the rows.

A second layer, `HInv`, carries `ReservedUnitsAreHeld` (`ReservedIsHeld`) and `HoldsFollowTheOrder`
(`HoldsAgree`). Neither is kept alone: what ends the reservations of a line frees the unit that is on
the line, so a unit stays reserved for nothing as soon as a line has a live reservation of another
unit. `NoStray` says that it has none, but on units that are raced or that `Pickup` took off a line;
`LinesStand`, that a reservation never names a removed line; `OwnLine`, that the live reservations of
a line are of its unit and held until it is handed over, which is what makes `CheckoutUnits` and
`ReleaseHolds`, who look for held ones only, find all of them. `ReadOK` is what a handler has read
and relies on when it writes: the units of the lines, the life cycle, that `Judge` found no
reservation to reuse; it holds of an order unless the order is raced, and `Touches` is what
a step leaves of it. An earlier form of `ReservedIsHeld` failed on a sequence longer than the run's: `Pickup`
swaps the unit of a line and leaves its reservation on the old one, and what later ends that
reservation does not free that unit. The property now leaves such units out.

**Purchasing_proofs.** `OrdersReconciled` (`OrderAgrees`), from `PurchasingAssumption`; that an order
has lines is part of it, as `receivePo` refuses one without. The lines of an order are compared
with what was read before the transaction. `StateOK` says that this is still so, or that a status
decided then may still be written, unless the order is raced; `RacedOK` that two
handlers on one row have it in `raced`. With them `OrderAgrees` is inductive; `Received` and
`Returned` hold the arithmetic. `GoodsReconciled` (`GoodsBooked`) adds `AInv`: a receipt that is about to be
written has a key no other receipt has (`KeyOK`), and lines and stock are sums over receipts, returns and sales.
It needs no exception, because these writes are relative. `PayablesReconciled` (`PayablesAgree`) adds `BInv`: `MayPay` and
`MayInvoice` say what a handler that pays or invoices knows of the invoice, the receipt and the limit, unless
they are raced, and `InvoicedFirst` that an invoice made from a receipt comes before any other of it:
`createInvoice` may add more by hand at any time. Of a raced invoice it still proves that no more
counts as paid than was paid. Here too a proof attempt corrected the property: payments that race on an
invoice make the supplier's open amount larger than what was compared with the limit, and a
limit of zero means none, which the first version did not say.

**StripeSale_proofs.** `PaidIsBooked`: a succeeded payment is in the books, with any number of requests
and webhooks at once and a crash at any point. The status and the posting are written in one
transaction; the proof adds that no other write, of a status or of a list of open payments
read long ago, introduces a success without a posting (`Effects`; `HandlersOK` types what handlers
remember). Five of the others assume `OneHandler`. They need it: with two requests at once
a success is rewritten (`RewrittenSuccess`), and TLC finds counterexamples to the others under the
constants of `SaleRace.cfg`. With one, `FreshOK` says that what the handler read is still so,
whatever crashed before it and in whatever order events come; `BooksOK` then keeps entries and
announcements equal to the succeeded payments, and `OrderOK` keeps a cancelled order apart from
one whose goods left. `BalanceIsRight` (`DueAgrees`) and `NothingOwedOnceClosed` (`ClosedIsPaid`) add `MoneyInv`: the
sum a handler read of the payments, before it locks the order, is the one its commit
leaves (`SumsOK`), and a closed order keeps its payments because a success is kept.
`TakenOnce` (`StockOnce`) holds however many handlers finalize at once. The stock is a fold over the
lines (`StockAfter`): `FoldTakes` says that it takes every line once from a start where none is
taken, `FoldReplays` that it takes nothing where all are. `ServeInv` says that one of the two is always
the case, and that whoever is past the lines holds the lock of their levels, so that they are still
there when it closes the sale. Two assumptions are needed, because the code really takes a line
twice, or skips one, without them: no two tracked lines share level and quantity
(`DistinctLines`), and there are no lines of recipes, which carry no key, unless requests come one at a time.

**Tenders_proofs.** From `TendersAssumption`: finitely many keys, and a mark for a free lock that is no
handler. `IInv` types the rows and what a transaction holds in hand until it commits, keeps refunds
with the payment they refund (`ParentsOK`), and locks with those who hold them. All six theorems hold for
any number of requests at once and a crash at any point. `NeverOverdrawn` needs of the value a wallet is
written as only that it is not negative. `DebitsArePayments` (`DebitedOnce`) follows since the row of a payment and
the ledger of its wallet are written in one transaction under one key. For the other four, `RInv` adds
to `IInv` and the properties themselves:
- `RacedOK`: any two requests that are running have marked what they put at risk (`AtRisk`). A request keeps
  its key, kind and method while it goes on (`Follows`), so that it puts nothing new at risk after it began
  (`FollowsRisk`).
- `Current`, of every handler: what it compared or read is still so, for as long as the row it is
  about is unmarked. The value a payment is about to write is the wallet's balance less the amount, the
  amount fits the order beside the plain payments or the payment beside its plain refunds, the drawer is
  open, the counted parts cover what is in the drawer.
- `Sound`: the balance on the order row never promises more room than the plain payments leave
  (`PlainPaid + due <= Total`), although raced payments and bank transfers go into the sum it is written from;
  and refunds fit their payment.

`CommitLeaves`, `AdjustLeaves` and `DrawerLeaves` show that the three kinds of writing steps leave `Current` of the
other handlers true: what they disturb is marked by `RacedOK`. Every other step is `Quiet`: it writes no
row and leaves its handler well formed. From `RInv` follow `WalletsReconciled` (`CreditAgrees`), `PaymentsFit`
(`NoOverpayment`), `RefundsFit` (`RefundsCapped`) and `CashCounted` (`NoUncountedCash`). None of the marks can be spared: without any
one kind of them TLC finds a counterexample to the property that excuses it.

**Only model-checked.** Liveness (`TransactionsEnd`, `RequestsEnd`, `PaidSaleSettles`,
`Acknowledged`, `TableReopens`), which this prover has no rules for.

## 6. Not modelled

Components with status `not_modelled` in `PROJECT.json`, with the reason there: accounting
(numbering, periods, sync queue), sessions, offline sync, loyalty points, subscriptions,
pricing and tax, the catalog and other records, reports. Approvals have no module because
no caller looks at a decision: `assertOrQueue` refuses the repeated operation as well
(`enterprise-approvals.service.ts:131`).

Left out of the parts that are modelled: batches and serial units inside the engine; fees,
deposits and their settlement; refund events of Stripe; duplicate lines of one
level in a return or a receipt; damage reported before the last receipt of a transfer. Decimal
tolerances (`EPS`, 0.009, 0.02) are exact comparisons of whole units. A transaction whose
statements do not depend on concurrent commits is one step. A table set to occupied or reserved by
hand, a key a client gives for a kitchen ticket, and the settlement of a unit that is not of the
order (`rental-pos.service.ts:1630`) are not requests of the models. Supplier records, floors, stations,
menus and notes change nothing the properties speak of.

Hazards seen and neither listed nor covered, by file:

- `stock-mutation.engine.ts:268`: the components of a keyed call carry no key of their own.
- `orders.service.ts:438`, `:821`: lines of an order take and give back stock with a bare
  decrement and increment, outside the engine; `:909`: totals are computed from lines that
  two requests change at once; `:465` writes any status the table of transitions allows on a row
  read before (RentalUnits has it for rentals).
- `payments.service.ts:390`: whether a refund of a method is possible is asked only of the
  methods with a provider; `:446`: a cash refund without an open drawer goes to the session of the
  payment; `:736`, `journal.service.ts:461`: entries are looked up, and numbered by a count, before they
  are inserted. `stripe.service.ts:608`: the refund the server asked for and the refund event
  of Stripe both insert a row.
- `inventory-ops.service.ts:600`: a count is completed from lines that may be counted again
  meanwhile; `restaurant.service.ts:1757`, `suppliers.service.ts:1551`: numbers of tickets and documents are a
  count plus one.
- `restaurant.service.ts:1361`: a ticket may be put into any status from any other.
- `suppliers.service.ts:905`: a repeated return is recognised by the last fifty audit rows,
  without a unique key; `:1246`: the invoice of a receipt is looked up before it is inserted.
- `enterprise-approvals.service.ts:131`: a queued request is refused again after it was approved.
