----------------------------- MODULE StripeSale -----------------------------
(***************************************************************************)
(* One prepared POS sale that is paid through Stripe: the order row, its   *)
(* payment rows, the stock of its lines and its journal entries, changed   *)
(* by concurrent request handlers.                                         *)
(*                                                                         *)
(*   payments/stripe.service.ts    createPaymentIntent, verifyAndRecord,   *)
(*                                 handleWebhook                           *)
(*   payments/payments.service.ts  create, applyProviderStatus,            *)
(*                                 afterSucceededPayment                   *)
(*   pos/pos.service.ts            cancelPreparedSale, finalizeStripeSale  *)
(*   orders/orders.service.ts      recalculateTotals                       *)
(*                                                                         *)
(* A handler is a Node request: it reads rows, opens a READ COMMITTED      *)
(* transaction, reads again, writes and commits, and other handlers run in *)
(* between.  The variables hold committed rows.  A transaction's own       *)
(* writes appear with its last step, which is atomic because it holds the  *)
(* lock of the order row from its update of the totals to its commit.      *)
(*                                                                         *)
(* Amounts are whole money units.  Lines are of products that track        *)
(* quantity or are recipes; batches, coupons, tips, invoices and the       *)
(* restaurant overlay are left out.  Accounting is enabled.                *)
(***************************************************************************)
EXTENDS Integers, Sequences, FiniteSets, SequencesExt

CONSTANTS
  Handlers,     \* concurrent requests
  Cards,        \* Stripe payment intents of the order
  Cash,         \* cash payment requests, one idempotency key each
  Amount,       \* what each payment asks for
  Total,        \* grand total of the order
  Lines,        \* order items: [lv, qty, recipe]
  Shelf,        \* stock on hand of each level when the sale is prepared
  MaxCalls,     \* bound: cashier calls (intent, verify, cash, cancel, finalize)
  MaxCrashes    \* bound: handlers lost in the middle of a request

Payments == Cards \cup Cash

Free == "free"   \* no handler holds the lock

ASSUME SaleAssumption ==
  /\ Free \notin Handlers
  /\ IsFiniteSet(Cards) /\ IsFiniteSet(Cash) /\ Cards \cap Cash = {}
  /\ Amount \in [Payments -> Nat \ {0}]
  /\ Total \in Nat \ {0}
  /\ Lines # <<>>
  /\ Lines \in Seq([lv: DOMAIN Shelf, qty: Nat \ {0}, recipe: BOOLEAN])
  /\ Shelf \in [DOMAIN Shelf -> Nat]
  /\ MaxCalls \in Nat /\ MaxCrashes \in Nat

VARIABLES
  order,      \* the order row: status, meta.awaitingStripePayment, balanceDue
  pay,        \* payment rows: status ("none" when absent) and amount
  payLock,    \* handlers holding the row lock of a payment
  stockLock,  \* handlers holding the lock of the lines' stock levels
  shelf,      \* stock_levels.qty_on_hand
  stockKeys,  \* inventory idempotency keys recorded for this order
  taken,      \* how often the stock of each line was taken
  saleBooked, \* payments in the SALE journal entry; {} without the entry
  receipts,   \* payments with a journal entry of their own
  completed,  \* payment.completed outbox events of each payment
  intent,     \* the payment intents at Stripe
  events,     \* events Stripe has emitted, with the status they carry
  recorded,   \* stripe_webhook_events rows
  handler,    \* what each handler is doing
  calls, crashes

rowVars == <<order, pay, shelf, stockKeys, taken, saleBooked, receipts, completed, recorded>>
lockVars == <<payLock, stockLock>>
stripeVars == <<intent, events>>
vars == <<rowVars, lockVars, stripeVars, handler, calls, crashes>>

NoEvent == <<>>

Pending == {"initiated", "pending", "processing"}
Idle == [pc |-> "idle"]

(* A counter that only distinguishes never, once and more often. *)
Again(n) == IF n = 0 THEN 1 ELSE 2

SumOf(S) == SumFunction([p \in S |-> pay[p].amount])
Succeeded == {p \in Payments : pay[p].status = "succeeded"}
DueFor(paid) == IF Total > paid THEN Total - paid ELSE 0

-----------------------------------------------------------------------------
(* What finalizeStripeSale does to the stock of one line.  Sales of tracked  *)
(* products carry the key sale:<order>:<level>:<qty>; the components of a    *)
(* recipe are consumed without a key.  The quantity on hand is read first,   *)
(* also for a key that is taken already; only the read of the first line can *)
(* be older than the locks.                                                  *)

Key(line) == <<line.lv, line.qty>>
Short(line, stock) == stock[line.lv] < line.qty

(* Fault: the stock of a line is taken without an idempotency key. *)
TakeUnkeyed(s, i) ==
  IF Short(Lines[i], s.shelf) THEN [s EXCEPT !.ok = FALSE]
  ELSE [s EXCEPT !.shelf[Lines[i].lv] = @ - Lines[i].qty, !.taken[i] = Again(@)]

TakeLine(s, i) ==
  LET line == Lines[i]
      replay == ~line.recipe /\ Key(line) \in s.keys IN
  IF Short(line, s.shelf) /\ ~(replay /\ i = 1) THEN [s EXCEPT !.ok = FALSE]
  ELSE IF replay THEN s
  ELSE [s EXCEPT !.shelf[line.lv] = @ - line.qty, !.taken[i] = Again(@),
                 !.keys = IF line.recipe THEN @ ELSE @ \cup {Key(line)}]

StockAfter ==
  FoldLeft(TakeLine, [shelf |-> shelf, keys |-> stockKeys, taken |-> taken, ok |-> TRUE],
           [i \in 1..Len(Lines) |-> i])

-----------------------------------------------------------------------------

Init ==
  /\ order = [status |-> "confirmed", awaiting |-> TRUE, due |-> Total]
  /\ pay = [p \in Payments |-> [status |-> "none", amount |-> Amount[p]]]
  /\ payLock = [p \in Payments |-> Free]
  /\ stockLock = Free
  /\ shelf = Shelf
  /\ stockKeys = {}
  /\ taken = [i \in 1..Len(Lines) |-> 0]
  /\ saleBooked = {}
  /\ receipts = {}
  /\ completed = [p \in Payments |-> 0]
  /\ intent = [c \in Cards |-> "none"]
  /\ events = {}
  /\ recorded = {}
  /\ handler = [h \in Handlers |-> Idle]
  /\ calls = 0 /\ crashes = 0

At(h, pc) == handler[h].pc = pc
Goto(h, pc) == handler' = [handler EXCEPT ![h].pc = pc]
Become(h, state) == handler' = [handler EXCEPT ![h] = state]
Done(h) == Become(h, Idle)

(* A cashier's request reaches the server. *)
Request(h, state) ==
  /\ At(h, "idle")
  /\ calls < MaxCalls
  /\ calls' = calls + 1
  /\ Become(h, state)
  /\ UNCHANGED <<rowVars, lockVars, stripeVars, crashes>>

Local == UNCHANGED <<rowVars, lockVars, stripeVars, calls, crashes>>

-----------------------------------------------------------------------------
(* Stripe: the customer pays an intent whose secret the client has, or it    *)
(* is cancelled there.  Every change emits an event that carries the status  *)
(* of the moment.                                                            *)

StripeMoves(c, status) ==
  /\ intent[c] = "pending"
  /\ status = "succeeded" => pay[c].status # "none"
  /\ intent' = [intent EXCEPT ![c] = status]
  /\ events' = events \cup {<<c, status>>}
  /\ UNCHANGED <<rowVars, lockVars, handler, calls, crashes>>

CustomerPays(c) == StripeMoves(c, "succeeded")
IntentExpires(c) == StripeMoves(c, "cancelled")

(* createPaymentIntent: the balance is checked, the intent is created at     *)
(* Stripe, then the payment row is recorded as initiated.                    *)
CallIntent(h) == \E c \in Cards : Request(h, [pc |-> "intent", card |-> c])

CreateIntent(h) ==
  /\ At(h, "intent")
  /\ LET c == handler[h].card IN
       IF pay[c].status = "none" /\ intent[c] = "none"
          /\ order.due > 0 /\ Amount[c] <= order.due
       THEN /\ intent' = [intent EXCEPT ![c] = "pending"]
            /\ events' = events \cup {<<c, "pending">>}
            /\ Goto(h, "intent row")
       ELSE Done(h) /\ UNCHANGED stripeVars
  /\ UNCHANGED <<rowVars, lockVars, calls, crashes>>

(* payments.create with status initiated: a cancelled or closed order is     *)
(* refused, an existing row with the key is returned.                        *)
RecordIntent(h) ==
  /\ At(h, "intent row")
  /\ LET c == handler[h].card IN
       pay' = IF pay[c].status = "none" /\ order.status \notin {"cancelled", "closed"}
              THEN [pay EXCEPT ![c].status = "initiated"] ELSE pay
  /\ Done(h)
  /\ UNCHANGED <<order, shelf, stockKeys, taken, saleBooked, receipts, completed,
                 recorded, lockVars, stripeVars, calls, crashes>>

-----------------------------------------------------------------------------
(* afterSucceededPayment: the first succeeded payment books the sale with    *)
(* all payments that have succeeded by then, later ones a receipt each.      *)
(* postAutomatic skips a source key it has already booked.                   *)

(* Fault: only the first payment of the order is posted. *)
BookFirst(p) ==
  /\ saleBooked' = IF saleBooked = {} THEN Succeeded \cup {p} ELSE saleBooked
  /\ completed' = [completed EXCEPT ![p] = Again(@)]
  /\ UNCHANGED receipts

Book(p) ==
  /\ IF saleBooked = {}
     THEN saleBooked' = Succeeded \cup {p} /\ UNCHANGED receipts
     ELSE receipts' = receipts \cup {p} /\ UNCHANGED saleBooked
  /\ completed' = [completed EXCEPT ![p] = Again(@)]

(* Faults: an unchanged status is applied again; a success is downgraded. *)
ReapplyPayment(h) ==
  /\ At(h, "apply")
  /\ Goto(h, IF pay[handler[h].card].status = "succeeded" /\ handler[h].want # "succeeded"
             THEN "applied" ELSE "write")
  /\ Local

DowngradePayment(h) ==
  /\ At(h, "apply")
  /\ Goto(h, IF pay[handler[h].card].status = handler[h].want THEN "applied" ELSE "write")
  /\ Local

(* applyProviderStatus, outside its transaction: a succeeded payment is not  *)
(* downgraded and an unchanged one is left alone.  Without a row, the        *)
(* payment is recorded with the status Stripe reports.                       *)
ReadPayment(h) ==
  /\ At(h, "apply")
  /\ LET c == handler[h].card
         want == handler[h].want IN
       \/ /\ pay[c].status = "none"
          /\ want # "succeeded"
          /\ pay' = [pay EXCEPT ![c].status = want]
          /\ Goto(h, "applied")
       \/ /\ pay[c].status # "none"
          /\ UNCHANGED pay
          /\ Goto(h, IF pay[c].status \in {want, "succeeded"} THEN "applied" ELSE "write")
  /\ UNCHANGED <<order, shelf, stockKeys, taken, saleBooked, receipts, completed,
                 recorded, lockVars, stripeVars, calls, crashes>>

(* Its transaction: tx.payment.update, whatever the status is by now ...     *)
WritePayment(h) ==
  /\ At(h, "write")
  /\ LET c == handler[h].card IN
       /\ payLock[c] = Free
       /\ payLock' = [payLock EXCEPT ![c] = h]
  /\ Goto(h, "sum")
  /\ UNCHANGED <<rowVars, stockLock, stripeVars, calls, crashes>>

(* ... recalculateTotals reads the payments committed so far and its own ... *)
(* Fault: the totals are recalculated before the payment is updated. *)
SumWithoutOwn(h) ==
  /\ At(h, "sum")
  /\ handler' = [handler EXCEPT ![h] = [pc |-> "commit", card |-> @.card, want |-> @.want,
                   job |-> @.job, event |-> @.event, sum |-> SumOf(Succeeded)]]
  /\ Local

SumPayments(h) ==
  /\ At(h, "sum")
  /\ LET c == handler[h].card
         counted == IF handler[h].want = "succeeded" THEN Succeeded \cup {c}
                    ELSE Succeeded \ {c} IN
       handler' = [handler EXCEPT ![h] = [pc |-> "commit", card |-> c,
                     want |-> handler[h].want, job |-> handler[h].job,
                     event |-> handler[h].event, sum |-> SumOf(counted)]]
  /\ Local

(* ... and updates the order, the outbox and the journal, and commits.       *)
CommitPayment(h) ==
  /\ At(h, "commit")
  /\ LET c == handler[h].card IN
       /\ pay' = [pay EXCEPT ![c].status = handler[h].want]
       /\ order' = [order EXCEPT !.due = DueFor(handler[h].sum)]
       /\ payLock' = [payLock EXCEPT ![c] = Free]
       /\ IF handler[h].want = "succeeded" THEN Book(c)
          ELSE UNCHANGED <<saleBooked, receipts, completed>>
  /\ Goto(h, "applied")
  /\ UNCHANGED <<shelf, stockKeys, taken, recorded, stockLock, stripeVars, calls, crashes>>

-----------------------------------------------------------------------------
(* verifyAndRecord: the client asks the server to look the intent up.  Its   *)
(* order read before finalizing is the one finalizeStripeSale repeats.       *)

CallVerify(h) ==
  \E c \in Cards :
    /\ intent[c] # "none"
    /\ Request(h, [pc |-> "apply", card |-> c, want |-> intent[c], job |-> "verify",
                   event |-> NoEvent])

(* handleWebhook: Stripe delivers an event, in any order and any number of   *)
(* times until the delivery is acknowledged, and possibly once more.         *)
Deliver(h, e) ==
  /\ At(h, "idle")
  /\ e \in events
  /\ Become(h, [pc |-> "webhook", card |-> e[1], want |-> e[2], job |-> "webhook",
                event |-> e])
  /\ Local

FindEvent(h) ==
  /\ At(h, "webhook")
  /\ IF handler[h].event \in recorded THEN Done(h) ELSE Goto(h, "apply")
  /\ Local

(* Fault: the webhook leaves finalizing to the client's verify. *)
ApplyOnly(h) ==
  /\ At(h, "applied")
  /\ IF handler[h].job = "webhook" THEN Goto(h, "record")
     ELSE IF handler[h].want = "succeeded" THEN Goto(h, "finalize") ELSE Done(h)
  /\ Local

(* A succeeded payment goes on to finalize the sale; verifyAndRecord fails   *)
(* on any other status, a webhook is recorded.                               *)
AfterApply(h) ==
  /\ At(h, "applied")
  /\ IF handler[h].want = "succeeded" THEN Goto(h, "finalize")
     ELSE IF handler[h].job = "webhook" THEN Goto(h, "record") ELSE Done(h)
  /\ Local

(* The event is recorded after it was dispatched; the unique event id makes  *)
(* a second insert fail.                                                     *)
RecordEvent(h) ==
  /\ At(h, "record")
  /\ recorded' = recorded \cup {handler[h].event}
  /\ Done(h)
  /\ UNCHANGED <<order, pay, shelf, stockKeys, taken, saleBooked, receipts, completed,
                 lockVars, stripeVars, calls, crashes>>

-----------------------------------------------------------------------------
(* finalizeStripeSale, from verify, from a webhook or by its own endpoint.   *)

CallFinalize(h) == Request(h, [pc |-> "finalize", job |-> "finalize", event |-> NoEvent])

FinalizeUnrecorded(h) == Done(h)   \* fault: the event of a success is not recorded
AfterFinalize(h) == IF handler[h].job = "webhook" THEN Goto(h, "record") ELSE Done(h)

ReadAwaiting(h) ==
  /\ At(h, "finalize")
  /\ IF order.awaiting THEN Goto(h, "look") ELSE AfterFinalize(h)
  /\ Local

LookAtFirst(h) ==
  /\ At(h, "look")
  /\ IF ~Lines[1].recipe /\ Short(Lines[1], shelf) THEN Done(h) ELSE Goto(h, "stock")
  /\ Local

(* The engine locks the levels of the lines until the transaction ends; an   *)
(* insufficient level fails it, and the request.                             *)
TakeStock(h) ==
  /\ At(h, "stock")
  /\ stockLock = Free
  /\ IF StockAfter.ok THEN stockLock' = h /\ Goto(h, "final sum")
     ELSE UNCHANGED stockLock /\ Done(h)
  /\ UNCHANGED <<rowVars, payLock, stripeVars, calls, crashes>>

FinalSum(h) ==
  /\ At(h, "final sum")
  /\ handler' = [handler EXCEPT ![h] =
       [pc |-> "close", job |-> @.job, event |-> @.event, sum |-> SumOf(Succeeded)]]
  /\ Local

StatusForAny(due) == "closed"   \* fault: a part-paid ticket is closed
StatusFor(due) == IF due > 0 THEN "confirmed" ELSE "closed"

CloseSale(h) ==
  /\ At(h, "close")
  /\ LET due == DueFor(handler[h].sum) IN
       order' = [status |-> StatusFor(due), awaiting |-> FALSE, due |-> due]
  /\ shelf' = StockAfter.shelf
  /\ stockKeys' = StockAfter.keys
  /\ taken' = StockAfter.taken
  /\ stockLock' = Free
  /\ AfterFinalize(h)
  /\ UNCHANGED <<pay, saleBooked, receipts, completed, recorded, payLock, stripeVars,
                 calls, crashes>>

-----------------------------------------------------------------------------
(* cancelPreparedSale: what it decides on is read before anything is locked. *)

CallCancel(h) == Request(h, [pc |-> "cancel"])

(* Fault: a sale that no longer waits for Stripe is cancelled as well. *)
CancelAnyOpen(h) ==
  /\ At(h, "cancel")
  /\ IF order.status # "closed"
     THEN Become(h, [pc |-> IF Succeeded = {} THEN "cancel order" ELSE "keep paid",
                     open |-> {p \in Payments : pay[p].status \in Pending}])
     ELSE Done(h)
  /\ Local

ReadForCancel(h) ==
  /\ At(h, "cancel")
  /\ IF order.awaiting /\ order.status # "closed"
     THEN Become(h, [pc |-> IF Succeeded = {} THEN "cancel order" ELSE "keep paid",
                     open |-> {p \in Payments : pay[p].status \in Pending}])
     ELSE Done(h)
  /\ Local

Cancelled(S) == [p \in Payments |-> IF p \in S THEN [pay[p] EXCEPT !.status = "cancelled"]
                                    ELSE pay[p]]

(* With a succeeded part, one transaction gives up the open payments, keeps  *)
(* the order and recalculates under the lock of the order row.               *)
KeepPaidPart(h) ==
  /\ At(h, "keep paid")
  /\ LET open == handler[h].open IN
       /\ \A p \in open : payLock[p] = Free
       /\ pay' = Cancelled(open)
       /\ order' = [status |-> "confirmed", awaiting |-> FALSE,
                    due |-> DueFor(SumOf(Succeeded \ open))]
  /\ Done(h)
  /\ UNCHANGED <<shelf, stockKeys, taken, saleBooked, receipts, completed, recorded,
                 lockVars, stripeVars, calls, crashes>>

(* Otherwise the order is cancelled, then each open payment, one update each. *)
CancelOrder(h) ==
  /\ At(h, "cancel order")
  /\ order' = [order EXCEPT !.status = "cancelled", !.awaiting = FALSE]
  /\ Goto(h, "cancel payments")
  /\ UNCHANGED <<pay, shelf, stockKeys, taken, saleBooked, receipts, completed, recorded,
                 lockVars, stripeVars, calls, crashes>>

CancelPayment(h) ==
  /\ At(h, "cancel payments")
  /\ \/ /\ handler[h].open = {}
        /\ Done(h) /\ UNCHANGED pay
     \/ \E p \in handler[h].open :
          /\ payLock[p] = Free
          /\ pay' = Cancelled({p})
          /\ handler' = [handler EXCEPT ![h].open = @ \ {p}]
  /\ UNCHANGED <<order, shelf, stockKeys, taken, saleBooked, receipts, completed, recorded,
                 lockVars, stripeVars, calls, crashes>>

-----------------------------------------------------------------------------
(* payments.create for cash: an internal tender that succeeds at once and is *)
(* clamped to the balance read at the start of the transaction.              *)

CallCash(h) == \E k \in Cash : Request(h, [pc |-> "cash", card |-> k])

ReadForCash(h) ==
  /\ At(h, "cash")
  /\ LET k == handler[h].card IN
       IF pay[k].status = "none" /\ order.status \notin {"cancelled", "closed"}
          /\ order.due > 0
       THEN Become(h, [pc |-> "insert cash", card |-> k,
                       amount |-> IF Amount[k] > order.due THEN order.due ELSE Amount[k]])
       ELSE Done(h)
  /\ Local

(* Fault: a second insert waits until the key is free, for good. *)
InsertCashAgain(h) ==
  /\ At(h, "insert cash")
  /\ payLock[handler[h].card] = Free
  /\ payLock' = [payLock EXCEPT ![handler[h].card] = h]
  /\ Goto(h, "sum cash")
  /\ UNCHANGED <<rowVars, stockLock, stripeVars, calls, crashes>>

InsertCashFirst(h) ==
  /\ At(h, "insert cash")
  /\ pay[handler[h].card].status = "none"
  /\ InsertCashAgain(h)

(* The unique idempotency key: a second insert waits for the first and fails *)
(* its transaction once that one has committed.                              *)
InsertCash(h) ==
  /\ At(h, "insert cash")
  /\ LET k == handler[h].card IN
       /\ payLock[k] = Free
       /\ IF pay[k].status = "none"
          THEN payLock' = [payLock EXCEPT ![k] = h] /\ Goto(h, "sum cash")
          ELSE UNCHANGED payLock /\ Done(h)
  /\ UNCHANGED <<rowVars, stockLock, stripeVars, calls, crashes>>

SumCash(h) ==
  /\ At(h, "sum cash")
  /\ handler' = [handler EXCEPT ![h] =
       [pc |-> "commit cash", card |-> @.card, amount |-> @.amount,
        sum |-> SumOf(Succeeded) + @.amount]]
  /\ Local

CommitCash(h) ==
  /\ At(h, "commit cash")
  /\ LET k == handler[h].card IN
       /\ pay' = [pay EXCEPT ![k] = [status |-> "succeeded", amount |-> handler[h].amount]]
       /\ order' = [order EXCEPT !.due = DueFor(handler[h].sum)]
       /\ payLock' = [payLock EXCEPT ![k] = Free]
       /\ Book(k)
  /\ Done(h)
  /\ UNCHANGED <<shelf, stockKeys, taken, recorded, stockLock, stripeVars, calls, crashes>>

-----------------------------------------------------------------------------

(* The process dies or the connection drops: an open transaction rolls back, *)
(* what was committed stays.                                                 *)
Crash(h) ==
  /\ ~At(h, "idle")
  /\ crashes < MaxCrashes
  /\ crashes' = crashes + 1
  /\ payLock' = [p \in Payments |-> IF payLock[p] = h THEN Free ELSE payLock[p]]
  /\ stockLock' = IF stockLock = h THEN Free ELSE stockLock
  /\ Done(h)
  /\ UNCHANGED <<rowVars, stripeVars, calls>>

Call(h) ==
  CallIntent(h) \/ CallVerify(h) \/ CallFinalize(h) \/ CallCancel(h) \/ CallCash(h)

Proceed(h) ==
  \/ CreateIntent(h) \/ RecordIntent(h)
  \/ ReadPayment(h) \/ WritePayment(h) \/ SumPayments(h) \/ CommitPayment(h)
  \/ FindEvent(h) \/ AfterApply(h) \/ RecordEvent(h)
  \/ ReadAwaiting(h) \/ LookAtFirst(h) \/ TakeStock(h) \/ FinalSum(h) \/ CloseSale(h)
  \/ ReadForCancel(h) \/ KeepPaidPart(h) \/ CancelOrder(h) \/ CancelPayment(h)
  \/ ReadForCash(h) \/ InsertCash(h) \/ SumCash(h) \/ CommitCash(h)

Next ==
  \/ \E h \in Handlers : Call(h) \/ Proceed(h) \/ Crash(h)
  \/ \E h \in Handlers, e \in events : Deliver(h, e)
  \/ \E c \in Cards : CustomerPays(c) \/ IntentExpires(c)

Spec == Init /\ [][Next]_vars

(* Requests run to their end, and Stripe redelivers an event until it is     *)
(* acknowledged.  Customers and cashiers owe nothing.                        *)
Redeliver(e) == e \notin recorded /\ \E h \in Handlers : Deliver(h, e)

FairSpec ==
  /\ Spec
  /\ \A h \in Handlers : WF_vars(Proceed(h))
  /\ \A c \in Cards, s \in {"pending", "succeeded", "cancelled"} :
       SF_vars(Redeliver(<<c, s>>))

-----------------------------------------------------------------------------

(* recalculateTotals: the balance on the order is what the payments recorded *)
(* as succeeded leave to pay.                                                *)
DueAgrees == order.due = DueFor(SumOf(Succeeded))

(* Goods leave the shelf at most once for each line, however often the sale  *)
(* is finalized: by verify, by the webhook, again after a crash.  The sale   *)
(* is closed only with the stock of every line taken ...                     *)
StockOnce ==
  \A i \in DOMAIN taken :
    taken[i] <= 1 /\ (order.status = "closed" => taken[i] = 1)

(* ... and nothing left to pay.                                              *)
ClosedIsPaid == order.status = "closed" => Total <= SumOf(Succeeded)

(* Abandoning a prepared sale and finalizing it exclude each other: no goods *)
(* leave for an order that ends up cancelled.                                *)
CancelledTakesNoStock == order.status = "cancelled" => \A i \in DOMAIN taken : taken[i] = 0

(* afterSucceededPayment: every collected payment is in the books ...        *)
SucceededIsBooked == Succeeded \subseteq saleBooked \cup receipts

(* ... once, either with the sale or by a receipt of its own, and announced  *)
(* once, although verify, webhooks and retries all report the same payment.  *)
BookedOnce ==
  /\ saleBooked \cap receipts = {}
  /\ \A p \in Payments : completed[p] <= 1

(* applyProviderStatus and cancelPreparedSale never take a success back:     *)
(* neither a stale event nor a late cancel rewrites a succeeded payment.     *)
SucceededStep == \A p \in Succeeded : pay'[p] = pay[p]
SucceededKept == [][SucceededStep]_vars

(* A sale that was paid for at Stripe does not stay open waiting for Stripe. *)
PaidSaleSettles == \A c \in Cards : intent[c] = "succeeded" ~> ~order.awaiting

(* Stripe need not redeliver an event for ever.                              *)
Acknowledged ==
  \A c \in Cards : \A s \in {"pending", "succeeded", "cancelled"} :
    <<c, s>> \in events ~> <<c, s>> \in recorded

(* No request hangs: two of them never wait for each other's row locks.      *)
RequestsEnd == \A h \in Handlers : ~At(h, "idle") ~> At(h, "idle")
=============================================================================
