------------------------------ MODULE Purchasing ------------------------------
(***************************************************************************)
(* Purchase orders of one supplier, the goods received and returned, and   *)
(* the invoices and credit notes that follow (suppliers.service.ts,        *)
(* po-ops.ts; unit-pricing.service.ts for the purchase unit).              *)
(*                                                                         *)
(* A handler reads the rows, decides, and writes in one transaction, which *)
(* is one step here and may come after the transactions of others.  Tax,   *)
(* discounts, payment methods and the journal are left out; a request      *)
(* names each stock level once.                                            *)
(***************************************************************************)
EXTENDS Integers, Sequences, FiniteSets, SequencesExt

CONSTANTS
  Pos, Levels,
  Ordered,      \* pieces of each level on each order, 0 for none
  Cost, Per,    \* cost of a purchase unit; base units in it
  Opening,      \* stock at the start, in base units
  Keys, NoKey,  \* idempotency keys of receipts and returns
  Batches,      \* what a request may receive or return
  Amounts,      \* what an invoice made by hand or a payment may amount to
  ClientNumbers, \* numbers clients give to invoices
  Limits,       \* credit limits of the supplier, 0 for none
  Handlers,
  MaxCalls,     \* bound: requests
  MaxTogether,  \* bound: requests that begin while another one is running
  MaxSold       \* bound: sales of one piece

ASSUME PurchasingAssumption ==
  /\ IsFiniteSet(Pos) /\ IsFiniteSet(Levels)
  /\ Ordered \in [Pos -> [Levels -> Nat]]
  /\ \A p \in Pos : \E l \in Levels : Ordered[p][l] > 0   \* without lines nothing is received
  /\ Cost \in [Levels -> Nat] /\ Per \in [Levels -> Nat \ {0}] /\ Opening \in [Levels -> Nat]
  /\ NoKey \notin Keys
  /\ Batches \subseteq [Levels -> Nat] /\ \A q \in Batches : \E l \in Levels : q[l] > 0
  /\ Amounts \subseteq Nat \ {0}
  /\ Limits \subseteq Nat
  /\ {MaxCalls, MaxTogether, MaxSold} \subseteq Nat

VARIABLES
  status,      \* purchase_orders.status
  received,    \* purchase_order_lines.qty_received
  stock,       \* stock_levels.qty_on_hand
  grns,        \* goods_receipts with their lines, in base units, by number
  returns,     \* the audit rows of returnPo
  invoices,    \* supplier_invoices
  payments,    \* supplier_payments
  sold,        \* what the counter has sold
  limit,       \* suppliers.credit_limit
  handler,     \* what each handler is doing
  raced,       \* history: rows two requests worked on at once
  carried,     \* history: what was owed when the limit was last changed
  calls, together

rowVars == <<status, received, stock, grns, returns, invoices, payments, sold>>
limitVars == <<limit, carried>>
vars == <<rowVars, limitVars, handler, raced, calls, together>>

Idle == [pc |-> "idle", on |-> {}]

Init ==
  /\ status = [p \in Pos |-> "none"]
  /\ received = [p \in Pos |-> [l \in Levels |-> 0]]
  /\ stock = Opening
  /\ grns = <<>> /\ returns = <<>> /\ invoices = <<>> /\ payments = <<>>
  /\ sold = [l \in Levels |-> 0]
  /\ limit \in Limits /\ carried = 0
  /\ handler = [h \in Handlers |-> Idle]
  /\ raced = {}
  /\ calls = 0 /\ together = 0

-----------------------------------------------------------------------------
SumOver(S, N(_)) == SumFunction([x \in S |-> N(x)])
Value(q) == SumOver(Levels, LAMBDA l : q[l] * Cost[l])

At(h, pc) == handler[h].pc = pc
Done(h) == handler' = [handler EXCEPT ![h] = Idle]
Rest == UNCHANGED <<limitVars, raced, calls, together>>

Order(p) == <<"order", p>>
Receipt(n) == <<"receipt", n>>
Invoice(n) == <<"invoice", n>>
Supplier == <<"supplier", 0>>   \* what is owed to the supplier

(* A request has read what it needs: state, with state.on what it works on. *)
Begin(h, state) ==
  LET others == {o \in Handlers \ {h} : ~At(o, "idle")}
      met == {o \in others : handler[o].on \cap state.on # {}}
  IN
  /\ At(h, "idle")
  /\ calls < MaxCalls /\ calls' = calls + 1
  /\ IF others = {} THEN UNCHANGED together ELSE together < MaxTogether /\ together' = together + 1
  /\ handler' = [handler EXCEPT ![h] = state]
  /\ raced' = raced \cup UNION {handler[o].on \cap state.on : o \in met}
  /\ UNCHANGED <<rowVars, limitVars>>

(* The invoices of a receipt. *)
InvoicesOf(n) == {i \in DOMAIN invoices : invoices[i].grn = n}
Owed == SumOver({i \in DOMAIN invoices : invoices[i].status \in {"open", "partial"}},
                LAMBDA i : invoices[i].total - invoices[i].paid)

(* assertCreditLimit *)
WithinLimit(additional) == additional > 0 /\ limit > 0 => Owed + additional <= limit

-----------------------------------------------------------------------------
(* The purchase order.                                                       *)

BeginCreatePo(h, p) ==
  /\ status[p] = "none"
  /\ WithinLimit(Value(Ordered[p]))
  /\ Begin(h, [pc |-> "status", on |-> {Order(p)}, po |-> p, status |-> "draft"])

AnyReceived(q) == \E l \in Levels : q[l] > 0

(* assertPoStatusChange *)
MayCancelAny(p) == status[p] # "cancelled"   \* fault: whatever was received
MayCancel(p) == status[p] \in {"draft", "ordered"} /\ ~AnyReceived(received[p])
MayBecome(p, next) ==
  \/ next = status[p]
  \/ next = "ordered" /\ status[p] = "draft"
  \/ next = "cancelled" /\ MayCancel(p)

BeginUpdatePo(h, p, next) ==
  /\ status[p] # "none"
  /\ MayBecome(p, next)
  /\ Begin(h, [pc |-> "status", on |-> {Order(p)}, po |-> p, status |-> next])

(* createPo and updatePo write the status without looking again. *)
WriteStatus(h) ==
  /\ At(h, "status")
  /\ status' = [status EXCEPT ![handler[h].po] = handler[h].status]
  /\ Done(h)
  /\ UNCHANGED <<received, stock, grns, returns, invoices, payments, sold>> /\ Rest

-----------------------------------------------------------------------------
(* Goods.                                                                    *)

ReceiptKnown(key) == \E n \in DOMAIN grns : grns[n].key = key

BeginReceive(h, p, q, key) ==
  /\ status[p] \notin {"none", "cancelled"}
  /\ ~ReceiptKnown(key)
  /\ Begin(h, [pc |-> "receive", on |-> {Order(p)}, po |-> p, qty |-> q, key |-> key,
               seen |-> received[p], status |-> status[p]])

(* The lines are compared with what was read before the transaction. *)
Fits(h) ==
  LET H == handler[h] IN
  \A l \in Levels : H.qty[l] > 0 =>
    /\ Ordered[H.po][l] > 0
    /\ H.qty[l] <= Ordered[H.po][l] - H.seen[l]

InBase(q) == [l \in Levels |-> q[l] * Per[l]]
Plus(a, b) == [l \in Levels |-> a[l] + b[l]]
Minus(a, b) == [l \in Levels |-> a[l] - b[l]]

StatusAfterReceipt(p, now, before) ==
  IF \A l \in Levels : Ordered[p][l] > 0 => now[l] >= Ordered[p][l] THEN "received"
  ELSE IF AnyReceived(now) THEN "partial"
  ELSE IF before = "draft" THEN "ordered" ELSE before

(* Fault: a receipt is recorded for every call. *)
ReceiveUnkeyed(h) ==
  LET H == handler[h]
      now == Plus(received[H.po], H.qty)
  IN
  /\ At(h, "receive")
  /\ IF Fits(h)
       THEN /\ received' = [received EXCEPT ![H.po] = now]
            /\ stock' = Plus(stock, InBase(H.qty))
            /\ grns' = Append(grns, [po |-> H.po, key |-> H.key, qty |-> InBase(H.qty)])
            /\ status' = [status EXCEPT ![H.po] = StatusAfterReceipt(H.po, now, H.status)]
            /\ UNCHANGED <<returns, invoices, payments, sold>>
       ELSE UNCHANGED rowVars
  /\ Done(h)
  /\ Rest

(* receivePo; the key is unique. *)
Receive(h) ==
  LET H == handler[h]
      now == Plus(received[H.po], H.qty)
  IN
  /\ At(h, "receive")
  /\ IF Fits(h) /\ ~ReceiptKnown(H.key)
       THEN /\ received' = [received EXCEPT ![H.po] = now]
            /\ stock' = Plus(stock, InBase(H.qty))
            /\ grns' = Append(grns, [po |-> H.po, key |-> H.key, qty |-> InBase(H.qty)])
            /\ status' = [status EXCEPT ![H.po] = StatusAfterReceipt(H.po, now, H.status)]
            /\ UNCHANGED <<returns, invoices, payments, sold>>
       ELSE UNCHANGED rowVars
  /\ Done(h)
  /\ Rest

ReturnKnown(p, key) ==
  key # NoKey /\ \E n \in DOMAIN returns : returns[n].po = p /\ returns[n].key = key

BeginReturn(h, p, q, key) ==
  /\ status[p] \in {"ordered", "partial", "received"}
  /\ ~ReturnKnown(p, key)
  /\ \E credit \in BOOLEAN :
       Begin(h, [pc |-> "return", on |-> {Order(p)}, po |-> p, qty |-> q, key |-> key,
                 seen |-> received[p], credit |-> credit])

(* The quantities are not converted to base units. *)
Returnable(h) ==
  LET H == handler[h] IN
  \A l \in Levels : H.qty[l] > 0 =>
    /\ Ordered[H.po][l] > 0
    /\ H.qty[l] <= H.seen[l]
    /\ H.qty[l] <= stock[l]

(* The number of an invoice or credit note: how many there are, plus one.  A *)
(* client may have given this one to another.                                *)
NextNumber(kind) == <<kind, Len(invoices) + 1>>
Taken(number) == \E i \in DOMAIN invoices : invoices[i].number = number

(* source: made by hand, or by createInvoiceFromGrn, which says so in notes.  *)
NewInvoice(kind, number, source, grn, total) ==
  [kind |-> kind, number |-> number, source |-> source, grn |-> grn, total |-> total, paid |-> 0,
   status |-> IF kind = "credit" THEN "credit" ELSE "open"]

(* returnPo; only the rows already committed were searched for the key. *)
Return(h) ==
  LET H == handler[h]
      now == Minus(received[H.po], H.qty)
      credits == H.credit /\ Value(H.qty) > 0
  IN
  /\ At(h, "return")
  /\ IF Returnable(h) /\ ~(credits /\ Taken(NextNumber("credit")))
       THEN /\ received' = [received EXCEPT ![H.po] = now]
            /\ stock' = Minus(stock, H.qty)
            /\ returns' = Append(returns, [po |-> H.po, key |-> H.key, qty |-> H.qty])
            /\ invoices' = IF credits
                 THEN Append(invoices, NewInvoice("credit", NextNumber("credit"), "return", 0, Value(H.qty)))
                 ELSE invoices
            /\ status' = [status EXCEPT ![H.po] = IF AnyReceived(now) THEN "partial" ELSE "ordered"]
            /\ UNCHANGED <<grns, payments, sold>>
       ELSE UNCHANGED rowVars
  /\ Done(h)
  /\ Rest

(* The counter sells a piece, through the same engine. *)
Sell(l) ==
  /\ stock[l] > 0
  /\ SumOver(Levels, LAMBDA k : sold[k]) < MaxSold
  /\ stock' = [stock EXCEPT ![l] = @ - 1]
  /\ sold' = [sold EXCEPT ![l] = @ + 1]
  /\ UNCHANGED <<status, received, grns, returns, invoices, payments, handler>> /\ Rest

-----------------------------------------------------------------------------
(* Invoices.                                                                 *)

BeginInvoice(h, row, on) ==
  /\ row.kind = "invoice" => WithinLimit(row.total)
  /\ Begin(h, [pc |-> "invoice", on |-> on \cup {Supplier}, row |-> row])

(* createInvoice: the client may name a receipt, which may be invoiced       *)
(* already, and may give the number.                                         *)
BeginManual(h, kind, grn, total) ==
  \E number \in {NextNumber(kind)} \cup ClientNumbers :
    BeginInvoice(h, NewInvoice(kind, number, "hand", grn, total), {Receipt(n) : n \in {grn} \ {0}})

(* createInvoiceFromGrn: the cost of a purchase unit for every base unit. *)
UninvoicedAny(n) == n \in DOMAIN grns   \* fault: a receipt is invoiced again
Uninvoiced(n) == InvoicesOf(n) = {}
BeginFromGrn(h, n) ==
  /\ Uninvoiced(n) /\ Value(grns[n].qty) > 0
  /\ BeginInvoice(h, NewInvoice("invoice", NextNumber("invoice"), "grn", n, Value(grns[n].qty)), {Receipt(n)})

(* Another invoice may have taken the number meanwhile. *)
CreateInvoice(h) ==
  LET row == handler[h].row IN
  /\ At(h, "invoice")
  /\ invoices' = IF Taken(row.number) THEN invoices ELSE Append(invoices, row)
  /\ Done(h)
  /\ UNCHANGED <<status, received, stock, grns, returns, payments, sold>> /\ Rest

(* updateSupplier: the limit may be set below what is owed. *)
BeginLimit(h, new) == Begin(h, [pc |-> "limit", on |-> {Supplier}, limit |-> new])
SetLimit(h) ==
  /\ At(h, "limit")
  /\ limit' = handler[h].limit
  /\ carried' = Owed
  /\ Done(h)
  /\ UNCHANGED <<rowVars, raced, calls, together>>

(* payInvoice, for invoices and, as a refund, for credit notes. *)
BeginPay(h, i, amount) ==
  /\ invoices[i].status # "paid"
  /\ amount <= invoices[i].total - invoices[i].paid
  /\ Begin(h, [pc |-> "pay", on |-> {Invoice(i)}, invoice |-> i, amount |-> amount,
               row |-> invoices[i]])

(* The amount paid is the one that was read, plus this payment. *)
Paid(row, paid) ==
  [row EXCEPT !.paid = paid, !.status = IF paid >= row.total THEN "paid" ELSE "partial"]

Pay(h) ==
  LET H == handler[h] IN
  /\ At(h, "pay")
  /\ payments' = Append(payments, [invoice |-> H.invoice, amount |-> H.amount])
  /\ invoices' = [invoices EXCEPT ![H.invoice] = Paid(H.row, H.row.paid + H.amount)]
  /\ Done(h)
  /\ UNCHANGED <<status, received, stock, grns, returns, sold>> /\ Rest

(* A request fails, or the server loses the rest of it. *)
Crash(h) == ~At(h, "idle") /\ Done(h) /\ UNCHANGED rowVars /\ Rest

-----------------------------------------------------------------------------
Call(h) ==
  \/ \E p \in Pos :
       \/ BeginCreatePo(h, p)
       \/ \E next \in {"ordered", "partial", "received", "cancelled", "draft"} : BeginUpdatePo(h, p, next)
       \/ \E q \in Batches, key \in Keys : BeginReceive(h, p, q, key)
       \/ \E q \in Batches, key \in Keys \cup {NoKey} : BeginReturn(h, p, q, key)
  \/ \E kind \in {"invoice", "credit"}, grn \in 0..Len(grns), total \in Amounts :
       BeginManual(h, kind, grn, total)
  \/ \E n \in DOMAIN grns : BeginFromGrn(h, n)
  \/ \E i \in DOMAIN invoices, amount \in Amounts : BeginPay(h, i, amount)
  \/ \E new \in Limits : BeginLimit(h, new)

Work(h) == WriteStatus(h) \/ Receive(h) \/ Return(h) \/ CreateInvoice(h) \/ SetLimit(h) \/ Pay(h)

Next ==
  \/ \E h \in Handlers : Call(h) \/ Work(h) \/ Crash(h)
  \/ \E l \in Levels : Sell(l)

Spec == Init /\ [][Next]_vars

-----------------------------------------------------------------------------
(* Type correctness. *)
TypeOK ==
  /\ status \in [Pos -> {"none", "draft", "ordered", "partial", "received", "cancelled"}]
  /\ received \in [Pos -> [Levels -> Int]]
  /\ stock \in [Levels -> Nat] /\ sold \in [Levels -> Nat]
  /\ grns \in Seq([po: Pos, key: Keys, qty: [Levels -> Nat]])
  /\ returns \in Seq([po: Pos, key: Keys \cup {NoKey}, qty: [Levels -> Nat]])
  /\ invoices \in Seq([kind: {"invoice", "credit"}, number: ({"invoice", "credit"} \X Nat) \cup ClientNumbers,
                       source: {"hand", "grn", "return"}, grn: 0..Len(grns), total: Nat, paid: Nat,
                       status: {"open", "credit", "partial", "paid"}])
  /\ payments \in Seq([invoice: 1..Len(invoices), amount: Nat])
  /\ limit \in Limits /\ carried \in Nat

(* The status of an order says what came in and stayed: nothing on a draft,  *)
(* an ordered or a cancelled one, all of it on a received one and a part of  *)
(* it on a partial one; no line keeps more than was ordered.  Unless two     *)
(* requests raced on the order (updatePo, receivePo, returnPo).              *)
OrderAgrees ==
  \A p \in {p \in Pos : Order(p) \notin raced} :
    LET lines == {l \in Levels : Ordered[p][l] > 0}
        full == \A l \in lines : received[p][l] = Ordered[p][l]
    IN
    /\ \A l \in Levels : received[p][l] \in 0..Ordered[p][l]
    /\ (status[p] = "received") = full
    /\ (status[p] = "partial") = (AnyReceived(received[p]) /\ ~full)

(* Whatever requests race, the goods are accounted for: a line of an order   *)
(* holds what its receipts brought less what was returned, the stock is the  *)
(* opening one with all receipts, less returns and sales, and one key makes  *)
(* one receipt (receivePo, returnPo).                                        *)
GoodsBooked ==
  LET In(p, l) == SumOver({n \in DOMAIN grns : grns[n].po = p}, LAMBDA n : grns[n].qty[l])
      Out(p, l) == SumOver({n \in DOMAIN returns : returns[n].po = p}, LAMBDA n : returns[n].qty[l])
  IN
  /\ \A p \in Pos, l \in Levels : In(p, l) = Per[l] * (received[p][l] + Out(p, l))
  /\ \A l \in Levels :
       stock[l] = Opening[l] + SumOver(Pos, LAMBDA p : In(p, l) - Out(p, l)) - sold[l]
  /\ \A n, m \in DOMAIN grns : grns[n].key = grns[m].key => n = m

(* What is owed is right.  The amount paid of an invoice or a credit note is *)
(* never above its total nor above the sum of its payments, and is that sum  *)
(* unless two requests raced on it; it decides the status.  What             *)
(* createInvoiceFromGrn makes is the first invoice of its receipt, unless    *)
(* two requests raced on the receipt; createInvoice may add others by hand.  *)
(* The invoices not paid stay within the credit limit, if there is one, or   *)
(* within what was owed when the limit was last changed, unless two requests *)
(* raced on the supplier, or on an invoice, where one payment may overwrite  *)
(* another and what was paid is owed again (payInvoice, createInvoice,       *)
(* createInvoiceFromGrn, updateSupplier).                                    *)
PayablesAgree ==
  /\ \A i \in DOMAIN invoices :
       LET v == invoices[i]
           sum == SumOver({n \in DOMAIN payments : payments[n].invoice = i}, LAMBDA n : payments[n].amount)
       IN
       /\ v.paid <= v.total /\ v.paid <= sum
       /\ Invoice(i) \notin raced => v.paid = sum
       /\ (v.status = "paid") = (v.paid = v.total)
       /\ (v.status = "partial") = (0 < v.paid /\ v.paid < v.total)
  /\ \A i, j \in DOMAIN invoices :
       invoices[i].source = "grn" /\ invoices[j].grn = invoices[i].grn /\ Receipt(invoices[i].grn) \notin raced =>
         i <= j
  /\ limit > 0 /\ Supplier \notin raced /\ (\A i \in DOMAIN invoices : Invoice(i) \notin raced) =>
       LET owed == SumOver({i \in DOMAIN invoices : invoices[i].kind = "invoice" /\ invoices[i].status \in {"open", "partial"}},
                           LAMBDA i : invoices[i].total - invoices[i].paid)
       IN owed <= limit \/ owed <= carried
=============================================================================
