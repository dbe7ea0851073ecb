----------------------------- MODULE SaleReturns -----------------------------
(***************************************************************************)
(* Returns and exchanges of one closed, fully paid sale                    *)
(* (pos/sale-returns.service.ts: saleReturn, approveSaleReturn,            *)
(* rejectSaleReturn, completeSaleReturn, saleExchange).                    *)
(*                                                                         *)
(* The variables hold committed rows.  A handler keeps the request and the *)
(* refunds it has read; its transaction, which other handlers see only     *)
(* when it commits, is one step.  Units are whole pieces with one price;   *)
(* discounts, store credit (see Tenders), recipes (see StockEngine), the   *)
(* journal and loyalty are left out.                                       *)
(***************************************************************************)
EXTENDS Integers, Sequences, FiniteSets, SequencesExt

CONSTANTS
  Levels,      \* stock levels of the products that were sold
  Keys,        \* idempotency keys of returns and exchanges
  Handlers,    \* concurrent requests
  Requests,    \* what clients may ask for, see RequestType
  Sold,        \* pieces of each level on the sale
  Price,       \* what a piece was sold for, tax included
  Opening,     \* pieces on hand after the sale
  MaxCalls,    \* bound: requests
  MaxCrashes   \* bound: handlers lost in the middle of a request

Line == [lv: Levels, qty: Nat \ {0}, good: BOOLEAN]
Swap == [lv: Levels, qty: Nat \ {0}]
RequestType ==
  [op: {"return"}, key: Keys, lines: Seq(Line), amount: Nat, approver: BOOLEAN]
    \cup [op: {"exchange"}, key: Keys, lines: Seq(Line), replace: Seq(Swap)]
    \cup [op: {"approve", "reject"}, key: Keys]

(* The rows of an exchange carry a suffix of their own, so its key never      *)
(* meets that of a return; the lines of one request name different levels.   *)
ASSUME ReturnsAssumption ==
  /\ IsFiniteSet(Levels) /\ IsFiniteSet(Keys)
  /\ Requests \subseteq RequestType
  /\ \A r, q \in Requests : r.key = q.key => (r.op = "exchange") = (q.op = "exchange")
  /\ \A r \in Requests : r.op \in {"return", "exchange"} =>
       \A i, j \in DOMAIN r.lines : r.lines[i].lv = r.lines[j].lv => i = j
  /\ \A r \in Requests : r.op = "exchange" =>
       \A i, j \in DOMAIN r.replace : r.replace[i].lv = r.replace[j].lv => i = j
  /\ Sold \in [Levels -> Nat] /\ Price \in [Levels -> Nat] /\ Opening \in [Levels -> Nat]
  /\ MaxCalls \in Nat /\ MaxCrashes \in Nat

VARIABLES
  event,     \* return_events by idempotency key
  refund,    \* succeeded refund rows of the sale by idempotency key, 0 when absent
  stock,     \* stock_levels.qty_on_hand
  damaged,   \* stock_levels.qty_damaged
  handler,   \* what each handler is doing
  overlap,   \* history: two requests have been running at once
  calls, crashes

rowVars == <<event, refund, stock, damaged>>
vars == <<rowVars, handler, overlap, calls, crashes>>

Idle == [pc |-> "idle"]
NoEvent == [status |-> "none", lines |-> <<>>, replace |-> <<>>, amount |-> 0]
Statuses == {"none", "requested", "approved", "completed", "rejected"}

-----------------------------------------------------------------------------
(* Quantities and amounts.                                                   *)

Total(lines, N(_)) == SumFunction([i \in DOMAIN lines |-> N(lines[i])])
QtyOf(lines, l) == Total(lines, LAMBDA i : IF i.lv = l THEN i.qty ELSE 0)
GoodOf(lines, l) == Total(lines, LAMBDA i : IF i.lv = l /\ i.good THEN i.qty ELSE 0)
ValueOf(lines) == Total(lines, LAMBDA i : i.qty * Price[i.lv])

SumOver(K, N(_)) == SumFunction([k \in K |-> N(k)])

Paid == SumOver(Levels, LAMBDA l : Sold[l] * Price[l])

(* OPEN_RETURN_STATUSES and QTY_RESERVE_STATUSES; "processing" is never committed. *)
OpenStatuses == {"requested", "approved"}
ReservingOpen == OpenStatuses   \* fault: a completed return reserves nothing
Reserving == OpenStatuses \cup {"completed"}

ReturnedQty(l) ==
  SumOver({k \in Keys : event[k].status \in Reserving}, LAMBDA k : QtyOf(event[k].lines, l))

Refunded == SumOver(Keys, LAMBDA k : refund[k])

(* What is left of the payment, given the refunds read earlier. *)
Refundable(refunded, except) ==
  LET open == SumOver({k \in Keys \ except : event[k].status \in OpenStatuses},
                      LAMBDA k : event[k].amount)
  IN Paid - refunded - open

(* Every line is compared with what remains of its level. *)
QtyLeft(lines) ==
  \A i \in DOMAIN lines : /\ Sold[lines[i].lv] > 0
                          /\ lines[i].qty <= Sold[lines[i].lv] - ReturnedQty(lines[i].lv)

AmountOf(r) == IF r.op = "return" /\ r.amount > 0 THEN r.amount ELSE ValueOf(r.lines)

AmountLeft(r, refunded) ==
  /\ 0 < AmountOf(r) /\ AmountOf(r) <= ValueOf(r.lines)
  /\ AmountOf(r) <= Refundable(refunded, {})
-----------------------------------------------------------------------------

Init ==
  /\ event = [k \in Keys |-> NoEvent]
  /\ refund = [k \in Keys |-> 0]
  /\ stock = Opening
  /\ damaged = [l \in Levels |-> 0]
  /\ handler = [h \in Handlers |-> Idle]
  /\ overlap = FALSE
  /\ calls = 0 /\ crashes = 0

At(h, pc) == handler[h].pc = pc
Become(h, state) == handler' = [handler EXCEPT ![h] = state]
Goto(h, pc) == handler' = [handler EXCEPT ![h].pc = pc]
Done(h) == Become(h, Idle)
Local == UNCHANGED <<rowVars, overlap, calls, crashes>>

Call(h, state) ==
  /\ At(h, "idle")
  /\ calls < MaxCalls
  /\ calls' = calls + 1
  /\ Become(h, state)
  /\ overlap' = (overlap \/ \E o \in Handlers \ {h} : ~At(o, "idle"))
  /\ UNCHANGED <<rowVars, crashes>>

Asked(op) == {r \in Requests : r.op = op}

-----------------------------------------------------------------------------
(* saleReturn, saleExchange: read the sale with its payments, look the key   *)
(* up, compare with the other returns, then act.                             *)

CallReturn(h) ==
  \E r \in Asked("return") \cup Asked("exchange") :
    Call(h, [pc |-> "find", req |-> r, refunded |-> Refunded])

(* A call whose key is known is answered with what was done.  An exchange   *)
(* reads the sale only then.                                                 *)
Known(k) == refund[k] > 0 \/ event[k] # NoEvent
FindReturn(h) ==
  LET r == handler[h].req IN
  /\ At(h, "find")
  /\ IF Known(r.key) THEN Done(h)
     ELSE IF r.op = "exchange"
            THEN Become(h, [pc |-> "quantity", req |-> r, refunded |-> Refunded])
            ELSE Goto(h, "quantity")
  /\ Local

CheckQuantity(h) ==
  /\ At(h, "quantity")
  /\ IF QtyLeft(handler[h].req.lines) THEN Goto(h, "amount") ELSE Done(h)
  /\ Local

Route(r) == IF r.op = "exchange" THEN "swap"
            ELSE IF r.approver THEN "complete" ELSE "request"
CheckAmount(h) ==
  LET r == handler[h].req IN
  /\ At(h, "amount")
  /\ IF AmountLeft(r, handler[h].refunded) THEN Goto(h, Route(r)) ELSE Done(h)
  /\ Local

NewEvent(r, status, replace) ==
  [status |-> status, lines |-> r.lines, replace |-> replace, amount |-> AmountOf(r)]

(* The return waits for a manager; a duplicate key is an error. *)
InsertRequest(h) ==
  LET r == handler[h].req IN
  /\ At(h, "request")
  /\ IF event[r.key] = NoEvent
       THEN event' = [event EXCEPT ![r.key] = NewEvent(r, "requested", <<>>)]
       ELSE UNCHANGED event
  /\ Done(h)
  /\ UNCHANGED <<refund, stock, damaged, overlap, calls, crashes>>

(* restockLine: good pieces return to stock, the others are counted damaged. *)
Restock(lines, replace) ==
  /\ stock' = [l \in Levels |-> stock[l] + GoodOf(lines, l) - QtyOf(replace, l)]
  /\ damaged' = [l \in Levels |-> damaged[l] + QtyOf(lines, l) - GoodOf(lines, l)]

Settle(k, ev) ==
  /\ event' = [event EXCEPT ![k] = [ev EXCEPT !.status = "completed"]]
  /\ refund' = [refund EXCEPT ![k] = ev.amount]
  /\ Restock(ev.lines, ev.replace)

(* Faults: the goods come back although the refund exists; the event is     *)
(* closed by a statement that the abort does not undo.                       *)
FinishUnkeyed(k, ev, fresh) ==
  IF fresh /\ event[k] # NoEvent THEN UNCHANGED rowVars ELSE Settle(k, ev)
FinishOutside(k, ev, fresh) ==
  IF (fresh /\ event[k] # NoEvent) \/ refund[k] > 0
    THEN /\ event' = [event EXCEPT ![k].status = "completed"]
         /\ UNCHANGED <<refund, stock, damaged>>
    ELSE Settle(k, ev)

(* The transaction of completeSaleReturn and of saleExchange.  The unique    *)
(* keys of the event and of the refund abort it as a whole.                  *)
Finish(k, ev, fresh) ==
  IF (fresh /\ event[k] # NoEvent) \/ refund[k] > 0
    THEN UNCHANGED rowVars
    ELSE Settle(k, ev)

CompleteReturn(h) ==
  LET r == handler[h].req IN
  /\ At(h, "complete")
  /\ Finish(r.key, NewEvent(r, "completed", <<>>), TRUE)
  /\ Done(h)
  /\ UNCHANGED <<overlap, calls, crashes>>

(* saleExchange reads the stock of the replacements before its transaction. *)
CheckSwap(h) ==
  LET r == handler[h].req IN
  /\ At(h, "swap")
  /\ IF \A i \in DOMAIN r.replace : stock[r.replace[i].lv] >= r.replace[i].qty
       THEN Goto(h, "exchange")
       ELSE Done(h)
  /\ Local

CompleteExchange(h) ==
  LET r == handler[h].req IN
  /\ At(h, "exchange")
  /\ Finish(r.key, NewEvent(r, "completed", r.replace), TRUE)
  /\ Done(h)
  /\ UNCHANGED <<overlap, calls, crashes>>

-----------------------------------------------------------------------------
(* approveSaleReturn, rejectSaleReturn: decisions on a waiting return.       *)

CallDecide(h) ==
  \E r \in Asked("approve") \cup Asked("reject") :
    /\ event[r.key].status = "requested"
    /\ Call(h, [pc |-> r.op, req |-> r, refunded |-> Refunded])

CheckApproval(h) ==
  LET k == handler[h].req.key IN
  /\ At(h, "approve")
  /\ IF event[k].amount <= Refundable(handler[h].refunded, {k})
       THEN Goto(h, "mark")
       ELSE Done(h)
  /\ Local

SetStatus(k, status) == event' = [event EXCEPT ![k].status = status]

MarkApproved(h) ==
  /\ At(h, "mark")
  /\ SetStatus(handler[h].req.key, "approved")
  /\ Goto(h, "finish")
  /\ UNCHANGED <<refund, stock, damaged, overlap, calls, crashes>>

FinishApproved(h) ==
  LET k == handler[h].req.key IN
  /\ At(h, "finish")
  /\ Finish(k, event[k], FALSE)
  /\ Done(h)
  /\ UNCHANGED <<overlap, calls, crashes>>

RejectReturn(h) ==
  /\ At(h, "reject")
  /\ SetStatus(handler[h].req.key, "rejected")
  /\ Done(h)
  /\ UNCHANGED <<refund, stock, damaged, overlap, calls, crashes>>

-----------------------------------------------------------------------------
(* The server dies, or the request fails, in the middle of a handler. *)
Crash(h) ==
  /\ ~At(h, "idle")
  /\ crashes < MaxCrashes
  /\ crashes' = crashes + 1
  /\ Done(h)
  /\ UNCHANGED <<rowVars, overlap, calls>>

Work(h) ==
  \/ FindReturn(h) \/ CheckQuantity(h) \/ CheckAmount(h) \/ InsertRequest(h) \/ CompleteReturn(h)
  \/ CheckSwap(h) \/ CompleteExchange(h)
  \/ CheckApproval(h) \/ MarkApproved(h) \/ FinishApproved(h) \/ RejectReturn(h)

Next == \E h \in Handlers : CallReturn(h) \/ CallDecide(h) \/ Work(h) \/ Crash(h)

Spec == Init /\ [][Next]_vars

-----------------------------------------------------------------------------
(* Type correctness. *)
EventType == [status: Statuses, lines: Seq(Line), replace: Seq(Swap), amount: Nat]
TypeOK ==
  /\ event \in [Keys -> EventType]
  /\ refund \in [Keys -> Nat]
  /\ stock \in [Levels -> Int] /\ damaged \in [Levels -> Int]
  /\ overlap \in BOOLEAN

(* Unless two requests ran at once, no level is taken back beyond what was   *)
(* sold and no more is refunded than was paid, counting what is promised to  *)
(* waiting returns (the tests of saleReturn, saleExchange and                *)
(* approveSaleReturn against the returns that others made before).           *)
NeverOverReturned ==
  LET kept == {k \in Keys : event[k].status \notin {"none", "rejected"}}
  IN overlap \/ /\ \A l \in Levels :
                     SumOver(kept, LAMBDA k : QtyOf(event[k].lines, l)) <= Sold[l]
                /\ SumOver(kept, LAMBDA k : event[k].amount) <= Paid

(* Whatever runs at once and crashes, the stock of a level is what it was    *)
(* after the sale, plus the good pieces and minus the replacements of the    *)
(* returns that were refunded, each once (restockLine inside the             *)
(* transaction of the refund, and the unique keys of both).  A replacement   *)
(* that is not there is refused, unless two requests ran at once.            *)
Settled == {k \in Keys : refund[k] > 0}
StockExplained ==
  \A l \in Levels :
    LET moved(N(_)) == SumOver(Settled, LAMBDA k : N(event[k])) IN
    /\ stock[l] = Opening[l] + moved(LAMBDA e : GoodOf(e.lines, l) - QtyOf(e.replace, l))
    /\ damaged[l] = moved(LAMBDA e : QtyOf(e.lines, l) - GoodOf(e.lines, l))
    /\ overlap \/ stock[l] >= 0

(* A return is completed only together with its refund, in full, whatever    *)
(* runs at once and crashes; unless two requests ran at once, what was       *)
(* refunded stays completed (completeSaleReturn, saleExchange: one           *)
(* transaction; the decisions of rejectSaleReturn and approveSaleReturn).    *)
CompletedIsRefunded ==
  \A k \in Keys :
    /\ event[k].status = "completed" => refund[k] = event[k].amount
    /\ overlap \/ (refund[k] > 0 => event[k].status = "completed")
=============================================================================
