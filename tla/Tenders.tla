------------------------------- MODULE Tenders -------------------------------
(***************************************************************************)
(* The tenders of one order that need no payment provider: cash, store     *)
(* credit, a gift card and bank transfers, their refunds, and the cash     *)
(* drawer of the shop.                                                     *)
(*                                                                         *)
(*   payments/payments.service.ts    create, confirmBankTransfer, refund,  *)
(*                                   insertRefundRow, resolveRegister,     *)
(*                                   debitStoreCredit                      *)
(*   loyalty/loyalty.service.ts      redeemGiftCardInTx                    *)
(*   customers/customers.service.ts  adjustStoreCredit                     *)
(*   pos/pos.service.ts              openRegister, closeRegister,          *)
(*                                   addRegisterCashMovement               *)
(*   orders/orders.service.ts        recalculateTotals                     *)
(*                                                                         *)
(* The variables hold committed rows.  What a transaction has written so   *)
(* far is in its handler and appears with the commit; the locks it holds   *)
(* until then are variables.  The order stays payable; closing it and the  *)
(* journal are in StripeSale.  Amounts are whole money units.              *)
(***************************************************************************)
EXTENDS Integers, Sequences, FiniteSets, SequencesExt

CONSTANTS
  Handlers,   \* concurrent requests
  Keys,       \* idempotency keys of payments and refunds
  Requests,   \* what clients may ask for, see RequestType
  Total,      \* grand total of the order
  Credit,     \* opening balance of each wallet
  MaxCalls,   \* bound: requests
  MaxTogether, \* bound: requests that begin while another one is running
  MaxCrashes  \* bound: handlers lost in the middle of a request

Wallets == {"credit", "giftcard"}
Methods == Wallets \cup {"cash", "bank"}

RequestType ==
  [op: {"pay"}, key: Keys, method: Methods, amount: Nat \ {0}]
    \cup [op: {"refund"}, key: Keys, parent: Keys, amount: Nat \ {0}]
    \cup [op: {"adjust", "move"}, amount: Int \ {0}]
    \cup [op: {"open"}, float: Nat]

ASSUME TendersAssumption ==
  /\ IsFiniteSet(Keys)
  /\ "free" \notin Handlers
  /\ Requests \subseteq RequestType
  /\ Total \in Nat \ {0}
  /\ Credit \in [Wallets -> Nat]
  /\ {MaxCalls, MaxTogether, MaxCrashes} \subseteq Nat

VARIABLES
  due,        \* orders.balance_due
  pay,        \* payment rows by idempotency key; NoRow when absent
  keyLock,    \* the transaction that inserted or updated a payment row
  wallet,     \* customers.store_credit_balance, gift_cards.balance
  walletLock, \* the transaction that updated a wallet row
  debits,     \* what the ledger entries of order payments took from a wallet
  topups,     \* what the other store credit entries put in
  sessions,   \* register sessions, in the order they were opened
  handler,    \* what each handler is doing
  raced,      \* history: what requests that ran at once may have spoiled, see AtRisk
  calls, together, crashes

rowVars == <<due, pay, wallet, debits, topups, sessions>>
lockVars == <<keyLock, walletLock>>
callVars == <<raced, calls, together>>
vars == <<rowVars, lockVars, handler, callVars, crashes>>

Free == "free"
Idle == [pc |-> "idle"]
NoSession == 0     \* registerSessionId: null
NewSession == -1   \* the session the transaction has created itself

NoRow == [kind |-> "none", method |-> "none", status |-> "none", amount |-> 0,
          session |-> NoSession, parent |-> "none"]

-----------------------------------------------------------------------------
(* Sums over payment rows.                                                   *)

AmountOf(K) == SumFunction([k \in K |-> pay[k].amount])
Rows(kind) == {k \in Keys : pay[k].kind = kind /\ pay[k].status = "succeeded"}
NetPaid == AmountOf(Rows("sale")) - AmountOf(Rows("refund"))
DueFor(paid) == IF Total > paid THEN Total - paid ELSE 0

RefundsOf(k) == {r \in Rows("refund") : pay[r].parent = k}
RefundableEach(k) == pay[k].amount   \* fault: earlier refunds do not count
Refundable(k) ==
  LET left == pay[k].amount - AmountOf(RefundsOf(k)) IN IF left > 0 THEN left ELSE 0

OpenSessions == {s \in DOMAIN sessions : sessions[s].open}
CashOf(kind, s) == AmountOf({k \in Rows(kind) : pay[k].method = "cash" /\ pay[k].session = s})
NewDrawer(float) == [open |-> TRUE, float |-> float, moved |-> 0, expected |-> 0]

-----------------------------------------------------------------------------

Init ==
  /\ due = Total
  /\ pay = [k \in Keys |-> NoRow]
  /\ keyLock = [k \in Keys |-> Free]
  /\ wallet = Credit
  /\ walletLock = [w \in Wallets |-> Free]
  /\ debits = [w \in Wallets |-> 0]
  /\ topups = 0
  /\ sessions = <<>>
  /\ handler = [h \in Handlers |-> Idle]
  /\ raced = {}
  /\ calls = 0 /\ together = 0 /\ crashes = 0

At(h, pc) == handler[h].pc = pc
Become(h, state) == handler' = [handler EXCEPT ![h] = state]
Goto(h, pc) == handler' = [handler EXCEPT ![h].pc = pc]
Done(h) == Become(h, Idle)
Local == UNCHANGED <<rowVars, lockVars, callVars, crashes>>

Asked(op) == {r \in Requests : r.op = op}

Paying == {"order", "drawer", "wallet", "debit", "insert", "sum", "commit",
           "confirm", "confirmSum", "refund", "refundDrawer"}
Counting == {"count", "close"}

WalletsOf(s) ==
  IF s.pc = "adjust" THEN {"credit"}
  ELSE IF s.pc \in Paying /\ s.row.kind = "sale" THEN {s.row.method} \cap Wallets ELSE {}

(* What request s may get wrong because request t runs beside it: the        *)
(* balance a payment looks at, what is left to refund of a payment, the      *)
(* drawer that cash goes into or comes out of, and a wallet both write.      *)
AtRisk(s, t) ==
  (IF {s.pc, t.pc} \subseteq Paying /\ s.row.kind = "sale" THEN {<<"order", s.key>>} ELSE {})
  \cup (IF {s.pc, t.pc} \subseteq Paying /\ s.row.kind = "refund" /\ t.row.kind = "refund"
           /\ s.row.parent = t.row.parent THEN {<<"refund", s.key>>} ELSE {})
  \cup (IF s.pc \in Paying /\ s.row.kind = "sale" /\ s.row.method = "cash" /\ t.pc \in Counting
        THEN {<<"count", s.key>>} ELSE {})
  \cup (IF s.pc = "move" /\ t.pc \in Counting /\ s.session = t.session
        THEN {<<"drawer", s.session>>} ELSE {})
  \cup {<<"wallet", w>> : w \in WalletsOf(s) \cap WalletsOf(t)}

(* A request reaches the server and makes its first reads. *)
Request(h, state) ==
  LET others == {o \in Handlers \ {h} : ~At(o, "idle")} IN
  /\ At(h, "idle")
  /\ calls < MaxCalls /\ calls' = calls + 1
  /\ IF others = {} THEN UNCHANGED together ELSE together < MaxTogether /\ together' = together + 1
  /\ Become(h, state)
  /\ raced' = raced \cup UNION {AtRisk(state, handler[o]) \cup AtRisk(handler[o], state) : o \in others}
  /\ UNCHANGED <<rowVars, lockVars, crashes>>

LocksWithout(h) ==
  /\ keyLock' = [k \in Keys |-> IF keyLock[k] = h THEN Free ELSE keyLock[k]]
  /\ walletLock' = [w \in Wallets |-> IF walletLock[w] = h THEN Free ELSE walletLock[w]]

-----------------------------------------------------------------------------
(* payments.create.  A key that has a row already is answered with the row;  *)
(* that request changes nothing and is left out.                             *)

StatusOf(method) == IF method = "bank" THEN "pending" ELSE "succeeded"

CallPay(h) ==
  \E r \in Asked("pay") :
    /\ pay[r.key] = NoRow
    /\ Request(h, [pc |-> "order", key |-> r.key, next |-> 0, sum |-> 0,
                   row |-> [NoRow EXCEPT !.kind = "sale", !.method = r.method,
                                         !.status = StatusOf(r.method), !.amount = r.amount]])

StepFor(method) ==
  CASE method = "cash" -> "drawer"
    [] method \in Wallets -> "wallet"
    [] OTHER -> "insert"

(* Fault: an amount above the balance is taken as it is. *)
ReadOrderUncapped(h) ==
  /\ At(h, "order")
  /\ IF due > 0 THEN Goto(h, StepFor(handler[h].row.method)) ELSE Done(h)
  /\ Local

(* A tender that succeeds at once is refused on a paid order; above the      *)
(* balance, cash is clamped to it and a wallet is refused.  A bank transfer  *)
(* is only pending and passes.                                               *)
ReadOrder(h) ==
  /\ At(h, "order")
  /\ LET row == handler[h].row
         above == row.status = "succeeded" /\ row.amount > due IN
       IF above /\ (due = 0 \/ row.method # "cash") THEN Done(h)
       ELSE handler' = [handler EXCEPT ![h].pc = StepFor(row.method),
                                       ![h].row.amount = IF above THEN due ELSE @]
  /\ Local

(* Fault: the drawer opened last, whether it has been closed or not. *)
FindLastDrawer(h) ==
  /\ At(h, "drawer")
  /\ handler' = [handler EXCEPT ![h].pc = "insert",
       ![h].row.session = IF sessions = <<>> THEN NewSession ELSE Len(sessions)]
  /\ Local

(* resolveRegister: the drawer opened last, or a new one. *)
FindDrawer(h) ==
  /\ At(h, "drawer")
  /\ handler' = [handler EXCEPT ![h].pc = "insert",
       ![h].row.session = IF OpenSessions = {} THEN NewSession
                          ELSE CHOOSE s \in OpenSessions : \A t \in OpenSessions : t <= s]
  /\ Local

(* debitStoreCredit and redeemGiftCardInTx: the balance is read and tested,  *)
(* then written as an absolute value, which locks the row.                   *)
ReadWallet(h) ==
  /\ At(h, "wallet")
  /\ LET row == handler[h].row
         left == wallet[row.method] - row.amount IN
       IF left < 0 THEN Done(h)
       ELSE handler' = [handler EXCEPT ![h].pc = "debit", ![h].next = left]
  /\ Local

DebitOutsideTx(h) ==   \* fault: the wallet is not written by the transaction
  /\ At(h, "debit")
  /\ walletLock[handler[h].row.method] = Free
  /\ wallet' = [wallet EXCEPT ![handler[h].row.method] = handler[h].next]
  /\ Goto(h, "insert")
  /\ UNCHANGED <<due, pay, debits, topups, sessions, lockVars, callVars, crashes>>

Debit(h) ==
  /\ At(h, "debit")
  /\ walletLock[handler[h].row.method] = Free
  /\ walletLock' = [walletLock EXCEPT ![handler[h].row.method] = h]
  /\ Goto(h, "insert")
  /\ UNCHANGED <<rowVars, keyLock, callVars, crashes>>

Inserted(h) ==
  /\ keyLock' = [keyLock EXCEPT ![handler[h].key] = h]
  /\ Goto(h, IF handler[h].row.status = "succeeded" THEN "sum" ELSE "commit")
  /\ UNCHANGED <<rowVars, walletLock, callVars, crashes>>

(* Faults: the loser of a key answers with the winner and commits what it    *)
(* did before; it waits for ever.                                            *)
InsertKeepingDebit(h) ==
  /\ At(h, "insert")
  /\ LET k == handler[h].key
         row == handler[h].row IN
       /\ keyLock[k] = Free
       /\ IF pay[k] = NoRow THEN Inserted(h)
          ELSE /\ IF row.kind = "sale" /\ row.method \in Wallets
                  THEN /\ wallet' = [wallet EXCEPT ![row.method] = handler[h].next]
                       /\ debits' = [debits EXCEPT ![row.method] = @ + row.amount]
                  ELSE UNCHANGED <<wallet, debits>>
               /\ LocksWithout(h)
               /\ Done(h)
               /\ UNCHANGED <<due, pay, topups, sessions, callVars, crashes>>

InsertWaiting(h) ==
  /\ At(h, "insert")
  /\ pay[handler[h].key] = NoRow
  /\ keyLock[handler[h].key] = Free
  /\ Inserted(h)

(* The key is unique.  A second insert waits for the first; if that one      *)
(* commits, Postgres aborts the second transaction, so the query for the     *)
(* winner inside it fails and everything it did is rolled back.  A refund    *)
(* looks for the winner after its transaction, with the same effect.         *)
Insert(h) ==
  /\ At(h, "insert")
  /\ IF pay[handler[h].key] = NoRow
     THEN keyLock[handler[h].key] = Free /\ Inserted(h)
     ELSE /\ LocksWithout(h)
          /\ Done(h)
          /\ UNCHANGED <<rowVars, callVars, crashes>>

(* recalculateTotals sums the succeeded rows, among them its own, and then   *)
(* writes the balance; the order row is locked from there to the commit,     *)
(* which is one step.                                                        *)
Signed(row) == IF row.kind = "refund" THEN -row.amount ELSE row.amount

Sum(h) ==
  /\ At(h, "sum")
  /\ handler' = [handler EXCEPT ![h].pc = "commit", ![h].sum = NetPaid + Signed(handler[h].row)]
  /\ Local

Commit(h) ==
  /\ At(h, "commit")
  /\ LET row == handler[h].row
         opens == row.session = NewSession
         spends == row.kind = "sale" /\ row.method \in Wallets IN
       /\ pay' = [pay EXCEPT ![handler[h].key] =
                    [row EXCEPT !.session = IF opens THEN Len(sessions) + 1 ELSE @]]
       /\ sessions' = IF opens THEN Append(sessions, NewDrawer(0)) ELSE sessions
       /\ due' = IF row.status = "succeeded" THEN DueFor(handler[h].sum) ELSE due
       /\ wallet' = IF spends THEN [wallet EXCEPT ![row.method] = handler[h].next] ELSE wallet
       /\ debits' = IF spends THEN [debits EXCEPT ![row.method] = @ + row.amount] ELSE debits
  /\ LocksWithout(h)
  /\ Done(h)
  /\ UNCHANGED <<topups, callVars, crashes>>

-----------------------------------------------------------------------------
(* confirmBankTransfer: the status is tested before the transaction, the row *)
(* is updated whatever it has become.                                        *)

CallConfirm(h) ==
  \E k \in Keys :
    /\ pay[k].method = "bank" /\ pay[k].kind = "sale" /\ pay[k].status = "pending"
    /\ Request(h, [pc |-> "confirm", key |-> k, next |-> 0, sum |-> 0,
                   row |-> [pay[k] EXCEPT !.status = "succeeded"]])

Confirm(h) ==
  /\ At(h, "confirm")
  /\ keyLock[handler[h].key] = Free
  /\ keyLock' = [keyLock EXCEPT ![handler[h].key] = h]
  /\ Goto(h, "confirmSum")
  /\ UNCHANGED <<rowVars, walletLock, callVars, crashes>>

ConfirmSum(h) ==
  /\ At(h, "confirmSum")
  /\ LET before == pay[handler[h].key] IN
       handler' = [handler EXCEPT ![h].pc = "commit",
         ![h].sum = NetPaid + IF before.status = "succeeded" THEN 0 ELSE before.amount]
  /\ Local

-----------------------------------------------------------------------------
(* payments.refund: key, parent, what was refunded already and the drawer    *)
(* are read one by one; then a transaction inserts the row.                  *)

CallRefund(h) ==
  \E r \in Asked("refund") :
    /\ pay[r.key] = NoRow
    /\ r.parent \in Rows("sale")
    /\ Request(h, [pc |-> "refund", key |-> r.key, next |-> 0, sum |-> 0,
                   row |-> [pay[r.parent] EXCEPT !.kind = "refund", !.amount = r.amount,
                                                 !.parent = r.parent]])

CapRefund(h) ==
  /\ At(h, "refund")
  /\ LET row == handler[h].row IN
       IF row.amount > Refundable(row.parent) THEN Done(h)
       ELSE Goto(h, IF row.method = "cash" THEN "refundDrawer" ELSE "insert")
  /\ Local

(* Cash comes out of an open drawer; without one the refund is put on the    *)
(* session of the payment, which is closed by now.                           *)
RefundDrawer(h) ==
  /\ At(h, "refundDrawer")
  /\ \E s \in IF OpenSessions = {} THEN {handler[h].row.session} ELSE OpenSessions :
       handler' = [handler EXCEPT ![h].pc = "insert", ![h].row.session = s]
  /\ Local

-----------------------------------------------------------------------------
(* adjustStoreCredit: reads and tests the balance before its transaction.    *)

CallAdjust(h) ==
  \E r \in Asked("adjust") :
    /\ wallet["credit"] + r.amount >= 0
    /\ Request(h, [pc |-> "adjust", amount |-> r.amount,
                   next |-> wallet["credit"] + r.amount])

Adjust(h) ==
  /\ At(h, "adjust")
  /\ walletLock["credit"] = Free
  /\ wallet' = [wallet EXCEPT !["credit"] = handler[h].next]
  /\ topups' = topups + handler[h].amount
  /\ Done(h)
  /\ UNCHANGED <<due, pay, debits, sessions, lockVars, callVars, crashes>>

-----------------------------------------------------------------------------
(* The cash drawer.                                                          *)

CallOpen(h) ==
  \E r \in Asked("open") :
    /\ OpenSessions = {}
    /\ Request(h, [pc |-> "open", float |-> r.float])

OpenDrawer(h) ==
  /\ At(h, "open")
  /\ sessions' = Append(sessions, NewDrawer(handler[h].float))
  /\ Done(h)
  /\ UNCHANGED <<due, pay, wallet, debits, topups, lockVars, callVars, crashes>>

CallMove(h) ==
  \E r \in Asked("move"), s \in OpenSessions :
    Request(h, [pc |-> "move", session |-> s, amount |-> r.amount])

MoveCash(h) ==
  /\ At(h, "move")
  /\ sessions' = [sessions EXCEPT ![handler[h].session].moved = @ + handler[h].amount]
  /\ Done(h)
  /\ UNCHANGED <<due, pay, wallet, debits, topups, lockVars, callVars, crashes>>

(* closeRegister: sales, refunds and movements are summed by three queries   *)
(* at once, in any order; then the session is closed, whatever it has become. *)
CountParts == {"sales", "refunds", "moved"}

CallClose(h) ==
  \E s \in OpenSessions : Request(h, [pc |-> "count", session |-> s, count |-> [p \in {} |-> 0]])

CountOf(part, s) ==
  CASE part = "sales" -> CashOf("sale", s)
    [] part = "refunds" -> -CashOf("refund", s)
    [] OTHER -> sessions[s].moved

CountPart(h) ==
  /\ At(h, "count")
  /\ \E part \in CountParts \ DOMAIN handler[h].count :
       LET counted == DOMAIN handler[h].count \cup {part} IN
         handler' = [handler EXCEPT
           ![h].pc = IF counted = CountParts THEN "close" ELSE "count",
           ![h].count = [p \in counted |-> IF p = part THEN CountOf(p, handler[h].session)
                                           ELSE handler[h].count[p]]]
  /\ Local

ExpectedCash(float, count) == float + count["sales"] + count["refunds"] + count["moved"]

CloseDrawer(h) ==
  /\ At(h, "close")
  /\ LET s == handler[h].session IN
       sessions' = [sessions EXCEPT
         ![s].open = FALSE,
         ![s].expected = ExpectedCash(sessions[s].float, handler[h].count)]
  /\ Done(h)
  /\ UNCHANGED <<due, pay, wallet, debits, topups, lockVars, callVars, crashes>>

-----------------------------------------------------------------------------

(* The process dies: the open transaction rolls back. *)
Crash(h) ==
  /\ ~At(h, "idle")
  /\ crashes < MaxCrashes
  /\ crashes' = crashes + 1
  /\ LocksWithout(h)
  /\ Done(h)
  /\ UNCHANGED <<rowVars, callVars>>

Call(h) ==
  \/ CallPay(h) \/ CallConfirm(h) \/ CallRefund(h) \/ CallAdjust(h)
  \/ CallOpen(h) \/ CallMove(h) \/ CallClose(h)

Proceed(h) ==
  \/ ReadOrder(h) \/ FindDrawer(h) \/ ReadWallet(h) \/ Debit(h)
  \/ Insert(h) \/ Sum(h) \/ Commit(h)
  \/ Confirm(h) \/ ConfirmSum(h)
  \/ CapRefund(h) \/ RefundDrawer(h)
  \/ Adjust(h) \/ OpenDrawer(h) \/ MoveCash(h) \/ CountPart(h) \/ CloseDrawer(h)

Next == \E h \in Handlers : Call(h) \/ Proceed(h) \/ Crash(h)

Spec == Init /\ [][Next]_vars

(* A request that is running is run to its end; clients owe nothing. *)
FairSpec == Spec /\ \A h \in Handlers : WF_vars(Proceed(h))

-----------------------------------------------------------------------------

(* create: tenders that succeed at once never take more than was due.  Left  *)
(* out are bank transfers, confirmed without a look at the balance, and a    *)
(* payment that ran beside another request on the payments of the order: all *)
(* other payments, less what was refunded, stay within the order, whatever   *)
(* the raced ones did to its balance.                                        *)
Plain == {k \in Rows("sale") : pay[k].method # "bank" /\ <<"order", k>> \notin raced}
PlainPaid == AmountOf(Plain) - AmountOf(Rows("refund"))
NoOverpayment == PlainPaid <= Total

(* refund: all refunds of a payment together never exceed it, but for those  *)
(* that ran beside another refund of it.                                     *)
PlainRefunds(k) == {r \in RefundsOf(k) : <<"refund", r>> \notin raced}
RefundsCapped == \A k \in Rows("sale") : AmountOf(PlainRefunds(k)) <= pay[k].amount

(* Every debit of a wallet belongs to one payment of the order, however      *)
(* often a request is repeated: a payment that is not recorded took nothing. *)
DebitedOnce ==
  \A w \in Wallets : debits[w] = AmountOf({k \in Rows("sale") : pay[k].method = w})

Given(w) == Credit[w] + IF w = "credit" THEN topups ELSE 0

(* No wallet is ever written below zero, and the balance of a wallet is the  *)
(* sum of its ledger unless two requests on it overlapped, where the balance *)
(* one of them has read may be stale (debitStoreCredit, redeemGiftCardInTx,  *)
(* adjustStoreCredit).                                                       *)
CreditAgrees ==
  \A w \in Wallets :
    /\ wallet[w] >= 0
    /\ <<"wallet", w>> \notin raced => wallet[w] = Given(w) - debits[w]

PlainCash(s) ==
  AmountOf({k \in Rows("sale") : pay[k].method = "cash" /\ pay[k].session = s /\ <<"count", k>> \notin raced})
InDrawer(s) == sessions[s].float + sessions[s].moved + PlainCash(s) - CashOf("refund", s)

(* closeRegister: no cash that was put into a drawer escapes its count,      *)
(* whatever else runs at once, but for a payment that ran beside a count,    *)
(* and for a drawer into which cash was moved while it was counted.  A       *)
(* refund that comes later without an open drawer only takes cash out of it. *)
NoUncountedCash ==
  \A s \in DOMAIN sessions :
    ~sessions[s].open /\ <<"drawer", s>> \notin raced => InDrawer(s) <= sessions[s].expected

(* No request hangs: requests do not wait for each other's locks for good.   *)
RequestsEnd == \A h \in Handlers : ~At(h, "idle") ~> At(h, "idle")
=============================================================================
