--------------------------- MODULE Tenders_proofs ---------------------------
(***************************************************************************)
(* What Tenders promises, for every order, request, key and opening        *)
(* balance, however many requests run at once: a wallet is never           *)
(* overdrawn, and what was taken from it are the payments that are         *)
(* recorded; and whatever did not run beside the request that spoils it    *)
(* (raced) is right: the balance of a wallet is the sum of its ledger,     *)
(* payments do not exceed the order, refunds do not exceed their payment,  *)
(* and no cash escapes the count of its drawer.                            *)
(*                                                                         *)
(* IInv says what holds without raced: above all that a payment row, once  *)
(* there, only changes by being confirmed, and that the request about to   *)
(* write one holds its key.  RInv adds what a running request may rely on: *)
(* what it has read still is so (Current), unless raced says that another  *)
(* one may have changed it, and requests that run at once are in raced     *)
(* (RacedOK).                                                              *)
(***************************************************************************)
EXTENDS Tenders, SumTheorems, TLAPS

RowWith(S) ==
  [kind : {"sale", "refund"}, method : Methods, status : {"pending", "succeeded"},
   amount : Nat, session : S, parent : Keys \cup {"none"}]

(* The payments that take from a wallet.                                    *)
Spends(r) == r.kind = "sale" /\ r.method \in Wallets

Holding == {"debit", "insert", "sum", "commit"}
Locking == {"sum", "commit", "confirmSum"}

PayType ==
  [pc : Paying, key : Keys, next : Int, sum : Int, row : RowWith(Nat \cup {NewSession})]

(* A bank transfer: all that is written is that it arrived.                 *)
IsConfirmed(old, new) ==
  old.kind = "sale" /\ old.method = "bank" /\ new = [old EXCEPT !.status = "succeeded"]

(* A row a request may insert.                                              *)
NewOK(r) ==
  /\ Spends(r) => r.status = "succeeded"
  /\ r.kind = "refund" => r.parent \in Rows("sale")

(* A request on a payment row.                                              *)
PayOK(s) ==
  /\ s \in PayType /\ NewOK(s.row)
  /\ s.pc \in {"order", "drawer", "wallet", "debit"} => s.row.kind = "sale"
  /\ s.pc \in {"refund", "refundDrawer"} => s.row.kind = "refund"
  /\ s.pc = "drawer" => ~Spends(s.row)
  /\ s.pc \in {"wallet", "debit"} => Spends(s.row)
  /\ s.pc \in {"confirm", "confirmSum"} => IsConfirmed(pay[s.key], s.row)
  /\ s.pc = "sum" => pay[s.key] = NoRow
  /\ s.pc = "commit" => pay[s.key] = NoRow \/ IsConfirmed(pay[s.key], s.row)
  /\ s.pc \in Holding /\ Spends(s.row) => s.next \in Nat

CountOK(s) ==
  /\ DOMAIN s = {"pc", "session", "count"} /\ s.session \in DOMAIN sessions
  /\ s.count \in [DOMAIN s.count -> Int] /\ DOMAIN s.count \subseteq CountParts
  /\ s.pc = "close" => DOMAIN s.count = CountParts

StateOK(s) ==
  /\ "pc" \in DOMAIN s
  /\ s.pc \in Paying => PayOK(s)
  /\ s.pc = "adjust" => s \in [pc : {"adjust"}, amount : Int, next : Nat]
  /\ s.pc = "open" => s \in [pc : {"open"}, float : Nat]
  /\ s.pc = "move" => s \in [pc : {"move"}, session : DOMAIN sessions, amount : Int]
  /\ s.pc \in {"count", "close"} => CountOK(s)

LockOK(h, s) == s.pc \in Locking => keyLock[s.key] = h

HandlersOK ==
  /\ DOMAIN handler = Handlers /\ DOMAIN keyLock = Keys
  /\ \A h \in Handlers : StateOK(handler[h]) /\ LockOK(h, handler[h])

Drawer == [open : BOOLEAN, float : Int, moved : Int, expected : Int]

RowsOK ==
  /\ due \in Nat
  /\ pay \in [Keys -> RowWith(Nat) \cup {NoRow}]
  /\ wallet \in [Wallets -> Nat] /\ debits \in [Wallets -> Int] /\ topups \in Int
  /\ sessions \in Seq(Drawer)

(* A refund refunds a payment that was made. *)
ParentsOK == \A r \in Rows("refund") : pay[r].parent \in Rows("sale")

IInv == RowsOK /\ ParentsOK /\ HandlersOK /\ DebitedOnce

-----------------------------------------------------------------------------
(* Sums of payments.                                                         *)

AmountIn(p, K) == SumFunction([k \in K |-> p[k].amount])

Counted(p, K) == [k \in Keys |-> IF k \in K THEN p[k].amount ELSE 0]

LEMMA AmountCounted ==
  ASSUME NEW p, \A k \in Keys : p[k].amount \in Int, NEW K \in SUBSET Keys
  PROVE  Counted(p, K) \in [Keys -> Int] /\ AmountIn(p, K) = SumFunction(Counted(p, K))
<1> DEFINE f == [k \in K |-> p[k].amount]
           g == Counted(p, K)
<1>1. g \in [Keys -> Int]
  BY DEF Counted
<1>2. DOMAIN f = K /\ (\A k \in K : f[k] = g[k]) /\ (\A k \in Keys \ K : g[k] = 0)
  BY DEF Counted
<1>3. AmountIn(p, K) = SumFunction(f)
  BY DEF AmountIn
<1>4. IsFiniteSet(Keys)
  BY TendersAssumption
<1> HIDE DEF f, g
<1>5. SumFunction(f) = SumFunction(g)
  BY <1>1, <1>2, <1>4, SumFiltered
<1> QED BY <1>1, <1>3, <1>5 DEF g

LEMMA AmountChanges ==
  ASSUME NEW p, NEW q, \A k \in Keys : p[k].amount \in Int, \A k \in Keys : q[k].amount \in Int,
         NEW K \in SUBSET Keys, NEW L \in SUBSET Keys, NEW key \in Keys,
         \A k \in Keys \ {key} : q[k] = p[k] /\ (k \in L <=> k \in K)
  PROVE  AmountIn(q, L) = AmountIn(p, K) - (IF key \in K THEN p[key].amount ELSE 0)
                                         + (IF key \in L THEN q[key].amount ELSE 0)
<1> DEFINE f == Counted(p, K)
           g == Counted(q, L)
<1>1. f \in [Keys -> Int] /\ g \in [Keys -> Int]
  BY AmountCounted
<1>2. \A k \in Keys \ {key} : g[k] = f[k]
  BY DEF Counted
<1>3. f[key] = (IF key \in K THEN p[key].amount ELSE 0) /\ g[key] = (IF key \in L THEN q[key].amount ELSE 0)
  BY DEF Counted
<1>4. AmountIn(p, K) = SumFunction(f) /\ AmountIn(q, L) = SumFunction(g)
  BY AmountCounted
<1>5. IsFiniteSet(Keys)
  BY TendersAssumption
<1> HIDE DEF f, g
<1>6. SumFunction(g) = SumFunction(f) - f[key] + g[key]
  BY <1>1, <1>2, <1>5, SumChanged
<1> QED BY <1>3, <1>4, <1>6

LEMMA RowAmounts == ASSUME RowsOK PROVE \A k \in Keys : pay[k].amount \in Nat
BY DEF RowsOK, RowWith, NoRow

LEMMA AmountNat == ASSUME RowsOK, NEW K \in SUBSET Keys PROVE AmountOf(K) \in Nat
<1> DEFINE f == [k \in K |-> pay[k].amount]
<1>1. IsFiniteSet(K)
  BY TendersAssumption, FS_Subset
<1>2. f \in [K -> Nat]
  BY RowAmounts
<1>3. SumFunction(f) \in Nat
  <2> HIDE DEF f
  <2> QED BY <1>1, <1>2, SumNat
<1> QED BY <1>3 DEF AmountOf

LEMMA NetPaidInt == ASSUME RowsOK PROVE NetPaid \in Int
<1>1. Rows("sale") \in SUBSET Keys /\ Rows("refund") \in SUBSET Keys
  BY DEF Rows
<1>2. AmountOf(Rows("sale")) \in Nat /\ AmountOf(Rows("refund")) \in Nat
  BY <1>1, AmountNat
<1> QED BY <1>2 DEF NetPaid

LEMMA AmountLess ==
  ASSUME RowsOK, NEW L \in SUBSET Keys, NEW K \in SUBSET L
  PROVE  AmountOf(K) \in Nat /\ AmountOf(L) \in Nat /\ AmountOf(K) <= AmountOf(L)
<1> DEFINE f == Counted(pay, K)
           g == Counted(pay, L)
<1>1. \A k \in Keys : pay[k].amount \in Nat
  BY RowAmounts
<1>2. f \in [Keys -> Int] /\ g \in [Keys -> Int] /\ AmountOf(K) = SumFunction(f) /\ AmountOf(L) = SumFunction(g)
  BY <1>1, AmountCounted DEF AmountOf, AmountIn
<1>3. \A k \in Keys : f[k] <= g[k]
  BY <1>1 DEF Counted
<1>4. IsFiniteSet(Keys)
  BY TendersAssumption
<1> HIDE DEF f, g
<1>5. SumFunction(f) <= SumFunction(g)
  BY <1>2, <1>3, <1>4, SumAtMost
<1> QED BY <1>2, <1>5, AmountNat

LEMMA PlainPaidInt == ASSUME RowsOK PROVE PlainPaid \in Int /\ PlainPaid <= NetPaid
<1>1. Rows("sale") \in SUBSET Keys /\ Rows("refund") \in SUBSET Keys /\ Plain \in SUBSET Rows("sale")
  BY DEF Rows, Plain
<1>2. /\ AmountOf(Rows("sale")) \in Nat /\ AmountOf(Rows("refund")) \in Nat
      /\ AmountOf(Plain) \in Nat /\ AmountOf(Plain) <= AmountOf(Rows("sale"))
  BY <1>1, AmountNat, AmountLess
<1> QED BY <1>2 DEF PlainPaid, NetPaid

LEMMA PlainRefundsLess ==
  ASSUME RowsOK, NEW k
  PROVE  /\ AmountOf(PlainRefunds(k)) \in Nat /\ AmountOf(RefundsOf(k)) \in Nat
         /\ AmountOf(PlainRefunds(k)) <= AmountOf(RefundsOf(k))
<1>1. RefundsOf(k) \in SUBSET Keys /\ PlainRefunds(k) \in SUBSET RefundsOf(k)
  BY DEF PlainRefunds, RefundsOf, Rows
<1> QED BY <1>1, AmountLess

LEMMA CashNat == ASSUME RowsOK, NEW kind, NEW s PROVE CashOf(kind, s) \in Nat
<1>1. {k \in Rows(kind) : pay[k].method = "cash" /\ pay[k].session = s} \in SUBSET Keys
  BY DEF Rows
<1> QED BY <1>1, AmountNat DEF CashOf

LEMMA PlainCashLess ==
  ASSUME RowsOK, NEW s
  PROVE  PlainCash(s) \in Nat /\ PlainCash(s) <= CashOf("sale", s)
<1> DEFINE L == {k \in Rows("sale") : pay[k].method = "cash" /\ pay[k].session = s}
           K == {k \in Rows("sale") : pay[k].method = "cash" /\ pay[k].session = s /\ <<"count", k>> \notin raced}
<1>1. L \in SUBSET Keys /\ K \in SUBSET L
  BY DEF Rows
<1> QED BY <1>1, AmountLess DEF PlainCash, CashOf

-----------------------------------------------------------------------------
(* What a request relies on.                                                 *)

Inserting == {"insert", "sum", "commit"}

(* A payment that is compared with the balance, undisturbed.                 *)
IsPlain(s) == s.row.kind = "sale" /\ s.row.method # "bank" /\ <<"order", s.key>> \notin raced

(* What the row of a request adds to PlainPaid. *)
Lifts(s) ==
  IF s.row.kind = "refund" THEN -s.row.amount ELSE IF IsPlain(s) THEN s.row.amount ELSE 0

CurrentPay(s) ==
  /\ s.pc \in Holding /\ Spends(s.row) /\ <<"wallet", s.row.method>> \notin raced
     => s.next = wallet[s.row.method] - s.row.amount
  /\ s.pc \in {"drawer", "wallet", "debit"} \cup Inserting /\ IsPlain(s) /\ s.row.status = "succeeded"
     => PlainPaid + s.row.amount <= Total
  /\ s.pc \in {"refundDrawer"} \cup Inserting /\ s.row.kind = "refund" /\ <<"refund", s.key>> \notin raced
     => AmountOf(PlainRefunds(s.row.parent)) + s.row.amount <= pay[s.row.parent].amount
  /\ s.pc \in Inserting /\ s.row.kind = "sale" /\ s.row.method = "cash" /\ <<"count", s.key>> \notin raced
     => s.row.session \in OpenSessions \cup {NewSession}
  /\ s.pc = "commit" /\ s.row.status = "succeeded" => PlainPaid + Lifts(s) <= s.sum

CurrentCount(s) ==
  /\ "sales" \in DOMAIN s.count => PlainCash(s.session) <= s.count["sales"]
  /\ "refunds" \in DOMAIN s.count => -CashOf("refund", s.session) <= s.count["refunds"]
  /\ "moved" \in DOMAIN s.count /\ <<"drawer", s.session>> \notin raced
     => s.count["moved"] = sessions[s.session].moved

Current(s) ==
  /\ s.pc \in Paying => CurrentPay(s)
  /\ s.pc = "adjust" /\ <<"wallet", "credit">> \notin raced => s.next = wallet["credit"] + s.amount
  /\ s.pc = "move" /\ <<"drawer", s.session>> \notin raced => s.session \in OpenSessions
  /\ s.pc \in Counting => CurrentCount(s)

(* The balance on the order row leaves room for what was paid in earnest,    *)
(* and refunds fit their payment.                                            *)
Sound == PlainPaid + due <= Total /\ RefundsCapped

(* Two requests that run at once know what they put at risk.                 *)
RacedOK == \A g, h \in Handlers : g # h => AtRisk(handler[g], handler[h]) \subseteq raced

-----------------------------------------------------------------------------
(* A step that writes no row: what it leaves in hand and the locks it takes. *)

LocksKept(h) ==
  /\ DOMAIN keyLock' = Keys
  /\ \A k \in Keys, g \in Handlers \ {h} : keyLock[k] = g => keyLock'[k] = g

Quiet(h) ==
  /\ UNCHANGED rowVars
  /\ LocksKept(h)
  /\ \E s : Become(h, s) /\ StateOK(s) /\ LockOK(h, s)'
       /\ (Sound /\ Current(handler[h]) => Current(s))

(* Rows are inserted, bank transfers are confirmed and sessions are opened;  *)
(* nobody writes a row whose key another request holds.                      *)
RowsGrow(h) ==
  /\ \A k \in Keys : pay'[k] # pay[k] =>
       /\ keyLock[k] = h
       /\ pay[k] = NoRow \/ IsConfirmed(pay[k], pay'[k])
  /\ DOMAIN sessions \subseteq DOMAIN sessions'

LEMMA Methodical ==
  /\ "cash" \notin Wallets /\ "bank" \notin Wallets
  /\ "credit" \in Wallets
BY DEF Wallets

(* What clients ask for is well formed. *)
LEMMA Asks ==
  /\ \A r \in Asked("pay") : r.key \in Keys /\ r.method \in Methods /\ r.amount \in Nat
  /\ \A r \in Asked("refund") : r.key \in Keys /\ r.parent \in Keys /\ r.amount \in Nat
  /\ \A r \in Asked("adjust") : r.amount \in Int
  /\ \A r \in Asked("move") : r.amount \in Int
  /\ \A r \in Asked("open") : r.float \in Nat
BY TendersAssumption DEF Asked, RequestType

(* A payment that was made stays one.                                        *)
LEMMA MadeStays ==
  ASSUME RowsOK, NEW h, RowsGrow(h)
  PROVE  Rows("sale") \subseteq Rows("sale")'
<1> SUFFICES ASSUME NEW k \in Rows("sale") PROVE k \in Rows("sale")'
  OBVIOUS
<1>1. k \in Keys /\ pay[k].kind = "sale" /\ pay[k].status = "succeeded" /\ pay[k] # NoRow
  BY DEF Rows, NoRow
<1>2. pay'[k] = pay[k] \/ pay'[k] = [pay[k] EXCEPT !.status = "succeeded"]
  BY <1>1 DEF RowsGrow, IsConfirmed
<1>3. pay[k] \in RowWith(Nat)
  BY <1>1 DEF RowsOK
<1>4. pay'[k].kind = "sale" /\ pay'[k].status = "succeeded"
  BY <1>1, <1>2, <1>3 DEF RowWith
<1> QED BY <1>1, <1>4 DEF Rows

(* The requests of the others stand. *)
LEMMA OthersStand ==
  ASSUME RowsOK, NEW h, RowsGrow(h), NEW g \in Handlers, g # h, NEW s, StateOK(s), LockOK(g, s), LocksKept(h)
  PROVE  StateOK(s)' /\ LockOK(g, s)'
<1>1. ASSUME s.pc \in Paying PROVE PayOK(s)' /\ LockOK(g, s)'
  <2>1. PayOK(s) /\ s.key \in Keys
    BY <1>1 DEF StateOK, PayOK, PayType
  <2>2. LockOK(g, s)'
    BY <2>1 DEF LockOK, LocksKept
  <2>3. NewOK(s.row)'
    BY <2>1, MadeStays DEF PayOK, NewOK
  <2>4. s.pc \in {"sum", "commit"} => pay'[s.key] = pay[s.key]
    BY <2>1 DEF LockOK, Locking, RowsGrow
  <2>5. s.pc \in {"confirm", "confirmSum"} => IsConfirmed(pay'[s.key], s.row)
    <3> SUFFICES ASSUME s.pc \in {"confirm", "confirmSum"} PROVE IsConfirmed(pay'[s.key], s.row)
      OBVIOUS
    <3>1. IsConfirmed(pay[s.key], s.row)
      BY <2>1 DEF PayOK
    <3>2. pay[s.key] \in RowWith(Nat)
      BY <2>1, <3>1 DEF RowsOK, IsConfirmed, NoRow
    <3>3. CASE pay'[s.key] = pay[s.key]
      BY <3>1, <3>3
    <3>4. CASE pay'[s.key] = s.row
      BY <3>1, <3>2, <3>4 DEF IsConfirmed, RowWith
    <3> QED BY <2>1, <3>1, <3>3, <3>4 DEF RowsGrow, IsConfirmed, NoRow
  <2> QED BY <2>1, <2>2, <2>3, <2>4, <2>5 DEF PayOK
<1>2. ASSUME s.pc \in {"count", "close"} PROVE CountOK(s)'
  BY <1>2 DEF StateOK, CountOK, RowsGrow
<1>3. ASSUME s.pc = "move" PROVE s \in [pc : {"move"}, session : (DOMAIN sessions)', amount : Int]
  BY <1>3 DEF StateOK, RowsGrow
<1>4. s.pc \notin Paying => LockOK(g, s)'
  BY DEF LockOK, Paying, Locking
<1> QED BY <1>1, <1>2, <1>3, <1>4 DEF StateOK

(* A request takes a step: the others are as they were. *)
LEMMA StateBecomes ==
  ASSUME RowsOK, HandlersOK, NEW h \in Handlers, RowsGrow(h), LocksKept(h),
         NEW s, Become(h, s), StateOK(s)', LockOK(h, s)'
  PROVE  HandlersOK' /\ handler'[h] = s
<1>1. handler'[h] = s /\ \A g \in Handlers \ {h} : handler'[g] = handler[g]
  BY DEF HandlersOK, Become
<1>2. DOMAIN handler' = Handlers /\ DOMAIN keyLock' = Keys
  BY DEF HandlersOK, Become, LocksKept
<1>3. ASSUME NEW g \in Handlers, NEW t, t = handler'[g] PROVE StateOK(t)' /\ LockOK(g, t)'
  <2>1. CASE g = h
    BY <1>1, <1>3, <2>1
  <2>2. CASE g # h
    <3>1. t = handler[g] /\ StateOK(t) /\ LockOK(g, t)
      BY <1>1, <1>3, <2>2 DEF HandlersOK
    <3> QED BY <2>2, <3>1, OthersStand
  <2> QED BY <2>1, <2>2
<1>4. HandlersOK'
  BY <1>2, <1>3 DEF HandlersOK, StateOK, PayOK, CountOK, LockOK
<1> QED BY <1>1, <1>4

LEMMA IdleOK ==
  ASSUME NEW h
  PROVE  StateOK(Idle) /\ LockOK(h, Idle) /\ Current(Idle)
BY DEF StateOK, LockOK, Current, Idle, Paying, Counting, Locking

-----------------------------------------------------------------------------
(* The steps that write no row.                                              *)

LEMMA SameLocks == ASSUME HandlersOK, NEW h, keyLock' = keyLock PROVE LocksKept(h)
BY DEF LocksKept, HandlersOK

LEMMA DropsLocks == ASSUME NEW h, LocksWithout(h) PROVE LocksKept(h)
BY DEF LocksKept, LocksWithout

LEMMA TakesLock ==
  ASSUME HandlersOK, NEW h \in Handlers, NEW k \in Keys, keyLock[k] = Free,
         keyLock' = [keyLock EXCEPT ![k] = h]
  PROVE  LocksKept(h) /\ keyLock'[k] = h
BY TendersAssumption DEF LocksKept, HandlersOK, Free

LEMMA Ends ==
  ASSUME NEW h \in Handlers, Done(h), UNCHANGED rowVars, LocksKept(h)
  PROVE  Quiet(h)
<1>1. StateOK(Idle) /\ Current(Idle) /\ LockOK(h, Idle)'
  BY IdleOK DEF LockOK, Idle, Locking
<1> QED BY <1>1 DEF Quiet, Done

(* A request on a row takes over what it has computed.                       *)
LEMMA TakesOver ==
  ASSUME NEW h \in Handlers, UNCHANGED rowVars, LocksKept(h), NEW s, Become(h, s), PayOK(s),
         LockOK(h, s)', Sound /\ Current(handler[h]) => CurrentPay(s)
  PROVE  Quiet(h)
<1>1. "pc" \in DOMAIN s /\ s.pc \in Paying
  BY DEF PayOK, PayType
<1>2. StateOK(s) /\ (Sound /\ Current(handler[h]) => Current(s))
  BY <1>1 DEF StateOK, Current, Paying, Counting
<1> QED BY <1>2 DEF Quiet

(* ... or only moves on.                                                     *)
LEMMA GoesOn ==
  ASSUME HandlersOK, NEW h \in Handlers, handler[h] \in PayType, NEW pc \in Paying, Goto(h, pc)
  PROVE  \E s \in PayType :
           /\ Become(h, s) /\ s.pc = pc
           /\ s.row = handler[h].row /\ s.key = handler[h].key /\ s.next = handler[h].next
<1> DEFINE s == [handler[h] EXCEPT !.pc = pc]
<1>1. Become(h, s)
  BY DEF HandlersOK, Goto, Become
<1>2. s \in PayType /\ s.pc = pc /\ s.row = handler[h].row /\ s.key = handler[h].key /\ s.next = handler[h].next
  BY DEF PayType
<1> QED BY <1>1, <1>2

LEMMA NowPaying ==
  ASSUME HandlersOK, NEW h \in Handlers, handler[h].pc \in Paying
  PROVE  /\ PayOK(handler[h]) /\ handler[h] \in PayType /\ handler[h].key \in Keys
         /\ handler[h].row \in RowWith(Nat \cup {NewSession})
         /\ Current(handler[h]) => CurrentPay(handler[h])
         /\ LockOK(h, handler[h])
BY DEF HandlersOK, StateOK, PayOK, PayType, Current

LEMMA CallQuiet ==
  ASSUME IInv, NEW h \in Handlers, Call(h)
  PROVE  Quiet(h)
<1>0. RowsOK /\ HandlersOK
  BY DEF IInv
<1>1. UNCHANGED rowVars /\ UNCHANGED lockVars
  BY DEF Call, CallPay, CallConfirm, CallRefund, CallAdjust, CallOpen, CallMove, CallClose, Request
<1>2. LocksKept(h)
  BY <1>0, <1>1, SameLocks DEF lockVars
<1>3. ASSUME NEW pc \in {"order", "confirm", "refund"}, NEW key \in Keys,
             NEW row \in RowWith(Nat \cup {NewSession}), NewOK(row),
             pc = "order" => row.kind = "sale",
             pc = "confirm" => IsConfirmed(pay[key], row),
             pc = "refund" => row.kind = "refund",
             Become(h, [pc |-> pc, key |-> key, next |-> 0, sum |-> 0, row |-> row])
      PROVE  Quiet(h)
  <2> DEFINE s == [pc |-> pc, key |-> key, next |-> 0, sum |-> 0, row |-> row]
  <2>1. s \in PayType /\ s.pc = pc /\ s.key = key /\ s.row = row
    BY <1>3 DEF PayType, Paying
  <2>2. Become(h, s)
    BY <1>3
  <2> HIDE DEF s
  <2>3. PayOK(s) /\ LockOK(h, s)' /\ CurrentPay(s)
    BY <1>3, <2>1 DEF PayOK, LockOK, Locking, CurrentPay, Holding, Inserting, IsPlain
  <2> QED BY <1>1, <1>2, <2>2, <2>3, TakesOver
<1>4. ASSUME CallPay(h) PROVE Quiet(h)
  <2>1. PICK r \in Asked("pay") :
          Become(h, [pc |-> "order", key |-> r.key, next |-> 0, sum |-> 0,
                     row |-> [NoRow EXCEPT !.kind = "sale", !.method = r.method,
                                           !.status = StatusOf(r.method), !.amount = r.amount]])
    BY <1>4 DEF CallPay, Request
  <2> DEFINE row == [NoRow EXCEPT !.kind = "sale", !.method = r.method,
                                  !.status = StatusOf(r.method), !.amount = r.amount]
  <2>2. /\ row.kind = "sale" /\ row.method = r.method /\ row.status = StatusOf(r.method)
        /\ row \in RowWith(Nat \cup {NewSession})
    BY Asks DEF RowWith, NoRow, NoSession, StatusOf
  <2>3. Become(h, [pc |-> "order", key |-> r.key, next |-> 0, sum |-> 0, row |-> row])
    BY <2>1
  <2> HIDE DEF row
  <2>4. NewOK(row)
    BY <2>2, Methodical DEF NewOK, Spends, StatusOf
  <2> QED BY <1>3, <2>2, <2>3, <2>4, Asks
<1>5. ASSUME CallConfirm(h) PROVE Quiet(h)
  <2>1. PICK k \in Keys :
          /\ pay[k].method = "bank" /\ pay[k].kind = "sale"
          /\ Become(h, [pc |-> "confirm", key |-> k, next |-> 0, sum |-> 0,
                        row |-> [pay[k] EXCEPT !.status = "succeeded"]])
    BY <1>5 DEF CallConfirm, Request
  <2> DEFINE row == [pay[k] EXCEPT !.status = "succeeded"]
  <2>2. pay[k] \in RowWith(Nat)
    BY <1>0, <2>1 DEF RowsOK, NoRow
  <2>3. row \in RowWith(Nat \cup {NewSession}) /\ row.kind = "sale" /\ row.method = "bank"
    BY <2>1, <2>2 DEF RowWith
  <2>4. IsConfirmed(pay[k], row)
    BY <2>1 DEF IsConfirmed
  <2>5. Become(h, [pc |-> "confirm", key |-> k, next |-> 0, sum |-> 0, row |-> row])
    BY <2>1
  <2> HIDE DEF row
  <2>6. NewOK(row)
    BY <2>3, Methodical DEF NewOK, Spends
  <2> QED BY <1>3, <2>3, <2>4, <2>5, <2>6
<1>6. ASSUME CallRefund(h) PROVE Quiet(h)
  <2>1. PICK r \in Asked("refund") :
          /\ r.parent \in Rows("sale")
          /\ Become(h, [pc |-> "refund", key |-> r.key, next |-> 0, sum |-> 0,
                        row |-> [pay[r.parent] EXCEPT !.kind = "refund", !.amount = r.amount,
                                                      !.parent = r.parent]])
    BY <1>6 DEF CallRefund, Request
  <2> DEFINE row == [pay[r.parent] EXCEPT !.kind = "refund", !.amount = r.amount, !.parent = r.parent]
  <2>2. pay[r.parent] \in RowWith(Nat)
    BY <1>0, <2>1 DEF RowsOK, NoRow, Rows
  <2>3. row \in RowWith(Nat \cup {NewSession}) /\ row.kind = "refund" /\ row.parent = r.parent
    BY <2>1, <2>2, Asks DEF RowWith
  <2>4. Become(h, [pc |-> "refund", key |-> r.key, next |-> 0, sum |-> 0, row |-> row])
    BY <2>1
  <2> HIDE DEF row
  <2>5. NewOK(row)
    BY <2>1, <2>3 DEF NewOK, Spends
  <2> QED BY <1>3, <2>3, <2>4, <2>5, Asks
<1>7. ASSUME NEW s, Become(h, s), StateOK(s), Current(s), s.pc \notin Locking PROVE Quiet(h)
  BY <1>1, <1>2, <1>7 DEF Quiet, LockOK
<1>8. ASSUME CallAdjust(h) PROVE Quiet(h)
  <2>1. PICK r \in Asked("adjust") :
          /\ wallet["credit"] + r.amount >= 0
          /\ Become(h, [pc |-> "adjust", amount |-> r.amount, next |-> wallet["credit"] + r.amount])
    BY <1>8 DEF CallAdjust, Request
  <2> DEFINE s == [pc |-> "adjust", amount |-> r.amount, next |-> wallet["credit"] + r.amount]
  <2>2. r.amount \in Int /\ wallet["credit"] \in Nat
    BY <1>0, Asks, Methodical DEF RowsOK
  <2>3. s \in [pc : {"adjust"}, amount : Int, next : Nat] /\ s.next = wallet["credit"] + s.amount
    BY <2>1, <2>2
  <2>4. Become(h, s)
    BY <2>1
  <2> HIDE DEF s
  <2>5. StateOK(s) /\ Current(s) /\ s.pc \notin Locking
    BY <2>3 DEF StateOK, Current, Paying, Counting, Locking
  <2> QED BY <1>7, <2>4, <2>5
<1>9. ASSUME CallOpen(h) PROVE Quiet(h)
  <2>1. PICK r \in Asked("open") : Become(h, [pc |-> "open", float |-> r.float])
    BY <1>9 DEF CallOpen, Request
  <2> DEFINE s == [pc |-> "open", float |-> r.float]
  <2>2. StateOK(s) /\ Current(s) /\ s.pc \notin Locking
    BY Asks DEF StateOK, Current, Paying, Counting, Locking
  <2> QED BY <1>7, <2>1, <2>2
<1>10. ASSUME CallMove(h) PROVE Quiet(h)
  <2>1. PICK r \in Asked("move"), n \in OpenSessions : Become(h, [pc |-> "move", session |-> n, amount |-> r.amount])
    BY <1>10 DEF CallMove, Request
  <2> DEFINE s == [pc |-> "move", session |-> n, amount |-> r.amount]
  <2>2. StateOK(s) /\ Current(s) /\ s.pc \notin Locking
    BY Asks DEF StateOK, Current, Paying, Counting, Locking, OpenSessions
  <2> QED BY <1>7, <2>1, <2>2
<1>11. ASSUME CallClose(h) PROVE Quiet(h)
  <2>1. PICK n \in OpenSessions : Become(h, [pc |-> "count", session |-> n, count |-> [p \in {} |-> 0]])
    BY <1>11 DEF CallClose, Request
  <2> DEFINE s == [pc |-> "count", session |-> n, count |-> [p \in {} |-> 0]]
  <2>2. s.pc = "count" /\ s.session = n /\ DOMAIN s.count = {} /\ CountOK(s)
    BY DEF CountOK, OpenSessions
  <2>3. Become(h, s) /\ "pc" \in DOMAIN s
    BY <2>1
  <2> HIDE DEF s
  <2>4. StateOK(s) /\ Current(s) /\ s.pc \notin Locking
    BY <2>2, <2>3 DEF StateOK, Current, CurrentCount, Paying, Counting, Locking
  <2> QED BY <1>7, <2>3, <2>4
<1> QED BY <1>4, <1>5, <1>6, <1>8, <1>9, <1>10, <1>11 DEF Call

LEMMA LastDrawer ==
  ASSUME RowsOK, OpenSessions # {}
  PROVE  (CHOOSE s \in OpenSessions : \A t \in OpenSessions : t <= s) \in OpenSessions
<1>1. OpenSessions \in SUBSET (1 .. Len(sessions)) /\ Len(sessions) \in Nat
  BY DEF RowsOK, OpenSessions
<1>2. IsFiniteSet(1 .. Len(sessions))
  BY <1>1, FS_Interval
<1>3. IsFiniteSet(OpenSessions)
  BY <1>1, <1>2, FS_Subset
<1>4. OpenSessions \in SUBSET Int
  BY <1>1
<1>5. \E s \in OpenSessions : \A t \in OpenSessions : t <= s
  BY <1>3, <1>4, HasGreatest
<1> QED BY <1>5

(* From the order to the wallet of a payment.                                *)
LEMMA PayQuiet ==
  ASSUME IInv, NEW h \in Handlers,
         ReadOrder(h) \/ FindDrawer(h) \/ ReadWallet(h) \/ Debit(h)
  PROVE  Quiet(h)
<1> DEFINE H == handler[h]
           Row == H.row
<1>0. RowsOK /\ HandlersOK
  BY DEF IInv
<1>1. H.pc \in {"order", "drawer", "wallet", "debit"} /\ UNCHANGED rowVars /\ UNCHANGED keyLock
  BY DEF ReadOrder, FindDrawer, ReadWallet, Debit, At, Local, lockVars
<1>2. /\ PayOK(H) /\ H \in PayType /\ Row \in RowWith(Nat \cup {NewSession}) /\ Row.kind = "sale"
      /\ Current(H) => CurrentPay(H)
  BY <1>0, <1>1, NowPaying DEF Paying, PayOK
<1>3. LocksKept(h)
  BY <1>0, <1>1, SameLocks
<1>4. Done(h) => Quiet(h)
  BY <1>1, <1>3, Ends
<1>5. CASE ReadOrder(h)
  <2> DEFINE above == Row.status = "succeeded" /\ Row.amount > due
             row == [Row EXCEPT !.amount = IF above THEN due ELSE @]
  <2>0. PICK s : s = [H EXCEPT !.pc = StepFor(Row.method), !.row = row]
    OBVIOUS
  <2>1. H.pc = "order" /\ due \in Nat
    BY <1>0, <1>5 DEF ReadOrder, At, RowsOK
  <2>2. CASE /\ handler' = [handler EXCEPT ![h].pc = StepFor(Row.method),
                                           ![h].row.amount = IF above THEN due ELSE @]
             /\ above => Row.method = "cash"
    <3>1. Become(h, s)
      BY <1>0, <1>2, <2>0, <2>2 DEF Become, HandlersOK, PayType, RowWith
    <3>2. StepFor(Row.method) \in {"drawer", "wallet", "insert"}
      BY DEF StepFor
    <3>3. /\ row \in RowWith(Nat \cup {NewSession}) /\ row.kind = "sale" /\ row.method = Row.method
          /\ row.status = Row.status
      BY <1>2, <2>1 DEF RowWith
    <3>4. row.status = "succeeded" => row.amount <= due
      BY <1>2, <2>1 DEF RowWith
    <3>5. s \in PayType /\ s.pc = StepFor(Row.method) /\ s.row = row
      BY <1>2, <2>0, <3>2, <3>3 DEF PayType, Paying
    <3> HIDE DEF row
    <3>6. Spends(s.row) <=> s.pc = "wallet"
      BY <3>3, <3>5, Methodical DEF Spends, StepFor
    <3>7. s.pc = "insert" => s.row.method # "cash"
      BY <3>3, <3>5 DEF StepFor
    <3>8. NewOK(s.row)
      BY <1>2, <3>3, <3>5 DEF PayOK, NewOK, Spends
    <3>9. PayOK(s)
      BY <3>2, <3>3, <3>5, <3>6, <3>8 DEF PayOK, Holding
    <3>10. LockOK(h, s)'
      BY <3>2, <3>5 DEF LockOK, Locking
    <3>11. ASSUME Sound PROVE CurrentPay(s)
      <4>1. s.row.status = "succeeded" => PlainPaid + s.row.amount <= Total
        BY <1>0, <2>1, <3>3, <3>4, <3>5, <3>11, PlainPaidInt, TendersAssumption DEF Sound, RowWith
      <4> QED BY <3>2, <3>3, <3>5, <3>6, <3>7, <4>1 DEF CurrentPay, Holding, Inserting
    <3> QED BY <1>1, <1>3, <3>1, <3>9, <3>10, <3>11, TakesOver
  <2> QED BY <1>4, <1>5, <2>2 DEF ReadOrder
<1>6. CASE FindDrawer(h)
  <2> DEFINE n == IF OpenSessions = {} THEN NewSession
                  ELSE CHOOSE s \in OpenSessions : \A t \in OpenSessions : t <= s
             row == [Row EXCEPT !.session = n]
  <2>0. PICK s : s = [H EXCEPT !.pc = "insert", !.row = row]
    <3> HIDE DEF H, row
    <3> QED OBVIOUS
  <2>1. H.pc = "drawer" /\ ~Spends(Row)
    BY <1>2, <1>6 DEF FindDrawer, At, PayOK
  <2>2. n \in OpenSessions \cup {NewSession} /\ n \in Nat \cup {NewSession}
    <3>1. n \in OpenSessions \cup {NewSession}
      BY <1>0, LastDrawer
    <3>2. OpenSessions \subseteq Nat
      BY <1>0 DEF RowsOK, OpenSessions
    <3> QED BY <3>1, <3>2
  <2>3. handler' = [handler EXCEPT ![h].pc = "insert", ![h].row.session = n]
    BY <1>6 DEF FindDrawer
  <2> HIDE DEF n
  <2>4. Become(h, s)
    BY <1>0, <1>2, <2>0, <2>3 DEF Become, HandlersOK, PayType, RowWith
  <2>5. /\ row \in RowWith(Nat \cup {NewSession}) /\ row.kind = "sale" /\ row.method = Row.method
        /\ row.status = Row.status /\ row.amount = Row.amount /\ row.session = n
    BY <1>2, <2>2 DEF RowWith
  <2>6. s \in PayType /\ s.pc = "insert" /\ s.row = row /\ s.key = H.key
    BY <1>2, <2>0, <2>5 DEF PayType, Paying
  <2> HIDE DEF row
  <2>7. ~Spends(s.row)
    BY <1>2, <2>1, <2>5, <2>6 DEF Spends
  <2>8. PayOK(s) /\ LockOK(h, s)'
    BY <2>5, <2>6, <2>7 DEF PayOK, NewOK, LockOK, Locking
  <2>9. CurrentPay(H) => CurrentPay(s)
    BY <2>1, <2>2, <2>5, <2>6, <2>7, <1>2 DEF CurrentPay, Inserting, IsPlain
  <2> QED BY <1>1, <1>2, <1>3, <2>4, <2>8, <2>9, TakesOver
<1>7. CASE ReadWallet(h)
  <2> DEFINE left == wallet[Row.method] - Row.amount
  <2>0. PICK s : s = [H EXCEPT !.pc = "debit", !.next = left]
    OBVIOUS
  <2>1. H.pc = "wallet" /\ Spends(Row)
    BY <1>2, <1>7 DEF ReadWallet, At, PayOK
  <2>2. left \in Int
    BY <1>0, <1>2, <2>1 DEF RowsOK, RowWith, Spends
  <2>3. CASE left >= 0 /\ handler' = [handler EXCEPT ![h].pc = "debit", ![h].next = left]
    <3>1. Become(h, s)
      BY <1>0, <1>2, <2>0, <2>3 DEF Become, HandlersOK, PayType
    <3>2. left \in Nat
      BY <2>2, <2>3
    <3> HIDE DEF left
    <3>3. s \in PayType /\ s.pc = "debit" /\ s.row = Row /\ s.next = left /\ s.key = H.key
      BY <1>2, <2>0, <2>2 DEF PayType, Paying
    <3>4. PayOK(s) /\ LockOK(h, s)'
      BY <1>2, <2>1, <3>2, <3>3 DEF PayOK, LockOK, Locking
    <3>5. CurrentPay(H) => CurrentPay(s)
      BY <2>1, <3>3 DEF CurrentPay, Inserting, IsPlain, left
    <3> QED BY <1>1, <1>2, <1>3, <3>1, <3>4, <3>5, TakesOver
  <2> QED BY <1>4, <1>7, <2>2, <2>3 DEF ReadWallet
<1>8. CASE Debit(h)
  <2>1. H.pc = "debit" /\ Goto(h, "insert") /\ Spends(Row)
    BY <1>2, <1>8 DEF Debit, At, PayOK
  <2>2. PICK s \in PayType : Become(h, s) /\ s.pc = "insert" /\ s.row = Row /\ s.key = H.key /\ s.next = H.next
    BY <1>0, <1>2, <2>1, GoesOn DEF Paying
  <2>3. PayOK(s) /\ LockOK(h, s)'
    BY <1>2, <2>1, <2>2 DEF PayOK, LockOK, Locking, Holding
  <2>4. CurrentPay(H) => CurrentPay(s)
    BY <2>1, <2>2, Methodical DEF CurrentPay, Inserting, Holding, Spends, IsPlain
  <2> QED BY <1>1, <1>2, <1>3, <2>2, <2>3, <2>4, TakesOver
<1> QED BY <1>5, <1>6, <1>7, <1>8

(* To the point where the row can be written.                                *)
LEMMA WriteQuiet ==
  ASSUME IInv, NEW h \in Handlers, Insert(h) \/ Sum(h) \/ Confirm(h) \/ ConfirmSum(h)
  PROVE  Quiet(h)
<1> DEFINE H == handler[h]
           Row == H.row
<1>0. RowsOK /\ HandlersOK
  BY DEF IInv
<1>1. H.pc \in {"insert", "sum", "confirm", "confirmSum"} /\ UNCHANGED rowVars
  BY DEF Insert, Inserted, Sum, Confirm, ConfirmSum, At, Local
<1>2. /\ PayOK(H) /\ H \in PayType /\ H.key \in Keys /\ Row \in RowWith(Nat \cup {NewSession})
      /\ Current(H) => CurrentPay(H)
      /\ LockOK(h, H)
  BY <1>0, <1>1, NowPaying DEF Paying
<1>3. NetPaid \in Int /\ PlainPaid \in Int /\ PlainPaid <= NetPaid
  BY <1>0, NetPaidInt, PlainPaidInt
<1>4. CASE Insert(h)
  <2>1. H.pc = "insert"
    BY <1>4 DEF Insert, At
  <2>2. CASE LocksWithout(h) /\ Done(h)
    BY <1>1, <2>2, DropsLocks, Ends
  <2>3. CASE pay[H.key] = NoRow /\ keyLock[H.key] = Free /\ Inserted(h)
    <3>1. PICK pc \in {"sum", "commit"} :
            /\ Goto(h, pc)
            /\ pc = "commit" <=> Row.status # "succeeded"
      BY <2>3 DEF Inserted
    <3>2. PICK s \in PayType : Become(h, s) /\ s.pc = pc /\ s.row = Row /\ s.key = H.key /\ s.next = H.next
      BY <1>0, <1>2, <3>1, GoesOn DEF Paying
    <3>3. LocksKept(h) /\ keyLock'[H.key] = h
      BY <1>0, <1>2, <2>3, TakesLock DEF Inserted
    <3>4. PayOK(s) /\ LockOK(h, s)'
      BY <1>2, <2>1, <2>3, <3>1, <3>2, <3>3 DEF PayOK, LockOK, Holding
    <3>5. CurrentPay(H) => CurrentPay(s)
      BY <2>1, <3>1, <3>2 DEF CurrentPay, Inserting, Holding, IsPlain
    <3> QED BY <1>1, <1>2, <3>2, <3>3, <3>4, <3>5, TakesOver
  <2> QED BY <1>4, <2>2, <2>3 DEF Insert
<1>5. ASSUME NEW sum \in Int, handler' = [handler EXCEPT ![h].pc = "commit", ![h].sum = sum],
             H.pc \in {"sum", "confirmSum"}, UNCHANGED keyLock, PlainPaid + Lifts(H) <= sum
      PROVE  Quiet(h)
  <2>0. PICK s : s = [H EXCEPT !.pc = "commit", !.sum = sum]
    OBVIOUS
  <2>1. Become(h, s)
    BY <1>0, <1>2, <1>5, <2>0 DEF Become, HandlersOK, PayType
  <2>2. s \in PayType /\ s.pc = "commit" /\ s.row = Row /\ s.key = H.key /\ s.next = H.next /\ s.sum = sum
    BY <1>2, <1>5, <2>0 DEF PayType, Paying
  <2>3. LocksKept(h) /\ LockOK(h, s)'
    BY <1>0, <1>2, <1>5, <2>2, SameLocks DEF LockOK, Locking
  <2>4. H.pc = "confirmSum" => ~Spends(Row) /\ Row.kind = "sale" /\ Row.method = "bank" /\ pay[H.key] # NoRow
    <3>1. SUFFICES ASSUME H.pc = "confirmSum"
                   PROVE  ~Spends(Row) /\ Row.kind = "sale" /\ Row.method = "bank" /\ pay[H.key] # NoRow
      OBVIOUS
    <3>2. IsConfirmed(pay[H.key], Row)
      BY <1>2, <3>1 DEF PayOK
    <3>3. pay[H.key] # NoRow
      BY <3>2 DEF IsConfirmed, NoRow
    <3>4. Row.kind = "sale" /\ Row.method = "bank"
      BY <1>0, <1>2, <3>2, <3>3 DEF IsConfirmed, RowsOK, RowWith
    <3> QED BY <3>3, <3>4, Methodical DEF Spends
  <2>5. PayOK(s)
    BY <1>2, <1>5, <2>2, <2>4 DEF PayOK, Holding
  <2>6. CurrentPay(H) => CurrentPay(s)
    BY <1>5, <2>2, <2>4 DEF CurrentPay, Inserting, Holding, IsPlain, Lifts
  <2> QED BY <1>1, <1>2, <2>1, <2>3, <2>5, <2>6, TakesOver
<1>6. CASE Sum(h)
  <2>1. H.pc = "sum" /\ pay[H.key] = NoRow
    BY <1>2, <1>6 DEF Sum, At, PayOK
  <2>2. Signed(Row) \in Int /\ Lifts(H) \in Int /\ Lifts(H) <= Signed(Row)
    BY <1>2 DEF Signed, Lifts, RowWith
  <2>3. /\ NetPaid + Signed(Row) \in Int
        /\ handler' = [handler EXCEPT ![h].pc = "commit", ![h].sum = NetPaid + Signed(Row)]
        /\ UNCHANGED keyLock
    BY <1>3, <1>6, <2>2 DEF Sum, Local, lockVars
  <2>4. PlainPaid + Lifts(H) <= NetPaid + Signed(Row)
    BY <1>3, <2>2
  <2> QED BY <1>5, <2>1, <2>3, <2>4
<1>7. CASE Confirm(h)
  <2>1. H.pc = "confirm" /\ keyLock[H.key] = Free /\ Goto(h, "confirmSum")
    BY <1>7 DEF Confirm, At
  <2>2. PICK s \in PayType : Become(h, s) /\ s.pc = "confirmSum" /\ s.row = Row /\ s.key = H.key /\ s.next = H.next
    BY <1>0, <1>2, <2>1, GoesOn DEF Paying
  <2>3. LocksKept(h) /\ keyLock'[H.key] = h
    BY <1>0, <1>2, <1>7, <2>1, TakesLock DEF Confirm
  <2>4. PayOK(s) /\ LockOK(h, s)' /\ CurrentPay(s)
    BY <1>2, <2>1, <2>2, <2>3 DEF PayOK, LockOK, Holding, CurrentPay, Inserting
  <2> QED BY <1>1, <2>2, <2>3, <2>4, TakesOver
<1>8. CASE ConfirmSum(h)
  <2> DEFINE added == IF pay[H.key].status = "succeeded" THEN 0 ELSE pay[H.key].amount
  <2>1. H.pc = "confirmSum" /\ IsConfirmed(pay[H.key], Row)
    BY <1>2, <1>8 DEF ConfirmSum, At, PayOK
  <2>2. pay[H.key] # NoRow
    BY <2>1 DEF IsConfirmed, NoRow
  <2>3. pay[H.key] \in RowWith(Nat)
    BY <1>0, <1>2, <2>2 DEF RowsOK
  <2>4. Row.kind = "sale" /\ Row.method = "bank" /\ pay[H.key].amount \in Nat
    BY <2>1, <2>3 DEF RowWith, IsConfirmed
  <2>5. added \in Nat /\ Lifts(H) = 0
    BY <2>4 DEF Lifts, IsPlain
  <2>6. /\ handler' = [handler EXCEPT ![h].pc = "commit", ![h].sum = NetPaid + added]
        /\ UNCHANGED keyLock
    BY <1>8 DEF ConfirmSum, Local, lockVars
  <2> HIDE DEF added
  <2>7. NetPaid + added \in Int /\ PlainPaid + Lifts(H) <= NetPaid + added
    BY <1>3, <2>5
  <2> QED BY <1>5, <2>1, <2>6, <2>7
<1> QED BY <1>4, <1>6, <1>7, <1>8

(* Refunds up to their row, the count of a drawer, and a lost request.       *)
LEMMA OtherQuiet ==
  ASSUME IInv, NEW h \in Handlers, CapRefund(h) \/ RefundDrawer(h) \/ CountPart(h) \/ Crash(h)
  PROVE  Quiet(h)
<1> DEFINE H == handler[h]
           Row == H.row
<1>0. RowsOK /\ HandlersOK /\ StateOK(H)
  BY DEF IInv, HandlersOK
<1>1. UNCHANGED rowVars
  BY DEF CapRefund, RefundDrawer, CountPart, Crash, Local
<1>2. LocksKept(h)
  BY <1>0, SameLocks, DropsLocks DEF CapRefund, RefundDrawer, CountPart, Crash, Local, lockVars
<1>3. Done(h) => Quiet(h)
  BY <1>1, <1>2, Ends
<1>4. ASSUME H.pc \in {"refund", "refundDrawer"}
      PROVE  /\ PayOK(H) /\ H \in PayType /\ Row \in RowWith(Nat \cup {NewSession}) /\ Row.kind = "refund"
             /\ Current(H) => CurrentPay(H)
  BY <1>0, <1>4, NowPaying DEF Paying, PayOK
<1>5. CASE CapRefund(h)
  <2>1. H.pc = "refund"
    BY <1>5 DEF CapRefund, At
  <2>2. ASSUME NEW pc \in {"refundDrawer", "insert"}, Goto(h, pc), ~(Row.amount > Refundable(Row.parent))
        PROVE  Quiet(h)
    <3>1. PICK s \in PayType : Become(h, s) /\ s.pc = pc /\ s.row = Row /\ s.key = H.key /\ s.next = H.next
      BY <1>0, <1>4, <2>1, <2>2, GoesOn DEF Paying
    <3>2. Row.parent \in Keys /\ Row.parent \in Rows("sale") /\ Row.amount \in Nat
      BY <1>4, <2>1 DEF PayOK, NewOK, Rows, RowWith
    <3>3. ASSUME Sound
          PROVE  AmountOf(PlainRefunds(Row.parent)) + Row.amount <= pay[Row.parent].amount
      <4>1. AmountOf(PlainRefunds(Row.parent)) <= pay[Row.parent].amount
        BY <3>2, <3>3 DEF Sound, RefundsCapped
      <4>2. /\ AmountOf(PlainRefunds(Row.parent)) \in Nat /\ AmountOf(RefundsOf(Row.parent)) \in Nat
            /\ AmountOf(PlainRefunds(Row.parent)) <= AmountOf(RefundsOf(Row.parent))
        BY <1>0, PlainRefundsLess
      <4>3. pay[Row.parent].amount \in Nat
        BY <1>0, <3>2, RowAmounts
      <4> QED BY <2>2, <3>2, <4>1, <4>2, <4>3 DEF Refundable
    <3>4. PayOK(s) /\ LockOK(h, s)'
      BY <1>4, <2>1, <2>2, <3>1 DEF PayOK, LockOK, Locking, Spends
    <3>5. Sound => CurrentPay(s)
      BY <1>4, <2>1, <2>2, <3>1, <3>3 DEF CurrentPay, Spends, IsPlain
    <3> QED BY <1>1, <1>2, <3>1, <3>4, <3>5, TakesOver
  <2> QED BY <1>3, <1>5, <2>2 DEF CapRefund
<1>6. CASE RefundDrawer(h)
  <2>1. H.pc = "refundDrawer"
    BY <1>6 DEF RefundDrawer, At
  <2>2. PICK n \in Nat \cup {NewSession} : handler' = [handler EXCEPT ![h].pc = "insert", ![h].row.session = n]
    <3>1. OpenSessions \subseteq Nat
      BY <1>0 DEF RowsOK, OpenSessions
    <3>2. Row.session \in Nat \cup {NewSession}
      BY <1>4, <2>1 DEF RowWith
    <3> QED BY <1>6, <3>1, <3>2 DEF RefundDrawer
  <2> DEFINE row == [Row EXCEPT !.session = n]
  <2>3. PICK s : s = [H EXCEPT !.pc = "insert", !.row = row]
    <3> HIDE DEF H, row
    <3> QED OBVIOUS
  <2>4. Become(h, s)
    BY <1>0, <1>4, <2>1, <2>2, <2>3 DEF Become, HandlersOK, PayType, RowWith
  <2>5. /\ row \in RowWith(Nat \cup {NewSession}) /\ row.kind = "refund"
        /\ row.amount = Row.amount /\ row.parent = Row.parent
    BY <1>4, <2>1, <2>2 DEF RowWith
  <2>6. s \in PayType /\ s.pc = "insert" /\ s.row = row /\ s.key = H.key
    BY <1>4, <2>1, <2>3, <2>5 DEF PayType, Paying
  <2> HIDE DEF row
  <2>7. PayOK(s) /\ LockOK(h, s)'
    BY <1>4, <2>1, <2>5, <2>6 DEF PayOK, NewOK, LockOK, Locking, Spends
  <2>8. CurrentPay(H) => CurrentPay(s)
    BY <1>4, <2>1, <2>5, <2>6 DEF CurrentPay, Inserting, Spends, IsPlain
  <2> QED BY <1>1, <1>2, <1>4, <2>1, <2>4, <2>7, <2>8, TakesOver
<1>7. CASE CountPart(h)
  <2>1. H.pc = "count" /\ CountOK(H)
    BY <1>0, <1>7 DEF CountPart, At, StateOK
  <2>2. PICK part \in CountParts \ DOMAIN H.count :
          handler' = [handler EXCEPT
            ![h].pc = IF DOMAIN H.count \cup {part} = CountParts THEN "close" ELSE "count",
            ![h].count = [p \in DOMAIN H.count \cup {part} |->
                            IF p = part THEN CountOf(p, H.session) ELSE H.count[p]]]
    BY <1>7 DEF CountPart
  <2> DEFINE counted == DOMAIN H.count \cup {part}
             count == [p \in counted |-> IF p = part THEN CountOf(p, H.session) ELSE H.count[p]]
             pc == IF counted = CountParts THEN "close" ELSE "count"
  <2>3. PICK s : s = [H EXCEPT !.pc = pc, !.count = count]
    <3> HIDE DEF H, pc, count
    <3> QED OBVIOUS
  <2>4. Become(h, s)
    BY <1>0, <2>2, <2>3 DEF Become, HandlersOK
  <2>5. CountOf(part, H.session) \in Int
    <3>1. CashOf("sale", H.session) \in Nat /\ CashOf("refund", H.session) \in Nat
      BY <1>0, CashNat
    <3>2. sessions[H.session].moved \in Int
      <4>1. sessions[H.session] \in Drawer
        BY <1>0, <2>1 DEF CountOK, RowsOK
      <4> QED BY <4>1 DEF Drawer
    <3> QED BY <3>1, <3>2 DEF CountOf
  <2>6. s.pc = pc /\ s.session = H.session /\ s.count = count /\ DOMAIN s = DOMAIN H
    BY <2>1, <2>3 DEF CountOK
  <2>7. count \in [counted -> Int] /\ DOMAIN count = counted
    BY <2>1, <2>5 DEF CountOK
  <2>8. CountOK(s) /\ s.pc \in {"count", "close"} /\ "pc" \in DOMAIN s
    BY <2>1, <2>2, <2>6, <2>7 DEF CountOK
  <2>9. StateOK(s) /\ LockOK(h, s)'
    BY <2>8 DEF StateOK, Paying, LockOK, Locking
  <2>10. Current(H) => Current(s)
    <3> SUFFICES ASSUME Current(H) PROVE Current(s)
      OBVIOUS
    <3>1. CurrentCount(H)
      BY <2>1 DEF Current, Counting
    <3>2. \A p \in counted : IF p \in DOMAIN H.count THEN count[p] = H.count[p] ELSE count[p] = CountOf(p, H.session)
      BY <2>2
    <3>3. /\ PlainCash(H.session) \in Nat /\ CashOf("sale", H.session) \in Nat /\ CashOf("refund", H.session) \in Nat
          /\ PlainCash(H.session) <= CashOf("sale", H.session)
          /\ sessions[H.session].moved \in Int
      <4>1. sessions[H.session] \in Drawer
        BY <1>0, <2>1 DEF CountOK, RowsOK
      <4> QED BY <1>0, <4>1, CashNat, PlainCashLess DEF Drawer
    <3> HIDE DEF counted, count, pc
    <3>4. "sales" \in counted => PlainCash(H.session) <= count["sales"]
      BY <3>1, <3>2, <3>3 DEF CurrentCount, CountOf
    <3>5. "refunds" \in counted => -CashOf("refund", H.session) <= count["refunds"]
      BY <3>1, <3>2, <3>3 DEF CurrentCount, CountOf
    <3>6. "moved" \in counted /\ <<"drawer", H.session>> \notin raced => count["moved"] = sessions[H.session].moved
      BY <3>1, <3>2, <3>3 DEF CurrentCount, CountOf
    <3>7. CurrentCount(s)
      BY <2>6, <2>7, <3>4, <3>5, <3>6 DEF CurrentCount
    <3> QED BY <2>8, <3>7 DEF Current, Paying
  <2> QED BY <1>1, <1>2, <2>4, <2>9, <2>10 DEF Quiet
<1>8. CASE Crash(h)
  BY <1>3, <1>8 DEF Crash
<1> QED BY <1>5, <1>6, <1>7, <1>8

LEMMA Kinds ==
  ASSUME IInv, NEW h \in Handlers, Call(h) \/ Proceed(h) \/ Crash(h)
  PROVE  Quiet(h) \/ Commit(h) \/ Adjust(h) \/ OpenDrawer(h) \/ MoveCash(h) \/ CloseDrawer(h)
BY CallQuiet, PayQuiet, WriteQuiet, OtherQuiet DEF Proceed

-----------------------------------------------------------------------------
(* The steps that write.                                                     *)

(* A row is committed: a new one, or a bank transfer that has arrived.       *)
LEMMA CommitStep ==
  ASSUME IInv, NEW h \in Handlers, Commit(h)
  PROVE  LET H == handler[h]
             row == H.row
             old == pay[H.key]
             new == pay'[H.key] IN
         /\ H.pc = "commit" /\ PayOK(H) /\ H.key \in Keys /\ H.sum \in Int
         /\ row \in RowWith(Nat \cup {NewSession})
         /\ pay' = [pay EXCEPT ![H.key] = new] /\ new \in RowWith(Nat)
         /\ new = [row EXCEPT !.session = new.session]
         /\ new.session = IF row.session = NewSession THEN Len(sessions) + 1 ELSE row.session
         /\ old = NoRow \/ (IsConfirmed(old, new) /\ row = new /\ old \in RowWith(Nat))
         /\ RowsGrow(h) /\ LocksKept(h) /\ Done(h)
<1> DEFINE H == handler[h]
           row == H.row
           old == pay[H.key]
           new == [row EXCEPT !.session = IF row.session = NewSession THEN Len(sessions) + 1 ELSE @]
<1>0. RowsOK /\ HandlersOK
  BY DEF IInv
<1>1. H.pc = "commit"
  BY DEF Commit, At
<1>2. PayOK(H) /\ H \in PayType /\ H.key \in Keys /\ row \in RowWith(Nat \cup {NewSession}) /\ LockOK(h, H)
  BY <1>0, <1>1, NowPaying DEF Paying
<1>3. pay' = [pay EXCEPT ![H.key] = new] /\ pay'[H.key] = new
  BY <1>0, <1>2 DEF Commit, RowsOK
<1>4. /\ new \in RowWith(Nat) /\ new.session = IF row.session = NewSession THEN Len(sessions) + 1 ELSE row.session
      /\ new = [row EXCEPT !.session = new.session]
  <2>1. Len(sessions) + 1 \in Nat
    BY <1>0 DEF RowsOK
  <2> QED BY <1>2, <2>1 DEF RowWith
<1>5. old = NoRow \/ (IsConfirmed(old, new) /\ row = new /\ old \in RowWith(Nat))
  <2>1. SUFFICES ASSUME old # NoRow PROVE IsConfirmed(old, new) /\ row = new /\ old \in RowWith(Nat)
    OBVIOUS
  <2>2. IsConfirmed(old, row) /\ old \in RowWith(Nat)
    BY <1>0, <1>1, <1>2, <2>1 DEF PayOK, RowsOK
  <2>3. row.session = old.session /\ old.session \in Nat
    BY <2>2 DEF IsConfirmed, RowWith
  <2>4. row.session # NewSession
    BY <2>3 DEF NewSession
  <2>5. new = row
    BY <1>2, <2>4 DEF RowWith
  <2> QED BY <2>2, <2>5
<1>6. H.sum \in Int
  BY <1>2 DEF PayType
<1>7. RowsGrow(h)
  <2>1. \A k \in Keys : pay'[k] # pay[k] => k = H.key
    BY <1>0, <1>3 DEF RowsOK
  <2>2. keyLock[H.key] = h
    BY <1>1, <1>2 DEF LockOK, Locking
  <2>3. DOMAIN sessions \subseteq DOMAIN sessions'
    <3>1. sessions \in Seq(Drawer) /\ NewDrawer(0) \in Drawer
      BY <1>0 DEF RowsOK, NewDrawer, Drawer
    <3> QED BY <3>1 DEF Commit
  <2> HIDE DEF new
  <2> QED BY <1>3, <1>5, <2>1, <2>2, <2>3 DEF RowsGrow
<1>8. LocksKept(h) /\ Done(h)
  BY DropsLocks DEF Commit
<1> HIDE DEF new
<1> QED BY <1>1, <1>2, <1>3, <1>4, <1>5, <1>6, <1>7, <1>8

(* The sum of the rows of a kind, of which it may be one.                    *)
LEMMA CommitSum ==
  ASSUME IInv, NEW h \in Handlers, Commit(h), NEW K \in SUBSET Keys, NEW L \in SUBSET Keys,
         \A k \in Keys \ {handler[h].key} : k \in L <=> k \in K
  PROVE  LET key == handler[h].key
             amount == handler[h].row.amount IN
         /\ AmountIn(pay, K) \in Nat
         /\ (key \in K <=> key \in L) /\ (key \in K => pay[key] # NoRow)
              => AmountIn(pay', L) = AmountIn(pay, K)
         /\ key \notin K /\ key \in L => AmountIn(pay', L) = AmountIn(pay, K) + amount
<1> DEFINE key == handler[h].key
           row == handler[h].row
           old == pay[key]
           new == pay'[key]
<1>0. RowsOK
  BY DEF IInv
<1>1. /\ key \in Keys /\ row \in RowWith(Nat \cup {NewSession}) /\ new \in RowWith(Nat)
      /\ pay' = [pay EXCEPT ![key] = new] /\ new = [row EXCEPT !.session = new.session]
      /\ old = NoRow \/ (IsConfirmed(old, new) /\ old \in RowWith(Nat))
  BY CommitStep
<1>2. \A k \in Keys \ {key} : pay'[k] = pay[k]
  BY <1>0, <1>1 DEF RowsOK
<1>3. new.amount = row.amount /\ new.amount \in Nat
  BY <1>1 DEF RowWith
<1>4. AmountIn(pay, K) \in Nat
  BY <1>0, AmountNat DEF AmountOf, AmountIn
<1>5. old # NoRow => old.amount = new.amount /\ old.amount \in Nat
  BY <1>1 DEF IsConfirmed, RowWith
<1>6. \A k \in Keys : pay[k].amount \in Int
  BY <1>0, RowAmounts
<1>7. \A k \in Keys : pay'[k].amount \in Int
  BY <1>2, <1>3, <1>6
<1>8. AmountIn(pay', L) = AmountIn(pay, K) - (IF key \in K THEN old.amount ELSE 0)
                                           + (IF key \in L THEN new.amount ELSE 0)
  BY <1>1, <1>2, <1>6, <1>7, AmountChanges
<1> HIDE DEF key, old, new
<1>9. CASE key \in K /\ key \in L /\ old # NoRow
  BY <1>3, <1>4, <1>5, <1>8, <1>9 DEF key, old
<1>10. CASE key \notin K /\ key \notin L
  BY <1>4, <1>8, <1>10 DEF key
<1>11. CASE key \notin K /\ key \in L
  BY <1>3, <1>4, <1>8, <1>11 DEF key
<1> QED BY <1>4, <1>9, <1>10, <1>11 DEF key, old

LEMMA DoneKept ==
  ASSUME RowsOK, HandlersOK, NEW h \in Handlers, Done(h), RowsGrow(h), LocksKept(h)
  PROVE  HandlersOK'
<1>1. StateOK(Idle)' /\ LockOK(h, Idle)'
  BY DEF StateOK, LockOK, Idle, Paying, Locking
<1> QED BY <1>1, StateBecomes DEF Done

LEMMA CommitKept ==
  ASSUME IInv, NEW h \in Handlers, Commit(h)
  PROVE  IInv'
<1> DEFINE H == handler[h]
           row == H.row
           key == H.key
           old == pay[key]
           new == pay'[key]
<1>0. RowsOK /\ HandlersOK /\ ParentsOK /\ DebitedOnce
  BY DEF IInv
<1>1. /\ H.pc = "commit" /\ PayOK(H) /\ key \in Keys /\ H.sum \in Int
      /\ row \in RowWith(Nat \cup {NewSession})
      /\ pay' = [pay EXCEPT ![key] = new] /\ new \in RowWith(Nat)
      /\ new = [row EXCEPT !.session = new.session]
      /\ old = NoRow \/ (IsConfirmed(old, new) /\ row = new /\ old \in RowWith(Nat))
      /\ RowsGrow(h) /\ LocksKept(h) /\ Done(h)
  BY CommitStep
<1> HIDE DEF new
<1>2. /\ new.kind = row.kind /\ new.method = row.method /\ new.status = row.status
      /\ new.amount = row.amount /\ new.parent = row.parent /\ row.amount \in Nat
  BY <1>1 DEF RowWith
<1>3. \A k \in Keys \ {key} : pay'[k] = pay[k]
  BY <1>0, <1>1 DEF RowsOK
<1>4. pay'[key] = new
  BY DEF new
<1>5. old # NoRow => old.kind = "sale" /\ old.method = "bank" /\ row.kind = "sale" /\ row.method = "bank"
  BY <1>1 DEF IsConfirmed, RowWith
<1>6. HandlersOK'
  BY <1>0, <1>1, DoneKept
<1>7. RowsOK'
  <2>1. due' \in Nat
    BY <1>0, <1>1, TendersAssumption DEF Commit, DueFor, RowsOK
  <2>2. pay' \in [Keys -> RowWith(Nat) \cup {NoRow}]
    BY <1>0, <1>1 DEF RowsOK
  <2>3. NewDrawer(0) \in Drawer
    BY DEF NewDrawer, Drawer
  <2>4. sessions' \in Seq(Drawer)
    BY <1>0, <2>3 DEF Commit, RowsOK
  <2>5. Spends(row) => H.next \in Nat
    BY <1>1 DEF PayOK, Holding
  <2>6. wallet' \in [Wallets -> Nat]
    BY <1>0, <2>5 DEF Commit, RowsOK, Spends
  <2>7. debits' \in [Wallets -> Int] /\ topups' \in Int
    BY <1>0, <1>2 DEF Commit, RowsOK
  <2> QED BY <2>1, <2>2, <2>4, <2>6, <2>7 DEF RowsOK
<1>8. ParentsOK'
  <2>1. Rows("sale") \subseteq Rows("sale")'
    BY <1>0, <1>1, MadeStays
  <2>2. ASSUME NEW r \in Keys, pay'[r].kind = "refund", pay'[r].status = "succeeded"
        PROVE  pay'[r].parent \in Rows("sale")
    <3>1. CASE r = key
      <4>1. row.kind = "refund"
        BY <1>2, <1>4, <2>2, <3>1
      <4> QED BY <1>1, <1>2, <1>4, <3>1, <4>1 DEF PayOK, NewOK
    <3>2. CASE r # key
      BY <1>0, <1>3, <2>2, <3>2 DEF ParentsOK, Rows
    <3> QED BY <3>1, <3>2
  <2> QED BY <2>1, <2>2 DEF ParentsOK, Rows
<1>9. DebitedOnce'
  <2> SUFFICES ASSUME NEW w \in Wallets
               PROVE  debits'[w] = AmountOf({k \in Rows("sale") : pay[k].method = w})'
    BY DEF DebitedOnce
  <2> DEFINE K == {k \in Rows("sale") : pay[k].method = w}
             L == {k \in Rows("sale")' : pay'[k].method = w}
  <2>1. K \in SUBSET Keys /\ L \in SUBSET Keys /\ \A k \in Keys \ {key} : k \in L <=> k \in K
    BY <1>3 DEF Rows
  <2>2. key \notin K
    BY <1>5, Methodical DEF Rows, NoRow
  <2>3. key \in L <=> Spends(row) /\ row.method = w
    BY <1>1, <1>2, <1>4 DEF PayOK, NewOK, Rows, Spends
  <2>4. debits[w] = AmountIn(pay, K) /\ debits[w] \in Int
    BY <1>0 DEF DebitedOnce, AmountOf, AmountIn, RowsOK
  <2>5. AmountOf({k \in Rows("sale") : pay[k].method = w})' = AmountIn(pay', L)
    BY DEF AmountOf, AmountIn
  <2>6. debits'[w] = IF Spends(row) /\ row.method = w THEN debits[w] + row.amount ELSE debits[w]
    BY <1>0 DEF Commit, RowsOK, Spends
  <2> HIDE DEF K, L
  <2>7. AmountIn(pay', L) = IF key \in L THEN AmountIn(pay, K) + row.amount ELSE AmountIn(pay, K)
    BY <2>1, <2>2, CommitSum
  <2> QED BY <2>3, <2>4, <2>5, <2>6, <2>7
<1> QED BY <1>6, <1>7, <1>8, <1>9 DEF IInv

(* No payment row is written: store credit is adjusted, or the drawer used.  *)
LEMMA OthersKept ==
  ASSUME IInv, NEW h \in Handlers, Adjust(h) \/ OpenDrawer(h) \/ MoveCash(h) \/ CloseDrawer(h)
  PROVE  IInv'
<1> DEFINE H == handler[h]
<1>0. RowsOK /\ HandlersOK /\ ParentsOK /\ DebitedOnce /\ StateOK(H)
  BY DEF IInv, HandlersOK
<1>1. UNCHANGED <<due, pay, debits, keyLock>> /\ Done(h)
  BY DEF Adjust, OpenDrawer, MoveCash, CloseDrawer, lockVars
<1>2. ParentsOK' /\ DebitedOnce'
  BY <1>0, <1>1 DEF ParentsOK, DebitedOnce, Rows, AmountOf
<1>3. /\ sessions' \in Seq(Drawer) /\ DOMAIN sessions \subseteq DOMAIN sessions'
      /\ wallet' \in [Wallets -> Nat] /\ topups' \in Int
  <2>0. sessions \in Seq(Drawer) /\ wallet \in [Wallets -> Nat] /\ topups \in Int
    BY <1>0 DEF RowsOK
  <2>1. CASE Adjust(h)
    <3>1. H \in [pc : {"adjust"}, amount : Int, next : Nat]
      BY <1>0, <2>1 DEF Adjust, At, StateOK
    <3>2. wallet' \in [Wallets -> Nat]
      BY <2>0, <2>1, <3>1 DEF Adjust
    <3>3. sessions' = sessions /\ topups' = topups + H.amount
      BY <2>1 DEF Adjust
    <3> QED BY <2>0, <3>1, <3>2, <3>3
  <2>2. CASE OpenDrawer(h)
    <3>1. H \in [pc : {"open"}, float : Nat]
      BY <1>0, <2>2 DEF OpenDrawer, At, StateOK
    <3>2. NewDrawer(H.float) \in Drawer
      BY <3>1 DEF NewDrawer, Drawer
    <3> QED BY <2>0, <2>2, <3>2 DEF OpenDrawer
  <2>3. ASSUME NEW s \in DOMAIN sessions, NEW d \in Drawer, sessions' = [sessions EXCEPT ![s] = d]
        PROVE  sessions' \in Seq(Drawer) /\ DOMAIN sessions' = DOMAIN sessions
    BY <2>0, <2>3
  <2>4. CASE MoveCash(h)
    <3>1. H.session \in DOMAIN sessions /\ H.amount \in Int
      BY <1>0, <2>4 DEF MoveCash, At, StateOK
    <3>2. sessions[H.session] \in Drawer
      BY <2>0, <3>1
    <3> DEFINE d == [sessions[H.session] EXCEPT !.moved = @ + H.amount]
    <3>3. d \in Drawer /\ sessions' = [sessions EXCEPT ![H.session] = d]
      BY <2>4, <3>1, <3>2 DEF MoveCash, Drawer
    <3> HIDE DEF d
    <3> QED BY <2>0, <2>3, <2>4, <3>1, <3>3 DEF MoveCash
  <2>5. CASE CloseDrawer(h)
    <3>1. CountOK(H) /\ H.pc = "close"
      BY <1>0, <2>5 DEF CloseDrawer, At, StateOK
    <3>2. H.session \in DOMAIN sessions /\ sessions[H.session] \in Drawer
      BY <2>0, <3>1 DEF CountOK
    <3>3. H.count["sales"] \in Int /\ H.count["refunds"] \in Int /\ H.count["moved"] \in Int
      BY <3>1 DEF CountOK, CountParts
    <3> DEFINE expected == ExpectedCash(sessions[H.session].float, H.count)
               d == [sessions[H.session] EXCEPT !.open = FALSE, !.expected = expected]
    <3>4. expected \in Int
      BY <3>2, <3>3 DEF ExpectedCash, Drawer
    <3>5. sessions' = [sessions EXCEPT ![H.session] = d]
      BY <2>5, <3>2 DEF CloseDrawer, Drawer
    <3> HIDE DEF expected
    <3>6. d \in Drawer
      BY <3>2, <3>4 DEF Drawer
    <3> HIDE DEF d
    <3> QED BY <2>0, <2>3, <2>5, <3>2, <3>5, <3>6 DEF CloseDrawer
  <2> QED BY <2>1, <2>2, <2>4, <2>5
<1>4. RowsOK'
  BY <1>0, <1>1, <1>3 DEF RowsOK
<1>5. RowsGrow(h) /\ LocksKept(h)
  BY <1>0, <1>1, <1>3, SameLocks DEF RowsGrow
<1>6. HandlersOK'
  BY <1>0, <1>1, <1>5, DoneKept
<1> QED BY <1>2, <1>4, <1>6 DEF IInv

LEMMA InitOK == Init => IInv
<1> SUFFICES ASSUME Init PROVE IInv
  OBVIOUS
<1>1. RowsOK
  BY TendersAssumption DEF Init, RowsOK
<1>2. Rows("sale") = {} /\ Rows("refund") = {}
  BY DEF Init, Rows, NoRow
<1>3. ParentsOK
  BY <1>2 DEF ParentsOK
<1>4. HandlersOK
  BY IdleOK DEF Init, HandlersOK
<1>5. AmountOf({}) = 0
  BY FS_EmptySet, SumNothing DEF AmountOf
<1>6. DebitedOnce
  <2>1. \A w \in Wallets : {k \in Rows("sale") : pay[k].method = w} = {}
    BY <1>2
  <2> QED BY <1>5, <2>1 DEF DebitedOnce, Init
<1> QED BY <1>1, <1>3, <1>4, <1>6 DEF IInv

LEMMA StateStays == ASSUME UNCHANGED rowVars, NEW s, StateOK(s) PROVE StateOK(s)'
BY DEF StateOK, PayOK, NewOK, CountOK, Rows, rowVars

LEMMA RowsStay ==
  ASSUME UNCHANGED rowVars, RowsOK, ParentsOK, DebitedOnce
  PROVE  RowsOK' /\ ParentsOK' /\ DebitedOnce'
<1>1. UNCHANGED <<due, pay, wallet, debits, topups, sessions>>
  BY DEF rowVars
<1>2. RowsOK'
  BY <1>1 DEF RowsOK
<1>3. ParentsOK'
  BY <1>1 DEF ParentsOK, Rows
<1>4. DebitedOnce'
  BY <1>1 DEF DebitedOnce, Rows, AmountOf
<1> QED BY <1>2, <1>3, <1>4

LEMMA StepKept == IInv /\ [Next]_vars => IInv'
<1> SUFFICES ASSUME IInv, [Next]_vars PROVE IInv'
  OBVIOUS
<1>1. CASE UNCHANGED vars
  <2>1. HandlersOK'
    <3>1. UNCHANGED rowVars /\ handler' = handler /\ keyLock' = keyLock
      BY <1>1 DEF vars, lockVars
    <3>2. ASSUME NEW h \in Handlers, NEW s, s = handler'[h] PROVE StateOK(s)' /\ LockOK(h, s)'
      BY <3>1, <3>2, StateStays DEF IInv, HandlersOK, LockOK
    <3> QED BY <3>1, <3>2 DEF IInv, HandlersOK, StateOK, PayOK, CountOK, LockOK
  <2>2. RowsOK' /\ ParentsOK' /\ DebitedOnce'
    BY <1>1, RowsStay DEF IInv, vars
  <2> QED BY <2>1, <2>2 DEF IInv
<1>2. ASSUME NEW h \in Handlers, Call(h) \/ Proceed(h) \/ Crash(h) PROVE IInv'
  <2>1. CASE Quiet(h)
    <3>1. UNCHANGED rowVars /\ LocksKept(h)
      BY <2>1 DEF Quiet
    <3>2. PICK s : Become(h, s) /\ StateOK(s) /\ LockOK(h, s)'
      BY <2>1 DEF Quiet
    <3>3. RowsGrow(h)
      BY <3>1 DEF RowsGrow, rowVars
    <3>4. StateOK(s)'
      BY <3>1, <3>2, StateStays
    <3>5. HandlersOK'
      BY <3>1, <3>2, <3>3, <3>4, StateBecomes DEF IInv
    <3>6. RowsOK' /\ ParentsOK' /\ DebitedOnce'
      BY <3>1, RowsStay DEF IInv
    <3> QED BY <3>5, <3>6 DEF IInv
  <2> QED BY <1>2, <2>1, CommitKept, OthersKept, Kinds
<1> QED BY <1>1, <1>2 DEF Next

(* debitStoreCredit, redeemGiftCardInTx, adjustStoreCredit: whatever         *)
(* requests overlap, and though the last of them overwrites what the others  *)
(* wrote, no wallet is written below zero.                                   *)
THEOREM NeverOverdrawn == Spec => [](\A w \in Wallets : wallet[w] >= 0)
<1>1. IInv => \A w \in Wallets : wallet[w] >= 0
  BY DEF IInv, RowsOK
<1> QED BY <1>1, InitOK, StepKept, PTL DEF Spec

(* create, insertOrder: whatever requests overlap, repeat a key or are lost, *)
(* the ledger of a wallet was debited for the payments that are recorded and *)
(* for nothing else.                                                         *)
THEOREM DebitsArePayments == Spec => []DebitedOnce
<1>1. IInv => DebitedOnce
  BY DEF IInv
<1> QED BY <1>1, InitOK, StepKept, PTL DEF Spec

-----------------------------------------------------------------------------
(* What holds of all that did not run beside the request that spoils it.     *)

RInv ==
  /\ IInv /\ RacedOK
  /\ Sound /\ CreditAgrees /\ NoUncountedCash
  /\ \A h \in Handlers : Current(handler[h])

LEMMA RInitOK == Init => RInv
<1> SUFFICES ASSUME Init PROVE RInv
  OBVIOUS
<1>1. Rows("sale") = {} /\ Rows("refund") = {} /\ Plain = {}
  BY DEF Init, Rows, NoRow, Plain
<1>2. AmountOf({}) = 0
  BY FS_EmptySet, SumNothing DEF AmountOf
<1>3. Sound
  <2>1. PlainPaid = 0
    BY <1>1, <1>2 DEF PlainPaid
  <2>2. due = Total /\ Total \in Nat /\ RefundsCapped
    BY <1>1, TendersAssumption DEF RefundsCapped, Init
  <2> QED BY <2>1, <2>2 DEF Sound
<1>4. CreditAgrees
  BY TendersAssumption DEF Init, CreditAgrees, Given
<1>5. NoUncountedCash
  BY DEF NoUncountedCash, Init
<1>6. RacedOK
  BY DEF RacedOK, AtRisk, WalletsOf, Init, Idle, Paying, Counting
<1>7. \A h \in Handlers : Current(handler[h])
  BY IdleOK DEF Init
<1> QED BY <1>3, <1>4, <1>5, <1>6, <1>7, InitOK DEF RInv

(* A commit makes something of a payment or refund: of the new one, or of    *)
(* the bank transfer that has arrived.                                       *)
Made(H) ==
  H.row.status = "succeeded" /\ (pay[H.key] = NoRow \/ pay[H.key].status # "succeeded")

(* A class of rows that does not depend on the status.                       *)
Lasting(C) == C \subseteq RowWith(Nat) /\ \A r \in RowWith(Nat) : \A n : IsConfirmed(r, n) => (r \in C <=> n \in C)

(* The payments or refunds in such a class, and under some keys M.           *)
RowsIn(p, kind, C, M) ==
  {k \in Keys : p[k].kind = kind /\ p[k].status = "succeeded" /\ k \in M /\ p[k] \in C}

LEMMA CommitAmount ==
  ASSUME IInv, NEW h \in Handlers, Commit(h), NEW kind, NEW C, Lasting(C), NEW M
  PROVE  LET H == handler[h]
             K == RowsIn(pay, kind, C, M)
             L == RowsIn(pay', kind, C, M) IN
         /\ AmountIn(pay, K) \in Nat /\ H.row.amount \in Nat
         /\ AmountIn(pay', L) = AmountIn(pay, K)
              + IF Made(H) /\ H.row.kind = kind /\ H.key \in M /\ pay'[H.key] \in C THEN H.row.amount ELSE 0
<1> DEFINE H == handler[h]
           row == H.row
           key == H.key
           old == pay[key]
           new == pay'[key]
           K == RowsIn(pay, kind, C, M)
           L == RowsIn(pay', kind, C, M)
<1>0. RowsOK
  BY DEF IInv
<1>1. /\ key \in Keys /\ row \in RowWith(Nat \cup {NewSession}) /\ new \in RowWith(Nat)
      /\ pay' = [pay EXCEPT ![key] = new] /\ new = [row EXCEPT !.session = new.session]
      /\ old = NoRow \/ (IsConfirmed(old, new) /\ row = new /\ old \in RowWith(Nat))
  BY CommitStep
<1>2. \A k \in Keys \ {key} : pay'[k] = pay[k]
  BY <1>0, <1>1 DEF RowsOK
<1>3. new.kind = row.kind /\ new.status = row.status /\ row.amount \in Nat
  BY <1>1 DEF RowWith
<1>4. K \in SUBSET Keys /\ L \in SUBSET Keys /\ \A k \in Keys \ {key} : k \in L <=> k \in K
  BY <1>2 DEF RowsIn
<1>5. key \in L <=> row.kind = kind /\ row.status = "succeeded" /\ key \in M /\ new \in C
  BY <1>1, <1>3 DEF RowsIn
<1>6. CASE old = NoRow
  <2>1. key \notin K
    BY <1>6 DEF RowsIn, NoRow
  <2>2. Made(H) <=> row.status = "succeeded"
    BY <1>6 DEF Made
  <2> HIDE DEF H, row, key, old, new, K, L
  <2>3. CASE key \in L
    BY <1>3, <1>4, <1>5, <2>1, <2>2, <2>3, CommitSum DEF H, row, key, new, K, L
  <2>4. CASE key \notin L
    <3>1. AmountIn(pay', L) = AmountIn(pay, K) /\ AmountIn(pay, K) \in Nat
      BY <1>4, <2>1, <2>4, CommitSum DEF H, key
    <3> QED BY <1>3, <1>5, <2>2, <2>4, <3>1 DEF H, row, key, new, K, L
  <2> QED BY <2>3, <2>4
<1>7. CASE old # NoRow
  <2>1. IsConfirmed(old, new) /\ row = new /\ old \in RowWith(Nat)
    BY <1>1, <1>7
  <2>2. old.kind = row.kind /\ row.status = "succeeded" /\ (old \in C <=> new \in C)
    BY <2>1 DEF IsConfirmed, RowWith, Lasting
  <2>3. key \in K <=> row.kind = kind /\ old.status = "succeeded" /\ key \in M /\ new \in C
    BY <1>1, <2>2 DEF RowsIn
  <2>4. Made(H) <=> old.status # "succeeded"
    BY <1>7, <2>2 DEF Made
  <2> HIDE DEF H, row, key, old, new, K, L
  <2>5. CASE key \in L /\ key \notin K
    <3>1. AmountIn(pay', L) = AmountIn(pay, K) + row.amount /\ AmountIn(pay, K) \in Nat
      BY <1>4, <2>5, CommitSum DEF H, row, key
    <3> QED BY <1>3, <1>5, <2>2, <2>3, <2>4, <2>5, <3>1 DEF H, row, key, old, new, K, L
  <2>6. CASE key \in L <=> key \in K
    <3>1. AmountIn(pay', L) = AmountIn(pay, K) /\ AmountIn(pay, K) \in Nat
      BY <1>4, <1>7, <2>6, CommitSum DEF H, key, old
    <3>2. ~(Made(H) /\ row.kind = kind /\ key \in M /\ new \in C)
      BY <1>5, <2>2, <2>3, <2>4, <2>6
    <3> QED BY <1>3, <3>1, <3>2 DEF H, row, key, new, K, L
  <2> QED BY <1>5, <2>2, <2>3, <2>5, <2>6
<1> QED BY <1>6, <1>7

(* ... its payments or refunds, all of them, ...                             *)
LEMMA CommitRows ==
  ASSUME IInv, NEW h \in Handlers, Commit(h), NEW kind
  PROVE  LET H == handler[h] IN
         /\ AmountOf(Rows(kind)) \in Nat /\ H.row.amount \in Nat
         /\ AmountOf(Rows(kind))' = AmountOf(Rows(kind)) + IF Made(H) /\ H.row.kind = kind THEN H.row.amount ELSE 0
<1> DEFINE C == RowWith(Nat)
<1>0. RowsOK /\ RowsOK'
  BY CommitKept DEF IInv
<1>m. PICK M : M = Keys
  OBVIOUS
<1>1. /\ Rows(kind) = RowsIn(pay, kind, C, M)
      /\ Rows(kind)' = RowsIn(pay', kind, C, M)
  BY <1>0, <1>m DEF Rows, RowsIn, RowsOK, NoRow
<1>2. Lasting(C)
  BY DEF Lasting, IsConfirmed, RowWith
<1>3. handler[h].key \in M /\ pay'[handler[h].key] \in C
  BY <1>m, CommitStep
<1>4. AmountOf(Rows(kind)) = AmountIn(pay, Rows(kind)) /\ AmountOf(Rows(kind))' = AmountIn(pay', Rows(kind)')
  BY DEF AmountOf, AmountIn
<1> HIDE DEF C
<1> DEFINE K == RowsIn(pay, kind, C, M)
           L == RowsIn(pay', kind, C, M)
           H == handler[h]
<1>5. /\ AmountIn(pay, K) \in Nat /\ H.row.amount \in Nat
      /\ AmountIn(pay', L) = AmountIn(pay, K)
           + IF Made(H) /\ H.row.kind = kind /\ H.key \in M /\ pay'[H.key] \in C THEN H.row.amount ELSE 0
  BY <1>2, CommitAmount
<1> QED BY <1>1, <1>3, <1>4, <1>5

(* ... what was paid in earnest, ...                                         *)
LEMMA CommitPlain ==
  ASSUME IInv, NEW h \in Handlers, Commit(h)
  PROVE  LET H == handler[h] IN
         /\ PlainPaid \in Int /\ Lifts(H) \in Int
         /\ PlainPaid' = PlainPaid + IF Made(H) THEN Lifts(H) ELSE 0
<1> DEFINE H == handler[h]
           C == {r \in RowWith(Nat) : r.method # "bank"}
<1>0. RowsOK /\ RowsOK' /\ raced' = raced
  BY CommitKept DEF IInv, Commit, callVars
<1>1. PICK M : M = {k \in Keys : <<"order", k>> \notin raced}
  OBVIOUS
<1>2. Plain = RowsIn(pay, "sale", C, M)
  BY <1>0, <1>1 DEF Plain, Rows, RowsIn, RowsOK, NoRow
<1>3. Plain' = RowsIn(pay', "sale", C, M)
  BY <1>0, <1>1 DEF Plain, Rows, RowsIn, RowsOK, NoRow
<1>4. Lasting(C)
  BY DEF Lasting, IsConfirmed, RowWith
<1>5. H.row.kind \in {"sale", "refund"} /\ H.row.amount \in Nat
      /\ (IsPlain(H) <=> H.row.kind = "sale" /\ H.key \in M /\ pay'[H.key] \in C)
  BY <1>1, CommitStep DEF RowWith, IsPlain
<1>6. AmountOf(Plain) = AmountIn(pay, Plain) /\ AmountOf(Plain)' = AmountIn(pay', Plain')
  BY DEF AmountOf, AmountIn
<1> HIDE DEF C
<1>7. /\ AmountOf(Plain) \in Nat
      /\ AmountOf(Plain)' = AmountOf(Plain) + IF Made(H) /\ IsPlain(H) THEN H.row.amount ELSE 0
  BY <1>2, <1>3, <1>4, <1>5, <1>6, CommitAmount
<1>8. /\ AmountOf(Rows("refund")) \in Nat
      /\ AmountOf(Rows("refund"))' = AmountOf(Rows("refund"))
           + IF Made(H) /\ H.row.kind = "refund" THEN H.row.amount ELSE 0
  BY CommitRows
<1>9. Lifts(H) = IF H.row.kind = "refund" THEN -H.row.amount ELSE IF IsPlain(H) THEN H.row.amount ELSE 0
  BY DEF Lifts
<1>10. IsPlain(H) => H.row.kind = "sale"
  BY DEF IsPlain
<1> HIDE DEF H
<1>11. Lifts(H) \in Int /\ PlainPaid \in Int
  BY <1>5, <1>7, <1>8, <1>9 DEF PlainPaid
<1>12. PlainPaid' = AmountOf(Plain)' - AmountOf(Rows("refund"))'
  BY DEF PlainPaid
<1> QED BY <1>5, <1>7, <1>8, <1>9, <1>10, <1>11, <1>12 DEF H, PlainPaid

(* ... what was refunded of one payment, ...                                 *)
LEMMA CommitRefunds ==
  ASSUME IInv, NEW h \in Handlers, Commit(h), NEW k \in Keys
  PROVE  LET H == handler[h] IN
         /\ AmountOf(PlainRefunds(k)) \in Nat
         /\ AmountOf(PlainRefunds(k))' = AmountOf(PlainRefunds(k))
              + IF Made(H) /\ H.row.kind = "refund" /\ H.row.parent = k /\ <<"refund", H.key>> \notin raced
                THEN H.row.amount ELSE 0
<1> DEFINE H == handler[h]
           C == {r \in RowWith(Nat) : r.parent = k}
<1>0. RowsOK /\ RowsOK' /\ raced' = raced
  BY CommitKept DEF IInv, Commit, callVars
<1>1. PICK M : M = {r \in Keys : <<"refund", r>> \notin raced}
  OBVIOUS
<1>2. PlainRefunds(k) = RowsIn(pay, "refund", C, M)
  BY <1>0, <1>1 DEF PlainRefunds, RefundsOf, Rows, RowsIn, RowsOK, NoRow
<1>3. PlainRefunds(k)' = RowsIn(pay', "refund", C, M)
  BY <1>0, <1>1 DEF PlainRefunds, RefundsOf, Rows, RowsIn, RowsOK, NoRow
<1>4. Lasting(C)
  BY DEF Lasting, IsConfirmed, RowWith
<1>5. /\ pay'[H.key] \in C <=> H.row.parent = k
      /\ H.key \in M <=> <<"refund", H.key>> \notin raced
  BY <1>1, CommitStep DEF RowWith
<1>6. /\ AmountOf(PlainRefunds(k)) = AmountIn(pay, PlainRefunds(k))
      /\ AmountOf(PlainRefunds(k))' = AmountIn(pay', PlainRefunds(k)')
  BY DEF AmountOf, AmountIn
<1> HIDE DEF C
<1> QED BY <1>2, <1>3, <1>4, <1>5, <1>6, CommitAmount

(* ... and the cash it moves.                                                *)
LEMMA CommitCash ==
  ASSUME IInv, NEW h \in Handlers, Commit(h), NEW kind, NEW s
  PROVE  LET H == handler[h] IN
         /\ CashOf(kind, s) \in Nat /\ H.row.amount \in Nat
         /\ CashOf(kind, s)' = CashOf(kind, s)
              + IF Made(H) /\ H.row.kind = kind /\ H.row.method = "cash" /\ pay'[H.key].session = s
                THEN H.row.amount ELSE 0
<1> DEFINE H == handler[h]
           Cash == {k \in Rows(kind) : pay[k].method = "cash" /\ pay[k].session = s}
           C == {r \in RowWith(Nat) : r.method = "cash" /\ r.session = s}
<1>0. RowsOK /\ RowsOK'
  BY CommitKept DEF IInv
<1>m. PICK M : M = Keys
  OBVIOUS
<1>1. /\ Cash = RowsIn(pay, kind, C, M)
      /\ Cash' = RowsIn(pay', kind, C, M)
  BY <1>0, <1>m DEF Rows, RowsIn, RowsOK, NoRow
<1>2. Lasting(C)
  BY DEF Lasting, IsConfirmed, RowWith
<1>3. H.key \in M /\ (pay'[H.key] \in C <=> H.row.method = "cash" /\ pay'[H.key].session = s)
  BY <1>m, CommitStep DEF RowWith
<1>4. CashOf(kind, s) = AmountIn(pay, Cash) /\ CashOf(kind, s)' = AmountIn(pay', Cash')
  BY DEF CashOf, AmountOf, AmountIn
<1> HIDE DEF C, Cash
<1> QED BY <1>1, <1>2, <1>3, <1>4, CommitAmount

(* The balance of the order, and the payments and refunds in it.             *)
LEMMA CommitPays ==
  ASSUME RInv, NEW h \in Handlers, Commit(h)
  PROVE  Sound'
<1> DEFINE H == handler[h]
           row == H.row
           key == H.key
           old == pay[key]
           new == pay'[key]
<1>0. /\ IInv /\ RowsOK /\ RowsOK' /\ ParentsOK /\ Current(H)
      /\ PlainPaid + due <= Total /\ RefundsCapped /\ due \in Nat /\ Total \in Nat
      /\ raced' = raced
  BY CommitKept, TendersAssumption DEF RInv, IInv, Sound, RowsOK, Commit, callVars
<1>1. /\ H.pc = "commit" /\ PayOK(H) /\ key \in Keys /\ row \in RowWith(Nat \cup {NewSession})
      /\ pay' = [pay EXCEPT ![key] = new] /\ new \in RowWith(Nat)
      /\ new = [row EXCEPT !.session = new.session]
      /\ old = NoRow \/ (IsConfirmed(old, new) /\ row = new /\ old \in RowWith(Nat))
  BY <1>0, CommitStep
<1>2. /\ new.kind = row.kind /\ new.amount = row.amount
      /\ row.amount \in Nat /\ row.kind \in {"sale", "refund"}
  BY <1>1 DEF RowWith
<1>3. /\ old # NoRow => /\ old.kind = "sale" /\ row.kind = "sale" /\ row.method = "bank"
                        /\ row.status = "succeeded" /\ old.amount = row.amount
  BY <1>1 DEF IsConfirmed, RowWith
<1>4. CurrentPay(H)
  BY <1>0, <1>1 DEF Current, Paying
<1>5. /\ PlainPaid \in Int /\ Lifts(H) \in Int
      /\ PlainPaid' = PlainPaid + IF Made(H) THEN Lifts(H) ELSE 0
  BY <1>0, CommitPlain
<1>6. ASSUME row.status = "succeeded" PROVE PlainPaid' + due' <= Total
  <2>1. PlainPaid' = PlainPaid + Lifts(H)
    <3>1. ~Made(H) => Lifts(H) = 0
      BY <1>3, <1>6 DEF Made, Lifts, IsPlain
    <3> HIDE DEF H
    <3> QED BY <1>5, <3>1
  <2>2. PlainPaid + Lifts(H) <= H.sum /\ H.sum \in Int /\ due' = DueFor(H.sum)
    BY <1>0, <1>1, <1>4, <1>6, CommitStep DEF CurrentPay, Commit
  <2>3. PlainPaid + Lifts(H) <= Total
    <3>1. CASE IsPlain(H)
      <4>1. PlainPaid + row.amount <= Total
        BY <1>1, <1>4, <1>6, <3>1 DEF CurrentPay, Inserting
      <4> QED BY <3>1, <4>1 DEF Lifts, IsPlain
    <3>2. CASE ~IsPlain(H)
      <4>1. Lifts(H) <= 0
        BY <1>2, <3>2 DEF Lifts
      <4> HIDE DEF H
      <4> QED BY <1>0, <1>5, <4>1
    <3> QED BY <3>1, <3>2
  <2> HIDE DEF H
  <2> QED BY <1>0, <1>5, <2>1, <2>2, <2>3 DEF DueFor
<1>7. ASSUME row.status # "succeeded" PROVE PlainPaid' + due' <= Total
  BY <1>0, <1>5, <1>7 DEF Made, Commit
<1>8. (PlainPaid + due <= Total)'
  <2>1. PlainPaid' + due' <= Total
    BY <1>6, <1>7
  <2> QED BY <2>1
<1>9. RefundsCapped'
  <2> SUFFICES ASSUME NEW k \in Keys, k \in Rows("sale")'
               PROVE  AmountOf(PlainRefunds(k))' <= pay'[k].amount
    BY DEF RefundsCapped, Rows
  <2>1. /\ AmountOf(PlainRefunds(k)) \in Nat
        /\ AmountOf(PlainRefunds(k))' = AmountOf(PlainRefunds(k))
             + IF Made(H) /\ row.kind = "refund" /\ row.parent = k /\ <<"refund", key>> \notin raced
               THEN row.amount ELSE 0
    BY <1>0, CommitRefunds
  <2>2. CASE k \in Rows("sale")
    <3>1. pay'[k].amount = pay[k].amount /\ pay[k].amount \in Nat
      <4>1. pay[k].amount \in Nat /\ pay[k] # NoRow
        BY <1>0, <2>2, RowAmounts DEF Rows, NoRow
      <4> QED BY <1>0, <1>1, <1>2, <1>3, <4>1 DEF RowsOK
    <3>2. AmountOf(PlainRefunds(k)) <= pay[k].amount
      BY <1>0, <2>2 DEF RefundsCapped
    <3>3. CASE Made(H) /\ row.kind = "refund" /\ row.parent = k /\ <<"refund", key>> \notin raced
      <4>1. AmountOf(PlainRefunds(k)) + row.amount <= pay[k].amount
        BY <1>1, <1>4, <3>3 DEF CurrentPay, Inserting
      <4> HIDE DEF H, row, key
      <4> QED BY <2>1, <3>1, <3>3, <4>1
    <3>4. CASE ~(Made(H) /\ row.kind = "refund" /\ row.parent = k /\ <<"refund", key>> \notin raced)
      BY <2>1, <3>1, <3>2, <3>4
    <3> QED BY <3>3, <3>4
  <2>3. CASE k \notin Rows("sale")
    <3>1. k = key /\ row.kind = "sale"
      BY <1>0, <1>1, <1>2, <2>3 DEF RowsOK, Rows
    <3>2. PlainRefunds(k) = {}
      BY <1>0, <2>3 DEF PlainRefunds, RefundsOf, ParentsOK
    <3>3. AmountOf(PlainRefunds(k)) = 0
      BY <3>2, FS_EmptySet, SumNothing DEF AmountOf
    <3> QED BY <1>2, <2>1, <3>1, <3>3
  <2> QED BY <2>2, <2>3
<1> QED BY <1>8, <1>9 DEF Sound

LEMMA CommitPlainCash ==
  ASSUME IInv, NEW h \in Handlers, Commit(h), NEW s
  PROVE  LET H == handler[h] IN
         /\ PlainCash(s) \in Nat
         /\ PlainCash(s)' = PlainCash(s)
              + IF /\ Made(H) /\ H.row.kind = "sale" /\ H.row.method = "cash"
                   /\ pay'[H.key].session = s /\ <<"count", H.key>> \notin raced
                THEN H.row.amount ELSE 0
<1> DEFINE H == handler[h]
           Cash == {k \in Rows("sale") : pay[k].method = "cash" /\ pay[k].session = s
                                          /\ <<"count", k>> \notin raced}
           C == {r \in RowWith(Nat) : r.method = "cash" /\ r.session = s}
<1>0. RowsOK /\ RowsOK' /\ raced' = raced
  BY CommitKept DEF IInv, Commit, callVars
<1>1. PICK M : M = {k \in Keys : <<"count", k>> \notin raced}
  OBVIOUS
<1>2. Cash = RowsIn(pay, "sale", C, M) /\ Cash' = RowsIn(pay', "sale", C, M)
  BY <1>0, <1>1 DEF Rows, RowsIn, RowsOK, NoRow
<1>3. Lasting(C)
  BY DEF Lasting, IsConfirmed, RowWith
<1>4. /\ pay'[H.key] \in C <=> H.row.method = "cash" /\ pay'[H.key].session = s
      /\ H.key \in M <=> <<"count", H.key>> \notin raced
  BY <1>1, CommitStep DEF RowWith
<1>5. PlainCash(s) = AmountIn(pay, Cash) /\ PlainCash(s)' = AmountIn(pay', Cash')
  BY DEF PlainCash, AmountOf, AmountIn
<1> HIDE DEF C, Cash
<1> QED BY <1>2, <1>3, <1>4, <1>5, CommitAmount

(* No cash goes into a drawer that is closed.                                *)
LEMMA CommitCounts ==
  ASSUME RInv, NEW h \in Handlers, Commit(h)
  PROVE  NoUncountedCash'
<1> DEFINE H == handler[h]
           row == H.row
           key == H.key
           new == pay'[key]
<1>0. IInv /\ RowsOK /\ NoUncountedCash /\ Current(H) /\ raced' = raced
  BY DEF RInv, IInv, Commit, callVars
<1>1. /\ H.pc = "commit" /\ PayOK(H) /\ row \in RowWith(Nat \cup {NewSession})
      /\ new.session = IF row.session = NewSession THEN Len(sessions) + 1 ELSE row.session
  BY <1>0, CommitStep
<1>2. sessions \in Seq(Drawer) /\ NewDrawer(0) \in Drawer /\ NewDrawer(0).open
  BY <1>0 DEF RowsOK, NewDrawer, Drawer
<1>3. CurrentPay(H)
  BY <1>0, <1>1 DEF Current, Paying
<1> SUFFICES ASSUME NEW s \in DOMAIN sessions', ~sessions'[s].open, <<"drawer", s>> \notin raced'
             PROVE  (InDrawer(s) <= sessions[s].expected)'
  BY DEF NoUncountedCash
<1>4. s \in DOMAIN sessions /\ sessions'[s] = sessions[s] /\ s # Len(sessions) + 1
  <2>1. CASE sessions' = sessions
    BY <1>2, <2>1
  <2>2. CASE sessions' = Append(sessions, NewDrawer(0))
    BY <1>2, <2>2
  <2> QED BY <2>1, <2>2 DEF Commit
<1>5. ~sessions[s].open /\ InDrawer(s) <= sessions[s].expected
  BY <1>0, <1>4 DEF NoUncountedCash
<1>6. sessions[s].float \in Int /\ sessions[s].moved \in Int /\ sessions[s].expected \in Int
  <2>1. sessions[s] \in Drawer
    BY <1>2, <1>4
  <2> QED BY <2>1 DEF Drawer
<1>7. PlainCash(s) \in Nat /\ PlainCash(s)' = PlainCash(s)
  <2>1. ~(row.kind = "sale" /\ row.method = "cash" /\ new.session = s /\ <<"count", key>> \notin raced)
    <3> SUFFICES ASSUME row.kind = "sale", row.method = "cash", new.session = s, <<"count", key>> \notin raced
                 PROVE FALSE
      OBVIOUS
    <3>1. row.session \in OpenSessions \cup {NewSession}
      BY <1>1, <1>3 DEF CurrentPay, Inserting
    <3> QED BY <1>1, <1>4, <1>5, <3>1 DEF OpenSessions
  <2>2. /\ PlainCash(s) \in Nat
        /\ PlainCash(s)' = PlainCash(s)
             + IF /\ Made(H) /\ row.kind = "sale" /\ row.method = "cash"
                  /\ new.session = s /\ <<"count", key>> \notin raced
               THEN row.amount ELSE 0
    BY <1>0, CommitPlainCash
  <2> QED BY <2>1, <2>2
<1>8. CashOf("refund", s) \in Nat /\ CashOf("refund", s)' \in Nat /\ CashOf("refund", s)' >= CashOf("refund", s)
  BY <1>0, CommitCash
<1>9. InDrawer(s)' = sessions[s].float + sessions[s].moved + PlainCash(s) - CashOf("refund", s)'
  BY <1>4, <1>7 DEF InDrawer
<1>10. InDrawer(s) = sessions[s].float + sessions[s].moved + PlainCash(s) - CashOf("refund", s)
  BY DEF InDrawer
<1> QED BY <1>4, <1>5, <1>6, <1>7, <1>8, <1>9, <1>10

(* What is taken from a wallet, or put in, is booked.                        *)
LEMMA CommitCredits ==
  ASSUME RInv, NEW h \in Handlers, Commit(h)
  PROVE  CreditAgrees'
<1> DEFINE H == handler[h]
           row == H.row
           w == row.method
<1>0. /\ IInv /\ RowsOK /\ CreditAgrees /\ Current(H) /\ Credit \in [Wallets -> Nat]
      /\ raced' = raced
  BY TendersAssumption DEF RInv, IInv, Commit, callVars
<1>1. H.pc = "commit" /\ PayOK(H) /\ row \in RowWith(Nat \cup {NewSession}) /\ topups' = topups
  BY <1>0, CommitStep DEF Commit
<1>2. \A v \in Wallets : Given(v)' = Given(v)
  BY <1>1 DEF Given
<1>3. CASE Spends(row)
  <2>1. /\ <<"wallet", w>> \notin raced => H.next = wallet[w] - row.amount
        /\ H.next \in Nat /\ row.amount \in Nat /\ w \in Wallets
    BY <1>0, <1>1, <1>3 DEF Current, Paying, CurrentPay, Holding, PayOK, RowWith, Spends
  <2>2. /\ wallet' = [wallet EXCEPT ![w] = H.next]
        /\ debits' = [debits EXCEPT ![w] = @ + row.amount]
    BY <1>3 DEF Commit, Spends
  <2>3. ASSUME NEW v \in Wallets
        PROVE  wallet'[v] >= 0 /\ (<<"wallet", v>> \notin raced => wallet'[v] = Given(v) - debits'[v])
    <3>1. /\ <<"wallet", v>> \notin raced => wallet[v] = Given(v) - debits[v]
          /\ wallet[v] >= 0 /\ Given(v) \in Int
          /\ debits[v] \in Int /\ wallet[v] \in Int
      BY <1>0 DEF CreditAgrees, Given, RowsOK
    <3>2. CASE v = w
      <4>1. wallet'[v] = H.next /\ debits'[v] = debits[v] + row.amount
        BY <1>0, <2>2, <3>2 DEF RowsOK
      <4> HIDE DEF H, w, row
      <4> QED BY <2>1, <3>1, <3>2, <4>1
    <3>3. CASE v # w
      BY <1>0, <2>2, <3>1, <3>3 DEF RowsOK
    <3> QED BY <3>2, <3>3
  <2> QED BY <1>0, <1>2, <2>3 DEF CreditAgrees
<1>4. CASE ~Spends(row)
  <2>1. wallet' = wallet /\ debits' = debits
    BY <1>4 DEF Commit, Spends
  <2> QED BY <1>0, <1>2, <2>1 DEF CreditAgrees
<1> QED BY <1>3, <1>4

LEMMA AdjustCredits ==
  ASSUME RInv, NEW h \in Handlers, Adjust(h)
  PROVE  CreditAgrees'
<1> DEFINE H == handler[h]
<1>0. /\ RowsOK /\ HandlersOK /\ CreditAgrees /\ Current(H)
      /\ Credit \in [Wallets -> Nat] /\ "credit" \in Wallets /\ raced' = raced
  BY TendersAssumption, Methodical DEF RInv, IInv, Adjust, callVars
<1>1. /\ H.pc = "adjust" /\ H.amount \in Int /\ H.next \in Nat
      /\ wallet' = [wallet EXCEPT !["credit"] = H.next]
      /\ topups' = topups + H.amount /\ debits' = debits
  BY <1>0 DEF HandlersOK, StateOK, Adjust, At
<1>2. <<"wallet", "credit">> \notin raced => H.next = wallet["credit"] + H.amount
  BY <1>0, <1>1 DEF Current
<1>3. ASSUME NEW v \in Wallets, <<"wallet", v>> \notin raced
      PROVE  wallet'[v] = Given(v)' - debits'[v]
  <2>1. wallet[v] = Given(v) - debits[v]
    BY <1>0, <1>3 DEF CreditAgrees
  <2>2. /\ Credit[v] \in Int /\ topups \in Int /\ debits[v] \in Int /\ wallet[v] \in Int
        /\ debits'[v] = debits[v]
    BY <1>0, <1>1 DEF RowsOK
  <2>3. CASE v = "credit"
    <3>1. Given(v) = Credit[v] + topups /\ Given(v)' = Credit[v] + topups'
      BY <2>3 DEF Given
    <3>2. wallet'[v] = wallet[v] + H.amount /\ topups' = topups + H.amount /\ H.amount \in Int
      BY <1>0, <1>1, <1>2, <1>3, <2>3 DEF RowsOK
    <3> HIDE DEF H
    <3> QED BY <2>1, <2>2, <3>1, <3>2
  <2>4. CASE v # "credit"
    <3>1. Given(v)' = Given(v)
      BY <2>4 DEF Given
    <3>2. wallet'[v] = wallet[v]
      BY <1>0, <1>1, <2>4 DEF RowsOK
    <3> QED BY <2>1, <2>2, <3>1, <3>2
  <2> QED BY <2>3, <2>4
<1>4. \A v \in Wallets : wallet'[v] >= 0
  BY <1>0, <1>1 DEF RowsOK
<1> QED BY <1>0, <1>3, <1>4 DEF CreditAgrees

(* The drawer: one that is closed is left as it is, and one that is being    *)
(* closed has been counted.                                                  *)
LEMMA DrawerCounts ==
  ASSUME RInv, NEW h \in Handlers, OpenDrawer(h) \/ MoveCash(h) \/ CloseDrawer(h)
  PROVE  NoUncountedCash'
<1> DEFINE H == handler[h]
<1>0. RowsOK /\ HandlersOK /\ StateOK(H) /\ NoUncountedCash /\ Current(H) /\ sessions \in Seq(Drawer)
  BY DEF RInv, IInv, HandlersOK, RowsOK
<1>1. pay' = pay /\ raced' = raced
  BY DEF OpenDrawer, MoveCash, CloseDrawer, callVars
<1>2. \A s : PlainCash(s)' = PlainCash(s) /\ CashOf("refund", s)' = CashOf("refund", s)
  BY <1>1 DEF CashOf, PlainCash, AmountOf, Rows
<1>3. ASSUME NEW s \in DOMAIN sessions, ~sessions[s].open, sessions'[s] = sessions[s], <<"drawer", s>> \notin raced
      PROVE  (InDrawer(s) <= sessions[s].expected)'
  <2>1. InDrawer(s) <= sessions[s].expected
    BY <1>0, <1>3 DEF NoUncountedCash
  <2> QED BY <1>2, <1>3, <2>1 DEF InDrawer
<1> SUFFICES ASSUME NEW s \in DOMAIN sessions', ~sessions'[s].open, <<"drawer", s>> \notin raced'
             PROVE  (InDrawer(s) <= sessions[s].expected)'
  BY DEF NoUncountedCash
<1>4. CASE OpenDrawer(h)
  <2>1. sessions' = Append(sessions, NewDrawer(H.float)) /\ NewDrawer(H.float).open
    BY <1>4 DEF OpenDrawer, NewDrawer
  <2>2. s \in DOMAIN sessions /\ sessions'[s] = sessions[s]
    BY <1>0, <2>1
  <2> QED BY <1>1, <1>3, <2>2
<1>5. CASE MoveCash(h)
  <2>1. /\ H.session \in DOMAIN sessions
        /\ <<"drawer", H.session>> \notin raced => H.session \in OpenSessions
        /\ sessions' = [sessions EXCEPT ![H.session].moved = @ + H.amount]
    BY <1>0, <1>5 DEF MoveCash, At, Current, StateOK
  <2>2. sessions[H.session] \in Drawer
    BY <1>0, <2>1
  <2>3. s \in DOMAIN sessions /\ s # H.session
    BY <1>0, <1>1, <2>1, <2>2 DEF Drawer, OpenSessions
  <2> QED BY <1>0, <1>1, <1>3, <2>1, <2>3
<1>6. CASE CloseDrawer(h)
  <2> DEFINE n == H.session
             expected == ExpectedCash(sessions[n].float, H.count)
  <2>1. H.pc = "close" /\ sessions' = [sessions EXCEPT ![n].open = FALSE, ![n].expected = expected]
    BY <1>6 DEF CloseDrawer, At
  <2>2. /\ n \in DOMAIN sessions /\ sessions[n] \in Drawer
        /\ H.count["sales"] \in Int /\ H.count["refunds"] \in Int /\ H.count["moved"] \in Int
        /\ PlainCash(n) <= H.count["sales"]
        /\ -CashOf("refund", n) <= H.count["refunds"]
        /\ <<"drawer", n>> \notin raced => H.count["moved"] = sessions[n].moved
    BY <1>0, <2>1 DEF StateOK, CountOK, Current, Counting, CurrentCount, CountParts
  <2>3. CASE s = n
    <3>1. /\ sessions'[s].float = sessions[s].float /\ sessions'[s].moved = sessions[s].moved
          /\ sessions'[s].expected = expected
      BY <1>0, <2>1, <2>2, <2>3 DEF Drawer
    <3>2. expected = sessions[s].float + H.count["sales"] + H.count["refunds"] + sessions[s].moved
      BY <1>1, <2>2, <2>3 DEF ExpectedCash
    <3>3. /\ sessions[s].float \in Int /\ sessions[s].moved \in Int
          /\ PlainCash(s) \in Nat /\ CashOf("refund", s) \in Nat
      BY <1>0, <2>2, <2>3, CashNat, PlainCashLess DEF Drawer
    <3>4. InDrawer(s)' = sessions[s].float + sessions[s].moved + PlainCash(s) - CashOf("refund", s)
      BY <1>2, <3>1 DEF InDrawer
    <3> HIDE DEF expected
    <3> QED BY <2>2, <2>3, <3>1, <3>2, <3>3, <3>4
  <2>4. CASE s # n
    BY <1>0, <1>1, <1>3, <2>1, <2>2, <2>4
  <2> QED BY <2>3, <2>4
<1> QED BY <1>4, <1>5, <1>6

(* Rows stay and requests arrive: less is plain than before. *)
LEMMA LessPlain ==
  ASSUME RowsOK, UNCHANGED rowVars, raced \subseteq raced'
  PROVE  /\ PlainPaid \in Int /\ PlainPaid' \in Int /\ PlainPaid' <= PlainPaid
         /\ \A k : /\ AmountOf(PlainRefunds(k)) \in Nat /\ AmountOf(PlainRefunds(k))' \in Nat
                   /\ AmountOf(PlainRefunds(k))' <= AmountOf(PlainRefunds(k))
         /\ \A n : /\ PlainCash(n) \in Nat /\ PlainCash(n)' \in Nat
                   /\ PlainCash(n)' <= PlainCash(n)
<1>1. UNCHANGED <<pay, sessions>> /\ \A kind : Rows(kind)' = Rows(kind) /\ Rows(kind) \in SUBSET Keys
  BY DEF rowVars, Rows
<1>2. ASSUME NEW L \in SUBSET Keys, NEW K \in SUBSET L
      PROVE  AmountIn(pay, K) \in Nat /\ AmountIn(pay, L) \in Nat /\ AmountIn(pay, K) <= AmountIn(pay, L)
  BY <1>2, AmountLess DEF AmountOf, AmountIn
<1>3. PlainPaid \in Int /\ PlainPaid' \in Int /\ PlainPaid' <= PlainPaid
  <2>1. PICK K : K = Plain'
    OBVIOUS
  <2>2. PICK L : L = Plain
    OBVIOUS
  <2>3. L \in SUBSET Keys /\ K \in SUBSET L
    BY <1>1, <2>1, <2>2 DEF Plain
  <2>4. AmountOf(Plain) = AmountIn(pay, L) /\ AmountOf(Plain)' = AmountIn(pay, K)
    BY <1>1, <2>1, <2>2 DEF AmountOf, AmountIn
  <2>5. AmountIn(pay, K) \in Nat /\ AmountIn(pay, L) \in Nat /\ AmountIn(pay, K) <= AmountIn(pay, L)
    BY <1>2, <2>3
  <2>6. AmountOf(Rows("refund"))' = AmountOf(Rows("refund")) /\ AmountOf(Rows("refund")) \in Nat
    BY <1>1, AmountNat DEF AmountOf
  <2>7. PlainPaid' = AmountOf(Plain)' - AmountOf(Rows("refund"))'
    BY DEF PlainPaid
  <2> QED BY <2>4, <2>5, <2>6, <2>7 DEF PlainPaid
<1>4. ASSUME NEW k
      PROVE  /\ AmountOf(PlainRefunds(k)) \in Nat /\ AmountOf(PlainRefunds(k))' \in Nat
             /\ AmountOf(PlainRefunds(k))' <= AmountOf(PlainRefunds(k))
  <2>1. PICK K : K = PlainRefunds(k)'
    OBVIOUS
  <2>2. PICK L : L = PlainRefunds(k)
    OBVIOUS
  <2>3. L \in SUBSET Keys /\ K \in SUBSET L
    BY <1>1, <2>1, <2>2 DEF PlainRefunds, RefundsOf
  <2>4. /\ AmountOf(PlainRefunds(k)) = AmountIn(pay, L)
        /\ AmountOf(PlainRefunds(k))' = AmountIn(pay, K)
    BY <1>1, <2>1, <2>2 DEF AmountOf, AmountIn
  <2> QED BY <1>2, <2>3, <2>4
<1>5. ASSUME NEW n
      PROVE  PlainCash(n) \in Nat /\ PlainCash(n)' \in Nat /\ PlainCash(n)' <= PlainCash(n)
  <2> DEFINE Cash == {k \in Rows("sale") : pay[k].method = "cash" /\ pay[k].session = n
                                             /\ <<"count", k>> \notin raced}
  <2>1. PICK K : K = Cash'
    OBVIOUS
  <2>2. PICK L : L = Cash
    OBVIOUS
  <2>3. L \in SUBSET Keys /\ K \in SUBSET L
    BY <1>1, <2>1, <2>2
  <2>4. PlainCash(n) = AmountIn(pay, Cash) /\ PlainCash(n)' = AmountIn(pay', Cash')
    BY DEF PlainCash, AmountOf, AmountIn
  <2>5. PlainCash(n) = AmountIn(pay, L) /\ PlainCash(n)' = AmountIn(pay, K)
    <3> HIDE DEF Cash
    <3> QED BY <1>1, <2>1, <2>2, <2>4
  <2> QED BY <1>2, <2>3, <2>5
<1> QED BY <1>3, <1>4, <1>5

LEMMA CurrentStays ==
  ASSUME RowsOK, UNCHANGED rowVars, raced \subseteq raced', NEW s, StateOK(s), Current(s)
  PROVE  Current(s)'
<1>1. UNCHANGED <<due, pay, wallet, sessions>> /\ Total \in Nat
  BY TendersAssumption DEF rowVars
<1>2. OpenSessions' = OpenSessions
  BY <1>1 DEF OpenSessions
<1>3. /\ PlainPaid \in Int /\ PlainPaid' \in Int /\ PlainPaid' <= PlainPaid
      /\ \A k : /\ AmountOf(PlainRefunds(k)) \in Nat /\ AmountOf(PlainRefunds(k))' \in Nat
                /\ AmountOf(PlainRefunds(k))' <= AmountOf(PlainRefunds(k))
      /\ \A n : PlainCash(n) \in Nat /\ PlainCash(n)' \in Nat /\ PlainCash(n)' <= PlainCash(n)
  BY LessPlain
<1>4. ASSUME s.pc \in Paying PROVE CurrentPay(s)'
  <2>1. CurrentPay(s) /\ s \in PayType /\ NewOK(s.row) /\ s.row.amount \in Nat /\ s.sum \in Int
    BY <1>4 DEF Current, StateOK, PayOK, PayType, RowWith
  <2>2. IsPlain(s)' => IsPlain(s)
    BY DEF IsPlain
  <2>3. Lifts(s) \in Int /\ Lifts(s)' \in Int /\ Lifts(s)' <= Lifts(s)
    BY <2>1, <2>2 DEF Lifts
  <2>4. s.row.kind = "refund" => pay[s.row.parent].amount \in Nat
    BY <2>1, RowAmounts DEF NewOK, Rows
  <2>5. ASSUME s.pc \in Holding, Spends(s.row), <<"wallet", s.row.method>> \notin raced'
        PROVE  s.next = wallet'[s.row.method] - s.row.amount
    BY <1>1, <2>1, <2>5 DEF CurrentPay
  <2>6. ASSUME s.pc \in {"drawer", "wallet", "debit"} \cup Inserting, IsPlain(s)', s.row.status = "succeeded"
        PROVE  PlainPaid' + s.row.amount <= Total
    <3>1. PlainPaid + s.row.amount <= Total
      BY <2>1, <2>2, <2>6 DEF CurrentPay
    <3> QED BY <1>1, <1>3, <2>1, <3>1
  <2>7. ASSUME s.pc \in {"refundDrawer"} \cup Inserting, s.row.kind = "refund", <<"refund", s.key>> \notin raced'
        PROVE  AmountOf(PlainRefunds(s.row.parent))' + s.row.amount <= pay'[s.row.parent].amount
    <3>1. AmountOf(PlainRefunds(s.row.parent)) + s.row.amount <= pay[s.row.parent].amount
      BY <2>1, <2>7 DEF CurrentPay
    <3> QED BY <1>1, <1>3, <2>1, <2>4, <2>7, <3>1
  <2>8. ASSUME s.pc \in Inserting, s.row.kind = "sale", s.row.method = "cash", <<"count", s.key>> \notin raced'
        PROVE  s.row.session \in OpenSessions' \cup {NewSession}
    BY <1>2, <2>1, <2>8 DEF CurrentPay
  <2>9. ASSUME s.pc = "commit", s.row.status = "succeeded"
        PROVE  PlainPaid' + Lifts(s)' <= s.sum
    <3>1. PlainPaid + Lifts(s) <= s.sum
      BY <2>1, <2>9 DEF CurrentPay
    <3> QED BY <1>3, <2>1, <2>3, <3>1
  <2> QED BY <2>5, <2>6, <2>7, <2>8, <2>9 DEF CurrentPay
<1>5. ASSUME s.pc \in Counting PROVE CurrentCount(s)'
  <2>1. CurrentCount(s) /\ CountOK(s)
    BY <1>5 DEF Current, StateOK, Counting
  <2>2. CashOf("refund", s.session)' = CashOf("refund", s.session)
    BY <1>1 DEF CashOf, AmountOf, Rows
  <2>3. \A part \in DOMAIN s.count : s.count[part] \in Int
    BY <2>1 DEF CountOK
  <2> QED BY <1>1, <1>3, <2>1, <2>2, <2>3 DEF CurrentCount
<1> QED BY <1>1, <1>2, <1>4, <1>5 DEF Current

-----------------------------------------------------------------------------
(* A request that writes while others run: what it takes from them is raced. *)

LEMMA Together ==
  ASSUME RInv, NEW h \in Handlers, NEW g \in Handlers, g # h
  PROVE  /\ AtRisk(handler[g], handler[h]) \subseteq raced
         /\ AtRisk(handler[h], handler[g]) \subseteq raced
BY DEF RInv, RacedOK

LEMMA CommitLeaves ==
  ASSUME RInv, NEW h \in Handlers, Commit(h), NEW g \in Handlers, g # h, NEW s, s = handler[g]
  PROVE  Current(s)'
<1> DEFINE H == handler[h]
           row == H.row
           key == H.key
<1>0. IInv /\ RowsOK /\ StateOK(s) /\ Current(s) /\ raced' = raced /\ Total \in Nat
  BY TendersAssumption DEF RInv, IInv, HandlersOK, Commit, callVars
<1>1. /\ H.pc = "commit" /\ key \in Keys /\ row \in RowWith(Nat \cup {NewSession}) /\ RowsGrow(h)
      /\ row.amount \in Nat /\ row.kind \in {"sale", "refund"}
  BY <1>0, CommitStep DEF RowWith
<1>2. AtRisk(s, H) \subseteq raced /\ AtRisk(H, s) \subseteq raced
  BY Together
<1>3. sessions \in Seq(Drawer) /\ NewDrawer(0) \in Drawer /\ NewDrawer(0).open
  BY <1>0 DEF RowsOK, NewDrawer, Drawer
<1>4. DOMAIN sessions \subseteq DOMAIN sessions' /\ \A n \in DOMAIN sessions : sessions'[n] = sessions[n]
  <2>1. sessions' = sessions \/ sessions' = Append(sessions, NewDrawer(0))
    BY DEF Commit
  <2> QED BY <1>3, <2>1
<1>5. OpenSessions \subseteq OpenSessions'
  BY <1>4 DEF OpenSessions
<1>6. ASSUME NEW w \in WalletsOf(s), <<"wallet", w>> \notin raced PROVE wallet'[w] = wallet[w]
  <2>1. w \notin WalletsOf(H)
    BY <1>2, <1>6 DEF AtRisk
  <2>2. ~(Spends(row) /\ row.method = w)
    BY <1>1, <2>1 DEF WalletsOf, Spends, Paying
  <2>3. w \in Wallets
    BY <1>6, Methodical DEF WalletsOf
  <2> QED BY <1>0, <2>2, <2>3 DEF Commit, Spends, RowsOK
<1>7. ASSUME s.pc \in Paying PROVE CurrentPay(s)'
  <2>1. CurrentPay(s) /\ s \in PayType /\ NewOK(s.row) /\ s.row.amount \in Nat /\ s.sum \in Int
    BY <1>0, <1>7 DEF Current, StateOK, PayOK, PayType, RowWith
  <2>2. IsPlain(s)' = IsPlain(s) /\ Lifts(s)' = Lifts(s) /\ Lifts(s) \in Int
    BY <1>0, <2>1 DEF IsPlain, Lifts
  <2>3. PlainPaid \in Int /\ PlainPaid' \in Int /\ PlainPaid' <= PlainPaid
    <3>1. /\ PlainPaid \in Int /\ Lifts(H) \in Int
          /\ PlainPaid' = PlainPaid + IF Made(H) THEN Lifts(H) ELSE 0
      BY <1>0, CommitPlain
    <3>2. row.kind = "sale" => <<"order", key>> \in raced
      BY <1>1, <1>2, <1>7 DEF AtRisk, Paying
    <3>3. Lifts(H) <= 0
      BY <1>1, <3>2 DEF Lifts, IsPlain
    <3> HIDE DEF H
    <3> QED BY <3>1, <3>3
  <2>4. ASSUME s.row.kind = "refund", <<"refund", s.key>> \notin raced
        PROVE  /\ AmountOf(PlainRefunds(s.row.parent))' = AmountOf(PlainRefunds(s.row.parent))
               /\ pay'[s.row.parent].amount = pay[s.row.parent].amount
    <3>1. s.row.parent \in Keys /\ pay[s.row.parent] # NoRow /\ pay[s.row.parent] \in RowWith(Nat)
      BY <1>0, <2>1, <2>4 DEF NewOK, Rows, RowsOK, NoRow
    <3>2. pay'[s.row.parent].amount = pay[s.row.parent].amount
      BY <1>1, <3>1 DEF RowsGrow, IsConfirmed, RowWith
    <3>3. ~(row.kind = "refund" /\ row.parent = s.row.parent)
      BY <1>1, <1>2, <1>7, <2>4 DEF AtRisk, Paying
    <3>4. /\ AmountOf(PlainRefunds(s.row.parent)) \in Nat
          /\ AmountOf(PlainRefunds(s.row.parent))' = AmountOf(PlainRefunds(s.row.parent))
               + IF Made(H) /\ row.kind = "refund" /\ row.parent = s.row.parent /\ <<"refund", key>> \notin raced
                 THEN row.amount ELSE 0
      BY <1>0, <3>1, CommitRefunds
    <3> QED BY <3>2, <3>3, <3>4
  <2>5. ASSUME s.pc \in Holding, Spends(s.row), <<"wallet", s.row.method>> \notin raced'
        PROVE  s.next = wallet'[s.row.method] - s.row.amount
    <3>1. s.next = wallet[s.row.method] - s.row.amount
      BY <1>0, <2>1, <2>5 DEF CurrentPay
    <3>2. s.row.method \in WalletsOf(s)
      BY <1>7, <2>5 DEF WalletsOf, Spends, Paying
    <3> QED BY <1>0, <1>6, <2>5, <3>1, <3>2
  <2>6. ASSUME s.pc \in {"drawer", "wallet", "debit"} \cup Inserting, IsPlain(s)', s.row.status = "succeeded"
        PROVE  PlainPaid' + s.row.amount <= Total
    <3>1. PlainPaid + s.row.amount <= Total
      BY <2>1, <2>2, <2>6 DEF CurrentPay
    <3> QED BY <1>0, <2>1, <2>3, <3>1
  <2>7. ASSUME s.pc \in {"refundDrawer"} \cup Inserting, s.row.kind = "refund", <<"refund", s.key>> \notin raced'
        PROVE  AmountOf(PlainRefunds(s.row.parent))' + s.row.amount <= pay'[s.row.parent].amount
    BY <1>0, <2>1, <2>4, <2>7 DEF CurrentPay
  <2>8. ASSUME s.pc \in Inserting, s.row.kind = "sale", s.row.method = "cash", <<"count", s.key>> \notin raced'
        PROVE  s.row.session \in OpenSessions' \cup {NewSession}
    BY <1>0, <1>5, <2>1, <2>8 DEF CurrentPay
  <2>9. ASSUME s.pc = "commit", s.row.status = "succeeded"
        PROVE  PlainPaid' + Lifts(s)' <= s.sum
    <3>1. PlainPaid + Lifts(s) <= s.sum
      BY <2>1, <2>9 DEF CurrentPay
    <3> QED BY <2>1, <2>2, <2>3, <3>1
  <2> QED BY <2>5, <2>6, <2>7, <2>8, <2>9 DEF CurrentPay
<1>8. ASSUME s.pc \in Counting PROVE CurrentCount(s)'
  <2>1. CurrentCount(s) /\ CountOK(s) /\ s.session \in DOMAIN sessions
    BY <1>0, <1>8 DEF Current, StateOK, CountOK, Counting
  <2>2. PlainCash(s.session)' = PlainCash(s.session)
    <3>1. row.kind = "sale" /\ row.method = "cash" => <<"count", key>> \in raced
      BY <1>1, <1>2, <1>8 DEF AtRisk, Paying
    <3>2. /\ PlainCash(s.session) \in Nat
          /\ PlainCash(s.session)' = PlainCash(s.session)
               + IF /\ Made(H) /\ row.kind = "sale" /\ row.method = "cash"
                    /\ pay'[key].session = s.session /\ <<"count", key>> \notin raced
                 THEN row.amount ELSE 0
      BY <1>0, CommitPlainCash
    <3> QED BY <3>1, <3>2
  <2>3. /\ CashOf("refund", s.session) \in Nat /\ CashOf("refund", s.session)' \in Nat
        /\ CashOf("refund", s.session)' >= CashOf("refund", s.session)
    BY <1>0, <1>1, CommitCash
  <2>4. \A part \in DOMAIN s.count : s.count[part] \in Int
    BY <2>1 DEF CountOK
  <2> QED BY <1>0, <1>4, <2>1, <2>2, <2>3, <2>4 DEF CurrentCount
<1>9. ASSUME s.pc = "adjust", <<"wallet", "credit">> \notin raced'
      PROVE  s.next = wallet'["credit"] + s.amount
  <2>1. "credit" \in WalletsOf(s) /\ s.next = wallet["credit"] + s.amount
    BY <1>0, <1>9 DEF WalletsOf, Current
  <2> QED BY <1>0, <1>6, <1>9, <2>1
<1>10. s.pc = "move" /\ <<"drawer", s.session>> \notin raced' => s.session \in OpenSessions'
  BY <1>0, <1>5 DEF Current
<1> QED BY <1>7, <1>8, <1>9, <1>10 DEF Current

(* Store credit is adjusted: only requests on it need to know.               *)
LEMMA AdjustLeaves ==
  ASSUME RInv, NEW h \in Handlers, Adjust(h), NEW g \in Handlers, g # h, NEW s, s = handler[g]
  PROVE  Current(s)'
<1>0. RowsOK /\ StateOK(s) /\ Current(s)
  BY DEF RInv, IInv, HandlersOK
<1>1. UNCHANGED <<due, pay, sessions, raced>> /\ handler[h].pc = "adjust" /\ AtRisk(s, handler[h]) \subseteq raced
  BY Together DEF Adjust, At, callVars
<1>2. "credit" \in WalletsOf(s) => <<"wallet", "credit">> \in raced
  BY <1>1 DEF AtRisk, WalletsOf
<1>3. \A w \in WalletsOf(s) : <<"wallet", w>> \notin raced => wallet'[w] = wallet[w]
  BY <1>0, <1>2 DEF Adjust, WalletsOf, RowsOK
<1>4. /\ PlainPaid' = PlainPaid /\ OpenSessions' = OpenSessions
      /\ \A k : AmountOf(PlainRefunds(k))' = AmountOf(PlainRefunds(k))
      /\ \A n : PlainCash(n)' = PlainCash(n) /\ CashOf("refund", n)' = CashOf("refund", n)
  BY <1>1 DEF PlainPaid, Plain, Rows, AmountOf, OpenSessions, PlainRefunds, RefundsOf, PlainCash, CashOf
<1>5. IsPlain(s)' = IsPlain(s) /\ Lifts(s)' = Lifts(s)
  BY <1>1 DEF IsPlain, Lifts
<1>6. ASSUME s.pc \in Paying PROVE CurrentPay(s)'
  <2>1. CurrentPay(s)
    BY <1>0, <1>6 DEF Current
  <2>2. Spends(s.row) => s.row.method \in WalletsOf(s)
    BY <1>6 DEF WalletsOf, Spends, Paying
  <2> QED BY <1>1, <1>3, <1>4, <1>5, <2>1, <2>2 DEF CurrentPay
<1>7. s.pc = "adjust" => "credit" \in WalletsOf(s)
  BY DEF WalletsOf
<1>8. CurrentCount(s) => CurrentCount(s)'
  BY <1>1, <1>4 DEF CurrentCount
<1> QED BY <1>0, <1>1, <1>2, <1>4, <1>6, <1>7, <1>8 DEF Current

(* The drawer is used: only those who look at it need to know.               *)
LEMMA DrawerLeaves ==
  ASSUME RInv, NEW h \in Handlers, OpenDrawer(h) \/ MoveCash(h) \/ CloseDrawer(h),
         NEW g \in Handlers, g # h, NEW s, s = handler[g]
  PROVE  Current(s)'
<1> DEFINE H == handler[h]
<1>0. RowsOK /\ StateOK(s) /\ StateOK(H) /\ Current(s) /\ sessions \in Seq(Drawer)
  BY DEF RInv, IInv, HandlersOK, RowsOK
<1>1. UNCHANGED <<due, pay, wallet, raced>>
  BY DEF OpenDrawer, MoveCash, CloseDrawer, callVars
<1>2. AtRisk(s, H) \subseteq raced /\ AtRisk(H, s) \subseteq raced
  BY Together
<1>3. /\ PlainPaid' = PlainPaid
      /\ \A k : AmountOf(PlainRefunds(k))' = AmountOf(PlainRefunds(k))
      /\ \A n : PlainCash(n)' = PlainCash(n) /\ CashOf("refund", n)' = CashOf("refund", n)
  BY <1>1 DEF PlainPaid, Plain, Rows, AmountOf, PlainRefunds, RefundsOf, PlainCash, CashOf
<1>4. IsPlain(s)' = IsPlain(s) /\ Lifts(s)' = Lifts(s)
  BY <1>1 DEF IsPlain, Lifts
<1>5. CASE OpenDrawer(h)
  <2>1. sessions' = Append(sessions, NewDrawer(H.float))
    BY <1>5 DEF OpenDrawer
  <2>2. DOMAIN sessions \subseteq DOMAIN sessions' /\ \A n \in DOMAIN sessions : sessions'[n] = sessions[n]
    BY <1>0, <2>1
  <2>3. OpenSessions \subseteq OpenSessions'
    BY <2>2 DEF OpenSessions
  <2>4. s.pc \in Paying => CurrentPay(s)'
    BY <1>0, <1>1, <1>3, <1>4, <2>3 DEF Current, CurrentPay
  <2>5. s.pc \in Counting => CurrentCount(s)'
    BY <1>0, <1>1, <1>3, <2>2 DEF Current, CurrentCount, StateOK, CountOK, Counting
  <2> QED BY <1>0, <1>1, <2>3, <2>4, <2>5 DEF Current
<1>6. CASE MoveCash(h)
  <2>1. /\ H.pc = "move" /\ H.session \in DOMAIN sessions
        /\ sessions' = [sessions EXCEPT ![H.session].moved = @ + H.amount]
    BY <1>0, <1>6 DEF MoveCash, At, StateOK
  <2>2. DOMAIN sessions' = DOMAIN sessions /\ \A n \in DOMAIN sessions : sessions'[n].open = sessions[n].open
    <3>1. \A n \in DOMAIN sessions : sessions[n] \in Drawer
      BY <1>0
    <3> QED BY <2>1, <3>1 DEF Drawer
  <2>3. OpenSessions' = OpenSessions
    BY <2>2 DEF OpenSessions
  <2>4. s.pc \in Paying => CurrentPay(s)'
    BY <1>0, <1>1, <1>3, <1>4, <2>3 DEF Current, CurrentPay
  <2>5. ASSUME s.pc \in Counting PROVE CurrentCount(s)'
    <3>1. CurrentCount(s) /\ s.session \in DOMAIN sessions
      BY <1>0, <2>5 DEF Current, StateOK, CountOK, Counting
    <3>2. <<"drawer", s.session>> \notin raced => s.session # H.session
      BY <1>2, <2>1, <2>5 DEF AtRisk
    <3>3. s.session # H.session => sessions'[s.session] = sessions[s.session]
      BY <2>1, <3>1
    <3> QED BY <1>1, <1>3, <3>1, <3>2, <3>3 DEF CurrentCount
  <2> QED BY <1>0, <1>1, <2>3, <2>4, <2>5 DEF Current
<1>7. CASE CloseDrawer(h)
  <2> DEFINE expected == ExpectedCash(sessions[H.session].float, H.count)
  <2>1. /\ H.pc = "close" /\ H.session \in DOMAIN sessions
        /\ sessions' = [sessions EXCEPT ![H.session].open = FALSE, ![H.session].expected = expected]
    BY <1>0, <1>7 DEF CloseDrawer, At, StateOK, CountOK
  <2> HIDE DEF expected
  <2>2. /\ DOMAIN sessions' = DOMAIN sessions /\ \A n \in DOMAIN sessions : sessions'[n].moved = sessions[n].moved
        /\ \A n \in DOMAIN sessions \ {H.session} : sessions'[n] = sessions[n]
    <3>1. \A n \in DOMAIN sessions : sessions[n] \in Drawer
      BY <1>0
    <3> QED BY <2>1, <3>1 DEF Drawer
  <2>3. OpenSessions \ {H.session} \subseteq OpenSessions'
    BY <2>2 DEF OpenSessions
  <2>4. ASSUME s.pc \in Paying PROVE CurrentPay(s)'
    <3>1. CurrentPay(s)
      BY <1>0, <2>4 DEF Current
    <3>2. s.row.kind = "sale" /\ s.row.method = "cash" => <<"count", s.key>> \in raced
      BY <1>2, <2>1, <2>4 DEF AtRisk, Counting
    <3> QED BY <1>1, <1>3, <1>4, <3>1, <3>2 DEF CurrentPay
  <2>5. s.pc \in Counting => CurrentCount(s)'
    BY <1>0, <1>1, <1>3, <2>2 DEF Current, CurrentCount, StateOK, CountOK, Counting
  <2>6. s.pc = "move" /\ <<"drawer", s.session>> \notin raced => s.session # H.session
    BY <1>2, <2>1 DEF AtRisk, Counting
  <2> QED BY <1>0, <1>1, <2>3, <2>4, <2>5, <2>6 DEF Current
<1> QED BY <1>5, <1>6, <1>7

-----------------------------------------------------------------------------
(* A request that goes on puts no more at risk than it did.                  *)

Follows(s, t) ==
  \/ s.pc = "idle"
  \/ /\ {s.pc, t.pc} \subseteq Paying /\ s.key = t.key
     /\ s.row.kind = t.row.kind /\ s.row.method = t.row.method /\ s.row.parent = t.row.parent
  \/ {s.pc, t.pc} \subseteq Counting /\ s.session = t.session

LEMMA FollowsRisk ==
  ASSUME NEW s, NEW t, NEW u, Follows(s, t)
  PROVE  AtRisk(s, u) \subseteq AtRisk(t, u) /\ AtRisk(u, s) \subseteq AtRisk(u, t)
<1>1. CASE s.pc = "idle"
  <2>1. WalletsOf(s) = {} /\ s.pc \notin Paying /\ s.pc \notin Counting /\ s.pc # "move"
    BY <1>1 DEF WalletsOf, Paying, Counting
  <2>2. AtRisk(s, u) = {} /\ AtRisk(u, s) = {}
    BY <2>1 DEF AtRisk
  <2> QED BY <2>2
<1>2. CASE /\ {s.pc, t.pc} \subseteq Paying /\ s.key = t.key
           /\ s.row.kind = t.row.kind /\ s.row.method = t.row.method /\ s.row.parent = t.row.parent
  <2>1. s.pc # "adjust" /\ t.pc # "adjust" /\ s.pc # "move" /\ t.pc # "move" /\ s.pc \notin Counting /\ t.pc \notin Counting
    BY <1>2 DEF Paying, Counting
  <2>2. WalletsOf(s) = WalletsOf(t)
    BY <1>2, <2>1 DEF WalletsOf
  <2>3. AtRisk(s, u) = AtRisk(t, u)
    BY <1>2, <2>1, <2>2 DEF AtRisk
  <2>4. AtRisk(u, s) = AtRisk(u, t)
    BY <1>2, <2>1, <2>2 DEF AtRisk
  <2> QED BY <2>3, <2>4
<1>3. CASE {s.pc, t.pc} \subseteq Counting /\ s.session = t.session
  <2>1. s.pc # "adjust" /\ t.pc # "adjust" /\ s.pc # "move" /\ t.pc # "move" /\ s.pc \notin Paying /\ t.pc \notin Paying
    BY <1>3 DEF Paying, Counting
  <2>2. WalletsOf(s) = WalletsOf(t)
    BY <2>1 DEF WalletsOf
  <2>3. AtRisk(s, u) = AtRisk(t, u)
    BY <1>3, <2>1, <2>2 DEF AtRisk
  <2>4. AtRisk(u, s) = AtRisk(u, t)
    BY <1>3, <2>1, <2>2 DEF AtRisk
  <2> QED BY <2>3, <2>4
<1> QED BY <1>1, <1>2, <1>3 DEF Follows

LEMMA Onward ==
  ASSUME HandlersOK, NEW h \in Handlers, Proceed(h) \/ Crash(h)
  PROVE  /\ raced' = raced /\ \A g \in Handlers \ {h} : handler'[g] = handler[g]
         /\ Follows(handler'[h], handler[h])
<1> DEFINE H == handler[h]
<1>0. DOMAIN handler = Handlers /\ StateOK(H)
  BY DEF HandlersOK
<1>1. raced' = raced
  BY DEF Proceed, Crash, ReadOrder, FindDrawer, ReadWallet, Debit, Insert, Inserted, Sum, Commit, Confirm,
         ConfirmSum, CapRefund, RefundDrawer, Adjust, OpenDrawer, MoveCash, CountPart, CloseDrawer,
         Local, callVars
<1>2. \A g \in Handlers \ {h} : handler'[g] = handler[g]
  BY <1>0 DEF Proceed, Crash, ReadOrder, FindDrawer, ReadWallet, Debit, Insert, Inserted, Sum, Commit, Confirm,
         ConfirmSum, CapRefund, RefundDrawer, Adjust, OpenDrawer, MoveCash, CountPart, CloseDrawer,
         Goto, Done, Become
<1> SUFFICES Follows(handler'[h], H)
  BY <1>1, <1>2
<1>3. Done(h) => Follows(handler'[h], H)
  BY <1>0 DEF Done, Become, Idle, Follows
<1>4. ASSUME H.pc \in Paying, NEW pc \in Paying, Goto(h, pc) PROVE Follows(handler'[h], H)
  <2>1. H \in PayType
    BY <1>4, NowPaying
  <2>2. handler'[h] = [H EXCEPT !.pc = pc]
    BY <1>0, <1>4 DEF Goto
  <2>3. handler'[h].pc = pc /\ handler'[h].key = H.key /\ handler'[h].row = H.row
    BY <2>1, <2>2 DEF PayType
  <2> QED BY <1>4, <2>3 DEF Follows
<1>5. ASSUME H.pc \in Paying, NEW pc \in Paying, NEW n, handler' = [handler EXCEPT ![h].pc = pc, ![h].sum = n]
      PROVE  Follows(handler'[h], H)
  <2>1. H \in PayType
    BY <1>5, NowPaying
  <2>2. handler'[h] = [H EXCEPT !.pc = pc, !.sum = n]
    BY <1>0, <1>5
  <2>3. handler'[h].pc = pc /\ handler'[h].key = H.key /\ handler'[h].row = H.row
    BY <2>1, <2>2 DEF PayType
  <2> QED BY <1>5, <2>3 DEF Follows
<1>6. ASSUME H.pc \in Paying, NEW pc \in Paying, NEW n, handler' = [handler EXCEPT ![h].pc = pc, ![h].row.session = n]
      PROVE  Follows(handler'[h], H)
  <2>1. H \in PayType /\ H.row \in RowWith(Nat \cup {NewSession})
    BY <1>6, NowPaying
  <2>2. handler'[h] = [H EXCEPT !.pc = pc, !.row = [H.row EXCEPT !.session = n]]
    BY <1>0, <1>6, <2>1 DEF PayType, RowWith
  <2>3. PICK row : row = [H.row EXCEPT !.session = n]
    <3> HIDE DEF H
    <3> QED OBVIOUS
  <2>4. row.kind = H.row.kind /\ row.method = H.row.method /\ row.parent = H.row.parent
    BY <2>1, <2>3 DEF RowWith
  <2>5. handler'[h].pc = pc /\ handler'[h].key = H.key /\ handler'[h].row = row
    BY <2>1, <2>2, <2>3 DEF PayType
  <2> QED BY <1>6, <2>4, <2>5 DEF Follows
<1>7. CASE ReadOrder(h)
  <2>1. H.pc = "order" /\ H \in PayType /\ H.row \in RowWith(Nat \cup {NewSession})
    BY <1>7, NowPaying DEF ReadOrder, At, Paying
  <2>2. StepFor(H.row.method) \in Paying
    BY DEF StepFor, Paying
  <2>3. ASSUME NEW n, handler' = [handler EXCEPT ![h].pc = StepFor(H.row.method), ![h].row.amount = n]
        PROVE  Follows(handler'[h], H)
    <3>1. handler'[h] = [H EXCEPT !.pc = StepFor(H.row.method), !.row = [H.row EXCEPT !.amount = n]]
      BY <1>0, <2>1, <2>3 DEF PayType, RowWith
    <3>2. PICK row : row = [H.row EXCEPT !.amount = n]
      <4> HIDE DEF H
      <4> QED OBVIOUS
    <3>3. row.kind = H.row.kind /\ row.method = H.row.method /\ row.parent = H.row.parent
      BY <2>1, <3>2 DEF RowWith
    <3>4. handler'[h].pc = StepFor(H.row.method) /\ handler'[h].key = H.key /\ handler'[h].row = row
      BY <2>1, <3>1, <3>2 DEF PayType
    <3> QED BY <2>1, <2>2, <3>3, <3>4 DEF Follows, Paying
  <2>4. PICK n : n = IF H.row.status = "succeeded" /\ H.row.amount > due THEN due ELSE H.row.amount
    OBVIOUS
  <2>5. Done(h) \/ handler' = [handler EXCEPT ![h].pc = StepFor(H.row.method), ![h].row.amount = n]
    BY <1>0, <1>7, <2>1, <2>4 DEF ReadOrder, PayType, RowWith
  <2> QED BY <1>3, <2>3, <2>5
<1>8. CASE ReadWallet(h)
  <2>1. H.pc = "wallet" /\ H \in PayType
    BY <1>8, NowPaying DEF ReadWallet, At, Paying
  <2>2. PICK n : n = wallet[H.row.method] - H.row.amount
    OBVIOUS
  <2>3. CASE handler' = [handler EXCEPT ![h].pc = "debit", ![h].next = n]
    <3>1. handler'[h] = [H EXCEPT !.pc = "debit", !.next = n]
      BY <1>0, <2>3
    <3>2. handler'[h].pc = "debit" /\ handler'[h].key = H.key /\ handler'[h].row = H.row
      BY <2>1, <3>1 DEF PayType
    <3> QED BY <2>1, <3>2 DEF Follows, Paying
  <2> QED BY <1>3, <1>8, <2>2, <2>3 DEF ReadWallet
<1>9. CASE CountPart(h)
  <2>1. H.pc = "count" /\ CountOK(H)
    BY <1>0, <1>9 DEF CountPart, At, StateOK
  <2>2. PICK pc \in Counting : \E count : handler'[h] = [H EXCEPT !.pc = pc, !.count = count]
    BY <1>0, <1>9 DEF CountPart, Counting
  <2>3. handler'[h].pc = pc /\ handler'[h].session = H.session
    BY <2>1, <2>2 DEF CountOK
  <2> QED BY <2>1, <2>2, <2>3 DEF Follows, Counting
<1>10. CASE FindDrawer(h) \/ RefundDrawer(h)
  <2>1. H.pc \in Paying /\ "insert" \in Paying
    BY <1>10 DEF FindDrawer, RefundDrawer, At, Paying
  <2>2. \E n : handler' = [handler EXCEPT ![h].pc = "insert", ![h].row.session = n]
    BY <1>10 DEF FindDrawer, RefundDrawer
  <2> QED BY <1>6, <2>1, <2>2
<1>11. CASE Debit(h) \/ Insert(h) \/ Confirm(h) \/ CapRefund(h)
  <2>1. H.pc \in Paying /\ {"insert", "sum", "commit", "confirmSum", "refundDrawer"} \subseteq Paying
    BY <1>11 DEF Debit, Insert, Confirm, CapRefund, At, Paying
  <2>2. Done(h) \/ \E pc \in {"insert", "sum", "commit", "confirmSum", "refundDrawer"} : Goto(h, pc)
    BY <1>11 DEF Debit, Insert, Inserted, Confirm, CapRefund
  <2> QED BY <1>3, <1>4, <2>1, <2>2
<1>12. CASE Sum(h) \/ ConfirmSum(h)
  <2>1. H.pc \in Paying /\ "commit" \in Paying
    BY <1>12 DEF Sum, ConfirmSum, At, Paying
  <2>2. \E n : handler' = [handler EXCEPT ![h].pc = "commit", ![h].sum = n]
    BY <1>12 DEF Sum, ConfirmSum
  <2> QED BY <1>5, <2>1, <2>2
<1>13. CASE Commit(h) \/ Adjust(h) \/ OpenDrawer(h) \/ MoveCash(h) \/ CloseDrawer(h) \/ Crash(h)
  BY <1>3, <1>13 DEF Commit, Adjust, OpenDrawer, MoveCash, CloseDrawer, Crash
<1> QED BY <1>7, <1>8, <1>9, <1>10, <1>11, <1>12, <1>13 DEF Proceed

(* A request that arrives tells what it puts at risk.                        *)
LEMMA Arrives ==
  ASSUME HandlersOK, NEW h \in Handlers, Call(h)
  PROVE  /\ raced \subseteq raced' /\ \A g \in Handlers \ {h} : handler'[g] = handler[g]
         /\ \A g \in Handlers \ {h} : /\ AtRisk(handler'[h], handler[g]) \subseteq raced'
                                      /\ AtRisk(handler[g], handler'[h]) \subseteq raced'
<1>1. PICK state : Request(h, state)
  BY DEF Call, CallPay, CallConfirm, CallRefund, CallAdjust, CallOpen, CallMove, CallClose
<1>2. handler'[h] = state /\ \A g \in Handlers \ {h} : handler'[g] = handler[g]
  BY <1>1 DEF Request, Become, HandlersOK
<1>3. raced' = raced \cup UNION {AtRisk(state, handler[o]) \cup AtRisk(handler[o], state) :
                                   o \in {o \in Handlers \ {h} : ~At(o, "idle")}}
  BY <1>1 DEF Request
<1>4. ASSUME NEW g \in Handlers \ {h}
      PROVE  AtRisk(state, handler[g]) \subseteq raced' /\ AtRisk(handler[g], state) \subseteq raced'
  <2>1. CASE At(g, "idle")
    <3>1. Follows(handler[g], handler[g]) /\ handler[g].pc = "idle"
      BY <2>1 DEF At, Follows
    <3>2. WalletsOf(handler[g]) = {} /\ handler[g].pc \notin Paying /\ handler[g].pc \notin Counting /\ handler[g].pc # "move"
      BY <3>1 DEF WalletsOf, Paying, Counting
    <3>3. AtRisk(state, handler[g]) = {} /\ AtRisk(handler[g], state) = {}
      BY <3>2 DEF AtRisk
    <3> QED BY <3>3
  <2>2. CASE ~At(g, "idle")
    BY <1>3, <2>2
  <2> QED BY <2>1, <2>2
<1> QED BY <1>2, <1>3, <1>4

LEMMA RacedKept ==
  ASSUME RacedOK, HandlersOK, NEW h \in Handlers, Call(h) \/ Proceed(h) \/ Crash(h)
  PROVE  RacedOK' /\ raced \subseteq raced' /\ \A g \in Handlers \ {h} : handler'[g] = handler[g]
<1>1. raced \subseteq raced' /\ \A g \in Handlers \ {h} : handler'[g] = handler[g]
  BY Arrives, Onward
<1>2. ASSUME NEW g \in Handlers \ {h}
      PROVE  AtRisk(handler'[h], handler[g]) \subseteq raced' /\ AtRisk(handler[g], handler'[h]) \subseteq raced'
  <2>1. CASE Call(h)
    BY <2>1, Arrives
  <2>2. CASE Proceed(h) \/ Crash(h)
    <3>1. PICK s : s = handler'[h]
      OBVIOUS
    <3>2. Follows(s, handler[h]) /\ raced' = raced
      BY <2>2, <3>1, Onward
    <3>3. /\ AtRisk(s, handler[g]) \subseteq AtRisk(handler[h], handler[g])
          /\ AtRisk(handler[g], s) \subseteq AtRisk(handler[g], handler[h])
      BY <3>2, FollowsRisk
    <3>4. AtRisk(handler[h], handler[g]) \subseteq raced /\ AtRisk(handler[g], handler[h]) \subseteq raced
      BY DEF RacedOK
    <3> QED BY <3>1, <3>2, <3>3, <3>4
  <2> QED BY <2>1, <2>2
<1>3. ASSUME NEW g \in Handlers, NEW k \in Handlers, g # k
      PROVE  AtRisk(handler'[g], handler'[k]) \subseteq raced'
  <2>1. CASE g = h \/ k = h
    BY <1>1, <1>2, <1>3, <2>1
  <2>2. CASE g # h /\ k # h
    BY <1>1, <1>3, <2>2 DEF RacedOK
  <2> QED BY <2>1, <2>2
<1>4. RacedOK'
  BY <1>3 DEF RacedOK, AtRisk, WalletsOf
<1> QED BY <1>1, <1>4

-----------------------------------------------------------------------------

(* A step that writes no row leaves what was right as it was. *)
LEMMA SoundStays ==
  ASSUME RInv, UNCHANGED rowVars, raced \subseteq raced'
  PROVE  Sound' /\ CreditAgrees' /\ NoUncountedCash'
<1>0. /\ RowsOK /\ PlainPaid + due <= Total /\ RefundsCapped /\ CreditAgrees /\ NoUncountedCash
      /\ due \in Nat /\ Total \in Nat /\ sessions \in Seq(Drawer)
  BY TendersAssumption DEF RInv, IInv, Sound, RowsOK
<1>1. UNCHANGED <<due, pay, wallet, debits, topups, sessions>>
  BY DEF rowVars
<1>2. /\ PlainPaid \in Int /\ PlainPaid' \in Int /\ PlainPaid' <= PlainPaid
      /\ \A k : /\ AmountOf(PlainRefunds(k)) \in Nat /\ AmountOf(PlainRefunds(k))' \in Nat
                /\ AmountOf(PlainRefunds(k))' <= AmountOf(PlainRefunds(k))
      /\ \A n : PlainCash(n) \in Nat /\ PlainCash(n)' \in Nat /\ PlainCash(n)' <= PlainCash(n)
  BY <1>0, LessPlain
<1>3. (PlainPaid + due <= Total)'
  <2>1. due' = due /\ due \in Int /\ Total \in Int
    BY <1>0, <1>1
  <2>2. PICK m \in Int, n \in Int : m = PlainPaid /\ n = PlainPaid'
    BY <1>2
  <2>3. n <= m /\ m + due <= Total
    BY <1>0, <1>2, <2>2
  <2>4. n + due <= Total
    BY <2>1, <2>3
  <2>5. PlainPaid' + due' <= Total
    BY <2>1, <2>2, <2>4
  <2> QED BY <2>5
<1>4. RefundsCapped'
  <2> SUFFICES ASSUME NEW k \in Rows("sale")' PROVE AmountOf(PlainRefunds(k))' <= pay'[k].amount
    BY DEF RefundsCapped
  <2>1. k \in Rows("sale") /\ k \in Keys /\ pay[k].amount \in Nat
    BY <1>0, <1>1, RowAmounts DEF Rows
  <2>2. AmountOf(PlainRefunds(k)) <= pay[k].amount
    BY <1>0, <2>1 DEF RefundsCapped
  <2> QED BY <1>1, <1>2, <2>1, <2>2
<1>5. CreditAgrees'
  BY <1>0, <1>1 DEF CreditAgrees, Given
<1>6. NoUncountedCash'
  <2> SUFFICES ASSUME NEW s \in DOMAIN sessions, ~sessions[s].open, <<"drawer", s>> \notin raced
               PROVE  InDrawer(s)' <= sessions[s].expected
    BY <1>1 DEF NoUncountedCash
  <2>1. InDrawer(s) <= sessions[s].expected
    BY <1>0 DEF NoUncountedCash
  <2>2. sessions[s].float \in Int /\ sessions[s].moved \in Int /\ sessions[s].expected \in Int
    <3>1. sessions[s] \in Drawer
      BY <1>0
    <3> QED BY <3>1 DEF Drawer
  <2>3. CashOf("refund", s)' = CashOf("refund", s) /\ CashOf("refund", s) \in Nat
    <3>1. CashOf("refund", s)' = CashOf("refund", s)
      BY <1>1 DEF CashOf, AmountOf, Rows
    <3> QED BY <1>0, <3>1, CashNat
  <2>4. /\ InDrawer(s) = sessions[s].float + sessions[s].moved + PlainCash(s) - CashOf("refund", s)
        /\ InDrawer(s)' = sessions[s].float + sessions[s].moved + PlainCash(s)' - CashOf("refund", s)'
    BY <1>1 DEF InDrawer
  <2> QED BY <1>2, <2>1, <2>2, <2>3, <2>4
<1> QED BY <1>3, <1>4, <1>5, <1>6 DEF Sound

LEMMA RKept == RInv /\ [Next]_vars => RInv'
<1> SUFFICES ASSUME RInv, [Next]_vars PROVE RInv'
  OBVIOUS
<1>0. IInv /\ IInv' /\ RowsOK /\ HandlersOK /\ RacedOK
  BY StepKept DEF RInv, IInv
<1>1. \A h \in Handlers : StateOK(handler[h]) /\ Current(handler[h])
  BY <1>0 DEF RInv, HandlersOK
<1>2. CASE UNCHANGED vars
  <2>1. UNCHANGED rowVars /\ raced' = raced /\ handler' = handler
    BY <1>2 DEF vars, callVars
  <2>2. Sound' /\ CreditAgrees' /\ NoUncountedCash'
    BY <2>1, SoundStays
  <2>3. RacedOK'
    BY <1>0, <2>1 DEF RacedOK, AtRisk, WalletsOf
  <2>4. ASSUME NEW h \in Handlers, NEW s, s = handler[h] PROVE Current(s)'
    BY <1>0, <1>1, <2>1, <2>4, CurrentStays
  <2>5. (\A h \in Handlers : Current(handler[h]))'
    BY <2>1, <2>4 DEF Current, CurrentPay, CurrentCount, IsPlain, Lifts
  <2> QED BY <1>0, <2>2, <2>3, <2>5 DEF RInv
<1>3. ASSUME NEW h \in Handlers, Call(h) \/ Proceed(h) \/ Crash(h) PROVE RInv'
  <2>1. RacedOK' /\ raced \subseteq raced' /\ \A g \in Handlers \ {h} : handler'[g] = handler[g]
    BY <1>0, <1>3, RacedKept
  <2>2. ASSUME \A s : s = handler'[h] => Current(s)',
               \A g \in Handlers \ {h} : \A s : s = handler[g] => Current(s)'
        PROVE  (\A g \in Handlers : Current(handler[g]))'
    <3>1. ASSUME NEW g \in Handlers, NEW s, s = handler'[g] PROVE Current(s)'
      BY <2>1, <2>2, <3>1
    <3> QED BY <3>1 DEF Current, CurrentPay, CurrentCount, IsPlain, Lifts
  <2>3. ASSUME Done(h) PROVE \A s : s = handler'[h] => Current(s)'
    <3>1. handler'[h] = Idle
      BY <1>0, <2>3 DEF Done, Become, HandlersOK
    <3>2. Current(Idle)'
      BY DEF Current, Idle, Paying, Counting
    <3> QED BY <3>1, <3>2 DEF Current, CurrentPay, CurrentCount, IsPlain, Lifts
  <2>4. CASE Quiet(h)
    <3>1. UNCHANGED rowVars
      BY <2>4 DEF Quiet
    <3>2. PICK s : Become(h, s) /\ StateOK(s) /\ (Sound /\ Current(handler[h]) => Current(s))
      BY <2>4 DEF Quiet
    <3>3. Current(s)'
      BY <1>0, <1>1, <2>1, <3>1, <3>2, CurrentStays DEF RInv
    <3>4. handler'[h] = s
      BY <1>0, <3>2 DEF Become, HandlersOK
    <3>5. \A t : t = handler'[h] => Current(t)'
      BY <3>3, <3>4 DEF Current, CurrentPay, CurrentCount, IsPlain, Lifts
    <3>6. \A g \in Handlers \ {h} : \A t : t = handler[g] => Current(t)'
      <4> SUFFICES ASSUME NEW g \in Handlers \ {h}, NEW t, t = handler[g] PROVE Current(t)'
        OBVIOUS
      <4> QED BY <1>0, <1>1, <2>1, <3>1, CurrentStays
    <3>7. Sound' /\ CreditAgrees' /\ NoUncountedCash'
      BY <2>1, <3>1, SoundStays
    <3> QED BY <1>0, <2>1, <2>2, <3>5, <3>6, <3>7 DEF RInv
  <2>5. ASSUME Commit(h) \/ Adjust(h) \/ OpenDrawer(h) \/ MoveCash(h) \/ CloseDrawer(h)
        PROVE  (\A g \in Handlers : Current(handler[g]))'
    <3>1. Done(h)
      BY <2>5 DEF Commit, Adjust, OpenDrawer, MoveCash, CloseDrawer
    <3>2. ASSUME NEW g \in Handlers \ {h}, NEW s, s = handler[g] PROVE Current(s)'
      BY <2>5, <3>2, CommitLeaves, AdjustLeaves, DrawerLeaves
    <3> QED BY <2>2, <2>3, <3>1, <3>2
  <2>6. CASE Commit(h)
    BY <1>0, <2>1, <2>5, <2>6, CommitPays, CommitCounts, CommitCredits DEF RInv
  <2>7. CASE Adjust(h)
    <3>1. UNCHANGED <<due, pay, sessions, raced>>
      BY <2>7 DEF Adjust, callVars
    <3>2. Sound' /\ NoUncountedCash'
      BY <3>1 DEF RInv, Sound, PlainPaid, Plain, RefundsCapped, PlainRefunds, RefundsOf,
                  NoUncountedCash, InDrawer, PlainCash, CashOf, Rows, AmountOf
    <3> QED BY <1>0, <2>1, <2>5, <2>7, <3>2, AdjustCredits DEF RInv
  <2>8. CASE OpenDrawer(h) \/ MoveCash(h) \/ CloseDrawer(h)
    <3>1. UNCHANGED <<due, pay, wallet, topups, debits, raced>>
      BY <2>8 DEF OpenDrawer, MoveCash, CloseDrawer, callVars
    <3>2. Sound' /\ CreditAgrees'
      BY <3>1 DEF RInv, Sound, PlainPaid, Plain, RefundsCapped, PlainRefunds, RefundsOf, Rows, AmountOf,
                  CreditAgrees, Given
    <3> QED BY <1>0, <2>1, <2>5, <2>8, <3>2, DrawerCounts DEF RInv
  <2> QED BY <1>0, <1>3, <2>4, <2>6, <2>7, <2>8, Kinds
<1> QED BY <1>2, <1>3 DEF Next

LEMMA Right == Spec => []RInv
<1>1. RInv /\ [Next]_vars => RInv'
  BY RKept
<1> QED BY <1>1, RInitOK, PTL DEF Spec

(* debitStoreCredit, redeemGiftCardInTx, adjustStoreCredit: however often a  *)
(* request is lost or repeated, and whatever else runs, no wallet is         *)
(* overdrawn and its balance is the sum of its ledger, unless two requests   *)
(* on this wallet overlapped.                                                *)
THEOREM WalletsReconciled == Spec => []CreditAgrees
<1>1. RInv => CreditAgrees
  BY DEF RInv
<1> QED BY <1>1, Right, PTL

(* create: payments that succeed at once, less what was refunded, fit the    *)
(* order.  Only a payment that ran beside another request on the payments of *)
(* the order is left out of the sum: neither its stale look at the balance,  *)
(* nor the balance it writes, nor a bank transfer lets another exceed it.    *)
THEOREM PaymentsFit == Spec => []NoOverpayment
<1>1. RInv => NoOverpayment
  <2>1. IInv => PlainPaid \in Int /\ due \in Nat
    BY PlainPaidInt DEF IInv, RowsOK
  <2> QED BY <2>1, TendersAssumption DEF RInv, Sound, NoOverpayment
<1> QED BY <1>1, Right, PTL

(* refund: the refunds of a payment fit it, but for those that ran beside    *)
(* another refund of the same payment, whatever else overlaps.               *)
THEOREM RefundsFit == Spec => []RefundsCapped
<1>1. RInv => RefundsCapped
  BY DEF RInv, Sound
<1> QED BY <1>1, Right, PTL

(* closeRegister: the count of a drawer has all the cash that was put into   *)
(* it, though payments, refunds and other counts run at once; only a payment *)
(* that ran beside a count, and a drawer into which cash was moved during    *)
(* its count, are excused.                                                   *)
THEOREM CashCounted == Spec => []NoUncountedCash
<1>1. RInv => NoUncountedCash
  BY DEF RInv
<1> QED BY <1>1, Right, PTL
=============================================================================
