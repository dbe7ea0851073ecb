------------------------- MODULE StripeSale_proofs -------------------------
(* Proofs about StripeSale, for any payments, lines and requests.            *)
EXTENDS StripeSale, SumTheorems, TLAPS

(* A payment row. *)
PayOK ==
  /\ DOMAIN pay = Payments
  /\ \A p \in Payments : pay[p] = [status |-> pay[p].status, amount |-> pay[p].amount]

EventsOK == \A e \in events : e[1] \in Cards

CardSteps == {"intent", "intent row", "webhook", "apply", "write", "sum", "commit", "applied"}
CashSteps == {"cash", "insert cash", "sum cash", "commit cash"}
CancelSteps == {"keep paid", "cancel order", "cancel payments"}

(* What a handler remembers fits the place where it is. *)
StateOK(s) ==
  /\ "pc" \in DOMAIN s
  /\ s.pc \in CardSteps => "card" \in DOMAIN s /\ s.card \in Cards
  /\ s.pc \in CardSteps \ {"intent", "intent row"} => "want" \in DOMAIN s
  /\ s.pc \in CashSteps => "card" \in DOMAIN s /\ s.card \in Cash
  /\ s.pc \in CancelSteps => "open" \in DOMAIN s

HandlersOK == DOMAIN handler = Handlers /\ \A h \in Handlers : StateOK(handler[h])

(* The inductive invariant for any number of handlers. *)
IInv == PayOK /\ EventsOK /\ HandlersOK /\ SucceededIsBooked

-----------------------------------------------------------------------------
(* Handlers.                                                                 *)

LEMMA Went ==
  ASSUME HandlersOK, NEW h \in Handlers, NEW pc, Goto(h, pc)
  PROVE  /\ DOMAIN handler' = Handlers
         /\ handler'[h].pc = pc /\ DOMAIN handler'[h] = DOMAIN handler[h]
         /\ \A f \in DOMAIN handler[h] : f # "pc" => handler'[h][f] = handler[h][f]
         /\ \A g \in Handlers \ {h} : handler'[g] = handler[g]
  BY DEF HandlersOK, StateOK, Goto

LEMMA Became ==
  ASSUME HandlersOK, NEW h \in Handlers, NEW s, Become(h, s)
  PROVE  /\ DOMAIN handler' = Handlers /\ handler'[h] = s
         /\ \A g \in Handlers \ {h} : handler'[g] = handler[g]
  BY DEF HandlersOK, Become

(* A handler that goes on or becomes something else stays well formed.      *)
LEMMA WentOK ==
  ASSUME HandlersOK, NEW h \in Handlers, NEW pc, Goto(h, pc),
         pc \in CardSteps => handler[h].pc \in CardSteps,
         pc \in CardSteps \ {"intent", "intent row"} =>
           handler[h].pc \in CardSteps \ {"intent", "intent row"},
         pc \in CashSteps => handler[h].pc \in CashSteps,
         pc \in CancelSteps => handler[h].pc \in CancelSteps
  PROVE  HandlersOK'
<1>1. /\ DOMAIN handler' = Handlers
      /\ handler'[h].pc = pc /\ DOMAIN handler'[h] = DOMAIN handler[h]
      /\ \A f \in DOMAIN handler[h] : f # "pc" => handler'[h][f] = handler[h][f]
      /\ \A g \in Handlers \ {h} : handler'[g] = handler[g]
  BY Went
<1>2. StateOK(handler[h])
  BY DEF HandlersOK
<1>3. StateOK(handler'[h])
  BY <1>1, <1>2 DEF StateOK
<1> QED
  BY <1>1, <1>3 DEF HandlersOK

LEMMA BecameOK ==
  ASSUME HandlersOK, NEW h \in Handlers, NEW s, Become(h, s), StateOK(s)
  PROVE  HandlersOK'
  BY Became DEF HandlersOK

LEMMA DoneOK ==
  ASSUME HandlersOK, NEW h \in Handlers, Done(h)
  PROVE  HandlersOK'
<1>1. StateOK(Idle)
  BY DEF StateOK, Idle, CardSteps, CashSteps, CancelSteps
<1> QED
  BY <1>1, BecameOK DEF Done

LEMMA HandlersKept ==
  ASSUME IInv, [Next]_vars
  PROVE  HandlersOK'
<1> USE DEF At
<1>0. HandlersOK /\ EventsOK
  BY DEF IInv
<1>1. ASSUME NEW h \in Handlers, Call(h) PROVE HandlersOK'
  <2>1. \A c \in Cards : StateOK([pc |-> "intent", card |-> c])
    BY DEF StateOK, CardSteps, CashSteps, CancelSteps
  <2>2. \A c \in Cards : StateOK([pc |-> "apply", card |-> c, want |-> intent[c], job |-> "verify",
                                  event |-> NoEvent])
    BY DEF StateOK, CardSteps, CashSteps, CancelSteps
  <2>3. /\ StateOK([pc |-> "finalize", job |-> "finalize", event |-> NoEvent])
        /\ StateOK([pc |-> "cancel"])
        /\ \A k \in Cash : StateOK([pc |-> "cash", card |-> k])
    BY DEF StateOK, CardSteps, CashSteps, CancelSteps
  <2>4. \E s : StateOK(s) /\ Become(h, s)
    BY <1>1, <2>1, <2>2, <2>3
       DEF Call, CallIntent, CallVerify, CallFinalize, CallCancel, CallCash, Request
  <2> QED
    BY <1>0, <2>4, BecameOK
<1>2. ASSUME NEW h \in Handlers, NEW e \in events, Deliver(h, e) PROVE HandlersOK'
  <2>1. StateOK([pc |-> "webhook", card |-> e[1], want |-> e[2], job |-> "webhook", event |-> e])
    BY <1>0 DEF StateOK, CardSteps, CashSteps, CancelSteps, EventsOK
  <2> QED
    BY <1>0, <1>2, <2>1, BecameOK DEF Deliver
<1>3. ASSUME NEW h \in Handlers, Proceed(h) PROVE HandlersOK'
  <2> USE DEF CardSteps, CashSteps, CancelSteps
  <2>0. StateOK(handler[h])
    BY <1>0 DEF HandlersOK
  <2>1. ASSUME \/ CreateIntent(h) \/ RecordIntent(h) \/ ReadPayment(h) \/ WritePayment(h)
               \/ CommitPayment(h) \/ FindEvent(h) \/ AfterApply(h) \/ RecordEvent(h)
               \/ ReadAwaiting(h) \/ LookAtFirst(h) \/ TakeStock(h) \/ CloseSale(h)
               \/ KeepPaidPart(h) \/ CancelOrder(h) \/ InsertCash(h) \/ CommitCash(h)
        PROVE  HandlersOK'
    <3>1. \/ Done(h)
          \/ handler[h].pc = "intent" /\ Goto(h, "intent row")
          \/ handler[h].pc = "apply" /\ (Goto(h, "applied") \/ Goto(h, "write"))
          \/ handler[h].pc = "write" /\ Goto(h, "sum")
          \/ handler[h].pc = "commit" /\ Goto(h, "applied")
          \/ handler[h].pc = "webhook" /\ Goto(h, "apply")
          \/ handler[h].pc = "cancel order" /\ Goto(h, "cancel payments")
          \/ handler[h].pc = "insert cash" /\ Goto(h, "sum cash")
          \/ \E pc \in {"finalize", "record", "look", "stock", "final sum"} : Goto(h, pc)
      BY <2>1 DEF CreateIntent, RecordIntent, ReadPayment, WritePayment, CommitPayment, FindEvent,
                  AfterApply, RecordEvent, ReadAwaiting, LookAtFirst, TakeStock, CloseSale,
                  AfterFinalize, KeepPaidPart, CancelOrder, InsertCash, CommitCash
    <3> QED
      BY <1>0, <3>1, DoneOK, WentOK
  <2>2. ASSUME SumPayments(h) \/ FinalSum(h) \/ ReadForCancel(h) \/ ReadForCash(h) \/ SumCash(h)
        PROVE  HandlersOK'
    <3>1. Done(h) \/ \E s : StateOK(s) /\ Become(h, s)
      BY <2>0, <2>2 DEF SumPayments, FinalSum, ReadForCancel, ReadForCash, SumCash, Become, StateOK
    <3> QED
      BY <1>0, <3>1, DoneOK, BecameOK
  <2>3. ASSUME CancelPayment(h) PROVE HandlersOK'
    <3>1. CASE Done(h)
      BY <1>0, <3>1, DoneOK
    <3>2. CASE \E p : handler' = [handler EXCEPT ![h].open = @ \ {p}]
      <4>1. PICK p : handler' = [handler EXCEPT ![h].open = @ \ {p}]
        BY <3>2
      <4>2. Become(h, [handler[h] EXCEPT !.open = @ \ {p}])
        BY <4>1 DEF Become
      <4>3. StateOK([handler[h] EXCEPT !.open = @ \ {p}])
        BY <2>0 DEF StateOK
      <4> QED
        BY <1>0, <4>2, <4>3, BecameOK
    <3> QED
      BY <2>3, <3>1, <3>2 DEF CancelPayment
  <2> QED
    BY <1>3, <2>1, <2>2, <2>3 DEF Proceed
<1>4. ASSUME NEW h \in Handlers, Crash(h) PROVE HandlersOK'
  BY <1>0, <1>4, DoneOK DEF Crash
<1>5. ASSUME NEW c \in Cards, CustomerPays(c) \/ IntentExpires(c) PROVE HandlersOK'
  BY <1>0, <1>5 DEF CustomerPays, IntentExpires, StripeMoves, HandlersOK
<1>6. CASE UNCHANGED vars
  BY <1>0, <1>6 DEF vars, HandlersOK
<1> QED
  BY <1>1, <1>2, <1>3, <1>4, <1>5, <1>6 DEF Next

-----------------------------------------------------------------------------
(* Payments and books.                                                       *)

(* A step that makes no payment succeed leaves the books alone ...           *)
NothingPaid ==
  /\ UNCHANGED <<saleBooked, receipts, completed>>
  /\ \A p \in Payments : pay'[p].status = "succeeded" => pay[p] = pay'[p]

(* ... and one that does books that payment.                                 *)
Paid(h, p) ==
  /\ \/ At(h, "commit") /\ handler[h].want = "succeeded"
     \/ At(h, "commit cash")
  /\ p = handler[h].card /\ p \in Payments
  /\ pay'[p].status = "succeeded" /\ \A q \in Payments \ {p} : pay'[q] = pay[q]
  /\ Book(p)

LEMMA StatusSet ==
  ASSUME PayOK, NEW c \in Payments, NEW st, pay' = [pay EXCEPT ![c].status = st]
  PROVE  /\ PayOK' /\ pay'[c].status = st /\ pay'[c].amount = pay[c].amount
         /\ \A p \in Payments \ {c} : pay'[p] = pay[p]
  BY DEF PayOK

LEMMA CancelledSet ==
  ASSUME PayOK, NEW S, pay' = Cancelled(S)
  PROVE  /\ PayOK'
         /\ \A p \in Payments : IF p \in S THEN pay'[p].status = "cancelled" ELSE pay'[p] = pay[p]
         /\ \A p \in Payments : pay'[p].amount = pay[p].amount
  BY DEF PayOK, Cancelled

LEMMA Effects ==
  ASSUME IInv, [Next]_vars
  PROVE  /\ PayOK'
         /\ \/ NothingPaid
            \/ \E h \in Handlers, p \in Payments : Paid(h, p) /\ (CommitPayment(h) \/ CommitCash(h))
<1>0. PayOK /\ HandlersOK
  BY DEF IInv
<1>1. ASSUME UNCHANGED <<pay, saleBooked, receipts, completed>> PROVE PayOK' /\ NothingPaid
  BY <1>0, <1>1 DEF PayOK, NothingPaid
<1>2. ASSUME NEW h \in Handlers, RecordIntent(h) \/ ReadPayment(h) PROVE PayOK' /\ NothingPaid
  <2>1. handler[h].card \in Payments
    BY <1>0, <1>2 DEF RecordIntent, ReadPayment, At, HandlersOK, StateOK, CardSteps, Payments
  <2>2. UNCHANGED <<saleBooked, receipts, completed>>
    BY <1>2 DEF RecordIntent, ReadPayment
  <2>3. \/ pay' = pay
        \/ \E st : st # "succeeded" /\ pay' = [pay EXCEPT ![handler[h].card].status = st]
    BY <1>2 DEF RecordIntent, ReadPayment
  <2>4. ASSUME NEW st, st # "succeeded", pay' = [pay EXCEPT ![handler[h].card].status = st]
        PROVE  PayOK' /\ NothingPaid
    <3>1. /\ PayOK' /\ pay'[handler[h].card].status = st
          /\ \A p \in Payments \ {handler[h].card} : pay'[p] = pay[p]
      BY <1>0, <2>1, <2>4, StatusSet
    <3> QED
      BY <2>2, <2>4, <3>1 DEF NothingPaid
  <2> QED
    BY <1>1, <2>2, <2>3, <2>4
<1>3. ASSUME NEW h \in Handlers, CommitPayment(h)
      PROVE  PayOK' /\ (NothingPaid \/ Paid(h, handler[h].card))
  <2>1. At(h, "commit") /\ handler[h].card \in Payments
    BY <1>0, <1>3 DEF CommitPayment, At, HandlersOK, StateOK, CardSteps, Payments
  <2>2. /\ PayOK' /\ pay'[handler[h].card].status = handler[h].want
        /\ \A q \in Payments \ {handler[h].card} : pay'[q] = pay[q]
    BY <1>0, <1>3, <2>1, StatusSet DEF CommitPayment
  <2> QED
    BY <1>3, <2>1, <2>2 DEF CommitPayment, NothingPaid, Paid
<1>4. ASSUME NEW h \in Handlers, KeepPaidPart(h) \/ CancelPayment(h) PROVE PayOK' /\ NothingPaid
  <2>1. pay' = pay \/ \E S : pay' = Cancelled(S)
    BY <1>4 DEF KeepPaidPart, CancelPayment
  <2>2. UNCHANGED <<saleBooked, receipts, completed>>
    BY <1>4 DEF KeepPaidPart, CancelPayment
  <2> QED
    BY <1>0, <1>1, <2>1, <2>2, CancelledSet DEF NothingPaid
<1>5. ASSUME NEW h \in Handlers, CommitCash(h) PROVE PayOK' /\ Paid(h, handler[h].card)
  <2>1. At(h, "commit cash") /\ handler[h].card \in Payments
    BY <1>0, <1>5 DEF CommitCash, At, HandlersOK, StateOK, CashSteps, Payments
  <2>2. pay' = [pay EXCEPT ![handler[h].card] =
                  [status |-> "succeeded", amount |-> handler[h].amount]]
    BY <1>5 DEF CommitCash
  <2>3. PayOK'
    BY <1>0, <2>1, <2>2 DEF PayOK
  <2>4. /\ pay'[handler[h].card].status = "succeeded"
        /\ \A q \in Payments \ {handler[h].card} : pay'[q] = pay[q]
    BY <1>0, <2>1, <2>2 DEF PayOK
  <2>5. Book(handler[h].card)
    BY <1>5 DEF CommitCash
  <2> QED
    BY <2>1, <2>3, <2>4, <2>5 DEF Paid
<1>6. ASSUME NEW h \in Handlers,
             \/ Call(h) \/ Crash(h) \/ CreateIntent(h) \/ WritePayment(h) \/ SumPayments(h)
             \/ FindEvent(h) \/ AfterApply(h) \/ RecordEvent(h) \/ ReadAwaiting(h) \/ LookAtFirst(h)
             \/ TakeStock(h) \/ FinalSum(h) \/ CloseSale(h) \/ ReadForCancel(h) \/ CancelOrder(h)
             \/ ReadForCash(h) \/ InsertCash(h) \/ SumCash(h) \/ \E e \in events : Deliver(h, e)
      PROVE  UNCHANGED <<pay, saleBooked, receipts, completed>>
  BY <1>6 DEF Call, CallIntent, CallVerify, CallFinalize, CallCancel, CallCash, Request, Crash,
              CreateIntent, WritePayment, SumPayments, FindEvent, AfterApply, RecordEvent,
              ReadAwaiting, LookAtFirst, TakeStock, FinalSum, CloseSale, ReadForCancel, CancelOrder,
              ReadForCash, InsertCash, SumCash, Deliver, Local, rowVars
<1>7. ASSUME \/ UNCHANGED vars
             \/ \E c \in Cards : CustomerPays(c) \/ IntentExpires(c)
      PROVE  UNCHANGED <<pay, saleBooked, receipts, completed>>
  BY <1>7 DEF vars, rowVars, CustomerPays, IntentExpires, StripeMoves
<1> QED
  <2>1. ASSUME NEW h \in Handlers, Proceed(h)
        PROVE  /\ PayOK'
               /\ \/ NothingPaid
                  \/ \E p \in Payments : Paid(h, p) /\ (CommitPayment(h) \/ CommitCash(h))
    BY <1>1, <1>2, <1>3, <1>4, <1>5, <1>6, <2>1 DEF Proceed, Paid
  <2> QED
    BY <1>1, <1>6, <1>7, <2>1 DEF Next

LEMMA EventsKept == IInv /\ [Next]_vars => EventsOK'
<1> SUFFICES ASSUME IInv, [Next]_vars PROVE EventsOK'
  OBVIOUS
<1>0. EventsOK /\ HandlersOK
  BY DEF IInv
<1>1. events' = events \/ \E c \in Cards : \E st : events' = events \cup {<<c, st>>}
  <2>1. ASSUME NEW h \in Handlers, CreateIntent(h)
        PROVE  events' = events \/ \E c \in Cards : \E st : events' = events \cup {<<c, st>>}
    BY <1>0, <2>1 DEF CreateIntent, stripeVars, At, HandlersOK, StateOK, CardSteps
  <2>2. ASSUME NEW h \in Handlers, Proceed(h), ~CreateIntent(h) PROVE events' = events
    BY <2>2 DEF Proceed, RecordIntent, ReadPayment, WritePayment, SumPayments, CommitPayment,
                FindEvent, AfterApply, RecordEvent, ReadAwaiting, LookAtFirst, TakeStock, FinalSum,
                CloseSale, ReadForCancel, KeepPaidPart, CancelOrder, CancelPayment, ReadForCash,
                InsertCash, SumCash, CommitCash, Local, stripeVars
  <2>3. ASSUME NEW h \in Handlers, Call(h) \/ Crash(h) \/ \E e \in events : Deliver(h, e)
        PROVE  events' = events
    BY <2>3 DEF Call, CallIntent, CallVerify, CallFinalize, CallCancel, CallCash, Request, Crash,
                Deliver, Local, stripeVars
  <2>4. ASSUME NEW c \in Cards, CustomerPays(c) \/ IntentExpires(c)
        PROVE  \E st : events' = events \cup {<<c, st>>}
    BY <2>4 DEF CustomerPays, IntentExpires, StripeMoves
  <2> QED
    BY <2>1, <2>2, <2>3, <2>4 DEF Next, vars, stripeVars
<1> QED
  BY <1>0, <1>1 DEF EventsOK

LEMMA StepKept == IInv /\ [Next]_vars => IInv'
<1> SUFFICES ASSUME IInv, [Next]_vars PROVE IInv'
  OBVIOUS
<1>1. SucceededIsBooked'
  BY Effects DEF IInv, NothingPaid, Paid, Book, SucceededIsBooked, Succeeded
<1> QED
  BY <1>1, Effects, EventsKept, HandlersKept DEF IInv

LEMMA InitOK == Init => IInv
<1> SUFFICES ASSUME Init PROVE IInv
  OBVIOUS
<1>1. PayOK /\ SucceededIsBooked
  BY DEF Init, PayOK, SucceededIsBooked, Succeeded
<1>2. EventsOK
  BY DEF Init, EventsOK
<1>3. StateOK(Idle)
  BY DEF StateOK, Idle, CardSteps, CashSteps, CancelSteps
<1>4. HandlersOK
  BY <1>3 DEF Init, HandlersOK
<1> QED
  BY <1>1, <1>2, <1>4 DEF IInv

(* afterSucceededPayment: with any number of requests at once, and whatever  *)
(* is cut off by a crash, every payment that was collected is in the books.  *)
THEOREM PaidIsBooked == Spec => []SucceededIsBooked
<1>1. IInv => SucceededIsBooked
  BY DEF IInv
<1> QED
  BY <1>1, InitOK, StepKept, PTL DEF Spec

-----------------------------------------------------------------------------
(* One request at a time.                                                    *)

OneHandler == \E h : Handlers = {h}

WriteSteps == {"write", "sum", "commit", "sum cash", "commit cash"}
AwaitingSteps == {"look", "stock", "final sum", "close", "keep paid", "cancel order"}

(* What a handler has read is still so.                                      *)
FreshOK(s) ==
  /\ s.pc \in WriteSteps => pay[s.card].status # "succeeded"
  /\ s.pc \in CancelSteps => \A p \in s.open \cap Payments : pay[p].status # "succeeded"
  /\ s.pc \in AwaitingSteps => order.awaiting

OrderOK ==
  /\ DOMAIN order = {"status", "awaiting", "due"} /\ order.awaiting \in BOOLEAN
  /\ order.awaiting \/ order.status = "cancelled" => \A i \in DOMAIN taken : taken[i] = 0

BooksOK ==
  /\ saleBooked \cup receipts \subseteq Succeeded
  /\ saleBooked \cap receipts = {}
  /\ saleBooked = {} => receipts = {}
  /\ DOMAIN completed = Payments
  /\ \A p \in Payments : completed[p] = IF p \in Succeeded THEN 1 ELSE 0

(* The inductive invariant for a single handler. *)
SoloInv == IInv /\ OrderOK /\ BooksOK /\ \A h \in Handlers : FreshOK(handler[h])

(* The handler that takes a step is the only one. *)
LEMMA OnlyOne ==
  ASSUME OneHandler, NEW h \in Handlers, FreshOK(handler[h])'
  PROVE  (\A g \in Handlers : FreshOK(handler[g]))'
  BY DEF OneHandler, FreshOK

LEMMA FreshIdle ==
  ASSUME HandlersOK, NEW h \in Handlers, Done(h)
  PROVE  FreshOK(handler[h])'
<1>1. handler'[h] = Idle
  BY Became DEF Done
<1> QED
  BY <1>1 DEF FreshOK, Idle, WriteSteps, CancelSteps, AwaitingSteps

LEMMA FreshBecame ==
  ASSUME HandlersOK, NEW h \in Handlers, NEW s, Become(h, s),
         s.pc \notin WriteSteps \cup CancelSteps \cup AwaitingSteps
  PROVE  FreshOK(handler[h])'
<1>1. handler'[h] = s
  BY Became
<1> QED
  BY <1>1 DEF FreshOK

(* A handler goes on where what it has read is still so. *)
LEMMA FreshWent ==
  ASSUME HandlersOK, NEW h \in Handlers, NEW pc, Goto(h, pc),
         pc \in WriteSteps => /\ handler[h].pc \in CardSteps \cup CashSteps
                              /\ pay'[handler[h].card].status # "succeeded",
         pc \in CancelSteps =>
           /\ handler[h].pc \in CancelSteps
           /\ \A p \in handler[h].open \cap Payments : pay'[p].status # "succeeded",
         pc \in AwaitingSteps => order'.awaiting
  PROVE  FreshOK(handler[h])'
<1>1. StateOK(handler[h])
  BY DEF HandlersOK
<1>2. /\ handler'[h].pc = pc
      /\ \A f \in DOMAIN handler[h] : f # "pc" => handler'[h][f] = handler[h][f]
  BY Went
<1>3. pc \in WriteSteps => handler'[h].card = handler[h].card
  BY <1>1, <1>2 DEF StateOK
<1>4. pc \in CancelSteps => handler'[h].open = handler[h].open
  BY <1>1, <1>2 DEF StateOK
<1> QED
  BY <1>2, <1>3, <1>4 DEF FreshOK

(* A handler that takes a step knows what it decides on afterwards. *)
LEMMA FreshAfter ==
  ASSUME SoloInv, NEW h \in Handlers, Proceed(h)
  PROVE  FreshOK(handler[h])'
<1> USE DEF At, CardSteps, CashSteps, CancelSteps, WriteSteps, AwaitingSteps
<1>1. HandlersOK /\ StateOK(handler[h]) /\ FreshOK(handler[h])
  BY DEF SoloInv, IInv, HandlersOK
<1>2. ASSUME Done(h) PROVE FreshOK(handler[h])'
  BY <1>1, <1>2, FreshIdle
<1>3. ASSUME NEW pc, Goto(h, pc), pc \notin WriteSteps \cup CancelSteps \cup AwaitingSteps
      PROVE  FreshOK(handler[h])'
  BY <1>1, <1>3, FreshWent
<1>4. ASSUME NEW pc, Goto(h, pc), UNCHANGED order, order.awaiting,
             pc \in {"look", "stock", "final sum"}
      PROVE  FreshOK(handler[h])'
  BY <1>1, <1>4, FreshWent
<1>5. ASSUME NEW pc, Goto(h, pc), UNCHANGED pay, pc \in WriteSteps,
             handler[h].pc \in CardSteps \cup CashSteps, pay[handler[h].card].status # "succeeded"
      PROVE  FreshOK(handler[h])'
  BY <1>1, <1>5, FreshWent
<1>6. CASE CreateIntent(h) \/ RecordIntent(h) \/ CommitPayment(h) \/ FindEvent(h) \/ RecordEvent(h)
           \/ CloseSale(h) \/ KeepPaidPart(h) \/ CommitCash(h)
  <2>1. Done(h) \/ \E pc \in {"intent row", "applied", "apply", "record"} : Goto(h, pc)
    BY <1>6 DEF CreateIntent, RecordIntent, CommitPayment, FindEvent, RecordEvent, CloseSale,
                AfterFinalize, KeepPaidPart, CommitCash
  <2> QED
    BY <1>2, <1>3, <2>1
<1>7. CASE ReadPayment(h)
  <2>1. \/ Goto(h, "applied")
        \/ Goto(h, "write") /\ UNCHANGED pay /\ pay[handler[h].card].status # "succeeded"
    BY <1>7 DEF ReadPayment
  <2> QED
    BY <1>3, <1>5, <1>7, <2>1 DEF ReadPayment
<1>8. CASE WritePayment(h)
  <2>1. Goto(h, "sum") /\ UNCHANGED pay /\ pay[handler[h].card].status # "succeeded"
    BY <1>1, <1>8 DEF WritePayment, rowVars, FreshOK
  <2> QED
    BY <1>5, <1>8, <2>1 DEF WritePayment
<1>9. CASE AfterApply(h)
  <2>1. Done(h) \/ \E pc \in {"finalize", "record"} : Goto(h, pc)
    BY <1>9 DEF AfterApply
  <2> QED
    BY <1>2, <1>3, <2>1
<1>10. CASE ReadAwaiting(h) \/ LookAtFirst(h) \/ TakeStock(h)
  <2>1. \/ Done(h)
        \/ Goto(h, "record")
        \/ order.awaiting /\ \E pc \in {"look", "stock", "final sum"} : Goto(h, pc)
    <3>1. handler[h].pc \in {"look", "stock"} => order.awaiting
      BY <1>1 DEF FreshOK
    <3> QED
      BY <1>10, <3>1 DEF ReadAwaiting, AfterFinalize, LookAtFirst, TakeStock
  <2>2. UNCHANGED order
    BY <1>10 DEF ReadAwaiting, LookAtFirst, TakeStock, Local, rowVars
  <2> QED
    BY <1>2, <1>3, <1>4, <2>1, <2>2
<1>11. CASE InsertCash(h)
  <2>1. \/ Done(h)
        \/ Goto(h, "sum cash") /\ pay[handler[h].card].status # "succeeded"
    BY <1>11 DEF InsertCash
  <2>2. UNCHANGED pay /\ handler[h].pc = "insert cash"
    BY <1>11 DEF InsertCash, rowVars
  <2> QED
    BY <1>2, <1>5, <2>1, <2>2
<1>12. CASE CancelOrder(h)
  <2>1. Goto(h, "cancel payments") /\ UNCHANGED pay /\ handler[h].pc = "cancel order"
    BY <1>12 DEF CancelOrder
  <2>2. \A p \in handler[h].open \cap Payments : pay'[p].status # "succeeded"
    BY <1>1, <2>1 DEF FreshOK
  <2> QED
    BY <1>1, <2>1, <2>2, FreshWent
<1>13. CASE CancelPayment(h)
  <2>1. \A p \in handler[h].open \cap Payments : pay[p].status # "succeeded"
    BY <1>1, <1>13 DEF FreshOK, CancelPayment
  <2>2. ASSUME NEW p \in handler[h].open, pay' = Cancelled({p}),
               handler' = [handler EXCEPT ![h].open = @ \ {p}]
        PROVE  FreshOK(handler[h])'
    <3>1. \A q \in handler[h].open \cap Payments : pay'[q].status # "succeeded"
      BY <2>1, <2>2 DEF Cancelled, SoloInv, IInv, PayOK
    <3>2. Become(h, [handler[h] EXCEPT !.open = @ \ {p}])
      BY <2>2 DEF Become
    <3>3. handler'[h] = [handler[h] EXCEPT !.open = @ \ {p}]
      BY <1>1, <3>2, Became
    <3>4. handler'[h].pc = "cancel payments" /\ handler'[h].open = handler[h].open \ {p}
      BY <1>1, <1>13, <3>3 DEF StateOK, CancelPayment
    <3> QED
      BY <3>1, <3>4 DEF FreshOK
  <2> QED
    BY <1>2, <1>13, <2>2 DEF CancelPayment
<1>14. CASE SumPayments(h) \/ FinalSum(h) \/ ReadForCash(h) \/ SumCash(h) \/ ReadForCancel(h)
  <2>1. UNCHANGED <<pay, order>>
    BY <1>14 DEF SumPayments, FinalSum, ReadForCash, SumCash, ReadForCancel, Local, rowVars
  <2>2. CASE Done(h)
    BY <1>2, <2>2
  <2>3. CASE SumPayments(h) \/ SumCash(h)
    <3>1. /\ handler'[h].pc \in {"commit", "commit cash"} /\ handler'[h].card = handler[h].card
          /\ pay[handler[h].card].status # "succeeded"
      <4>1. pay[handler[h].card].status # "succeeded"
        BY <1>1, <2>3 DEF SumPayments, SumCash, FreshOK
      <4>2. ASSUME SumPayments(h)
            PROVE  handler'[h].pc = "commit" /\ handler'[h].card = handler[h].card
        BY <1>1, <4>2 DEF SumPayments, HandlersOK
      <4>3. ASSUME SumCash(h)
            PROVE  handler'[h].pc = "commit cash" /\ handler'[h].card = handler[h].card
        BY <1>1, <4>3 DEF SumCash, HandlersOK
      <4> QED
        BY <2>3, <4>1, <4>2, <4>3
    <3>2. /\ handler'[h].pc \notin CancelSteps \cup AwaitingSteps
          /\ pay'[handler'[h].card].status # "succeeded"
      BY <2>1, <3>1
    <3> QED
      BY <3>2 DEF FreshOK
  <2>4. CASE FinalSum(h)
    <3>1. handler'[h].pc = "close" /\ order'.awaiting
      BY <1>1, <2>1, <2>4 DEF FinalSum, FreshOK, HandlersOK
    <3> QED
      BY <3>1 DEF FreshOK
  <2>5. CASE ReadForCash(h) /\ ~Done(h)
    <3>1. PICK amount :
            Become(h, [pc |-> "insert cash", card |-> handler[h].card, amount |-> amount])
      BY <2>5 DEF ReadForCash
    <3>2. [pc |-> "insert cash", card |-> handler[h].card, amount |-> amount].pc = "insert cash"
      OBVIOUS
    <3> QED
      BY <1>1, <3>1, <3>2, FreshBecame
  <2>6. CASE ReadForCancel(h) /\ ~Done(h)
    <3>1. /\ handler'[h].pc \in {"keep paid", "cancel order"} /\ order.awaiting
          /\ handler'[h].open = {p \in Payments : pay[p].status \in Pending}
      <4> DEFINE to == IF Succeeded = {} THEN "cancel order" ELSE "keep paid"
                 open == {p \in Payments : pay[p].status \in Pending}
      <4>1. Become(h, [pc |-> to, open |-> open]) /\ order.awaiting
        BY <2>6 DEF ReadForCancel
      <4>2. handler'[h] = [pc |-> to, open |-> open]
        BY <1>1, <4>1, Became
      <4>3. to \in {"keep paid", "cancel order"}
        OBVIOUS
      <4> HIDE DEF to
      <4>4. handler'[h].pc = to /\ handler'[h].open = open
        BY <4>2
      <4> QED
        BY <4>1, <4>3, <4>4
    <3> QED
      BY <2>1, <3>1 DEF FreshOK, Pending
  <2> QED
    BY <1>14, <2>2, <2>3, <2>4, <2>5, <2>6
<1> QED
  BY <1>6, <1>7, <1>8, <1>9, <1>10, <1>11, <1>12, <1>13, <1>14 DEF Proceed

LEMMA FreshKept ==
  ASSUME SoloInv, OneHandler, [Next]_vars
  PROVE  (\A h \in Handlers : FreshOK(handler[h]))'
<1> USE DEF CardSteps, CashSteps, CancelSteps, WriteSteps, AwaitingSteps
<1>0. HandlersOK /\ \A h \in Handlers : FreshOK(handler[h])
  BY DEF SoloInv, IInv
<1>1. ASSUME NEW h \in Handlers, Proceed(h) PROVE FreshOK(handler[h])'
  BY <1>1, FreshAfter
<1>2. ASSUME NEW h \in Handlers, Crash(h) PROVE FreshOK(handler[h])'
  BY <1>0, <1>2, FreshIdle DEF Crash
<1>3. ASSUME NEW h \in Handlers, Call(h) \/ \E e \in events : Deliver(h, e)
      PROVE  FreshOK(handler[h])'
  <2>1. ASSUME NEW s, Become(h, s),
               s.pc \in {"intent", "apply", "finalize", "cancel", "cash", "webhook"}
        PROVE  FreshOK(handler[h])'
    BY <1>0, <2>1, FreshBecame
  <2>2. CASE CallIntent(h)
    <3>1. PICK c \in Cards : Become(h, [pc |-> "intent", card |-> c])
      BY <2>2 DEF CallIntent, Request
    <3> QED
      BY <2>1, <3>1
  <2>3. CASE CallVerify(h)
    <3>1. PICK c \in Cards : Become(h, [pc |-> "apply", card |-> c, want |-> intent[c],
                                        job |-> "verify", event |-> NoEvent])
      BY <2>3 DEF CallVerify, Request
    <3> QED
      BY <2>1, <3>1
  <2>4. CASE CallFinalize(h)
    BY <2>1, <2>4 DEF CallFinalize, Request
  <2>5. CASE CallCancel(h)
    BY <2>1, <2>5 DEF CallCancel, Request
  <2>6. CASE CallCash(h)
    <3>1. PICK k \in Cash : Become(h, [pc |-> "cash", card |-> k])
      BY <2>6 DEF CallCash, Request
    <3> QED
      BY <2>1, <3>1
  <2>7. CASE \E e \in events : Deliver(h, e)
    <3>1. PICK e \in events : Become(h, [pc |-> "webhook", card |-> e[1], want |-> e[2],
                                         job |-> "webhook", event |-> e])
      BY <2>7 DEF Deliver
    <3> QED
      BY <2>1, <3>1
  <2> QED
    BY <1>3, <2>2, <2>3, <2>4, <2>5, <2>6, <2>7 DEF Call
<1>4. ASSUME UNCHANGED <<pay, order, handler>>
      PROVE  (\A h \in Handlers : FreshOK(handler[h]))'
  BY <1>0, <1>4 DEF FreshOK
<1>5. ASSUME NEW c \in Cards, CustomerPays(c) \/ IntentExpires(c)
      PROVE  UNCHANGED <<pay, order, handler>>
  BY <1>5 DEF CustomerPays, IntentExpires, StripeMoves, rowVars
<1>6. UNCHANGED vars => UNCHANGED <<pay, order, handler>>
  BY DEF vars, rowVars
<1> QED
  BY <1>1, <1>2, <1>3, <1>4, <1>5, <1>6, OnlyOne DEF Next

(* What a step does to the order and to the stock that was taken. *)
LEMMA OrderKept ==
  ASSUME SoloInv, [Next]_vars
  PROVE  OrderOK'
<1>0. OrderOK /\ \A h \in Handlers : FreshOK(handler[h])
  BY DEF SoloInv
<1>1. ASSUME UNCHANGED <<order, taken>> PROVE OrderOK'
  BY <1>0, <1>1 DEF OrderOK
<1>2. ASSUME NEW due, order' = [order EXCEPT !.due = due], UNCHANGED taken PROVE OrderOK'
  BY <1>0, <1>2 DEF OrderOK
<1>3. ASSUME NEW st, NEW due, st # "cancelled",
             order' = [status |-> st, awaiting |-> FALSE, due |-> due]
      PROVE  OrderOK'
  BY <1>3 DEF OrderOK
<1>4. ASSUME NEW h \in Handlers, CancelOrder(h) PROVE OrderOK'
  <2>1. order.awaiting
    BY <1>0, <1>4 DEF FreshOK, AwaitingSteps, CancelOrder, At
  <2>2. order' = [order EXCEPT !.status = "cancelled", !.awaiting = FALSE] /\ taken' = taken
    BY <1>4 DEF CancelOrder
  <2> QED
    BY <1>0, <2>1, <2>2 DEF OrderOK
<1>5. ASSUME NEW h \in Handlers, CommitPayment(h) \/ CommitCash(h) PROVE OrderOK'
  <2>1. taken' = taken /\ \E due : order' = [order EXCEPT !.due = due]
    BY <1>5 DEF CommitPayment, CommitCash
  <2> QED
    BY <1>2, <2>1
<1>6. ASSUME NEW h \in Handlers, CloseSale(h) \/ KeepPaidPart(h) PROVE OrderOK'
  <2>1. \E st \in {"confirmed", "closed"} : \E due :
          order' = [status |-> st, awaiting |-> FALSE, due |-> due]
    BY <1>6 DEF CloseSale, StatusFor, KeepPaidPart
  <2> QED
    BY <1>3, <2>1
<1>7. ASSUME NEW h \in Handlers, Proceed(h), ~CancelOrder(h), ~CommitPayment(h), ~CommitCash(h),
             ~CloseSale(h), ~KeepPaidPart(h)
      PROVE  UNCHANGED <<order, taken>>
  BY <1>7 DEF Proceed, CreateIntent, RecordIntent, ReadPayment, WritePayment, SumPayments,
              FindEvent, AfterApply, RecordEvent, ReadAwaiting, LookAtFirst, TakeStock, FinalSum,
              ReadForCancel, CancelPayment, ReadForCash, InsertCash, SumCash, Local, rowVars
<1>8. ASSUME NEW h \in Handlers, Call(h) \/ Crash(h) \/ \E e \in events : Deliver(h, e)
      PROVE  UNCHANGED <<order, taken>>
  BY <1>8 DEF Call, CallIntent, CallVerify, CallFinalize, CallCancel, CallCash, Request, Crash,
              Deliver, Local, rowVars
<1>9. ASSUME UNCHANGED vars \/ \E c \in Cards : CustomerPays(c) \/ IntentExpires(c)
      PROVE  UNCHANGED <<order, taken>>
  BY <1>9 DEF vars, rowVars, CustomerPays, IntentExpires, StripeMoves
<1> QED
  BY <1>1, <1>4, <1>5, <1>6, <1>7, <1>8, <1>9 DEF Next

(* A success stays. *)
LEMMA SuccessStays ==
  ASSUME SoloInv, [Next]_vars
  PROVE  \A p \in Succeeded : pay'[p] = pay[p]
<1>0. PayOK /\ HandlersOK /\ \A h \in Handlers : StateOK(handler[h]) /\ FreshOK(handler[h])
  BY DEF SoloInv, IInv, HandlersOK
<1>1. ASSUME NEW h \in Handlers, RecordIntent(h) \/ ReadPayment(h) PROVE SucceededStep
  <2>1. \/ pay' = pay
        \/ /\ pay[handler[h].card].status # "succeeded"
           /\ \E st : pay' = [pay EXCEPT ![handler[h].card].status = st]
    BY <1>1 DEF RecordIntent, ReadPayment
  <2> QED
    BY <1>0, <2>1 DEF SucceededStep, Succeeded, PayOK
<1>2. ASSUME NEW h \in Handlers, CommitPayment(h) \/ CommitCash(h) PROVE SucceededStep
  <2>1. pay[handler[h].card].status # "succeeded"
    BY <1>0, <1>2 DEF CommitPayment, CommitCash, At, FreshOK, WriteSteps
  <2>2. \/ \E st : pay' = [pay EXCEPT ![handler[h].card].status = st]
        \/ \E r : pay' = [pay EXCEPT ![handler[h].card] = r]
    BY <1>2 DEF CommitPayment, CommitCash
  <2> QED
    BY <1>0, <2>1, <2>2 DEF SucceededStep, Succeeded, PayOK
<1>3. ASSUME NEW h \in Handlers, KeepPaidPart(h) \/ CancelPayment(h) PROVE SucceededStep
  <2>1. \A p \in handler[h].open \cap Payments : pay[p].status # "succeeded"
    BY <1>0, <1>3 DEF KeepPaidPart, CancelPayment, At, FreshOK, CancelSteps
  <2>2. pay' = pay \/ \E S \in SUBSET handler[h].open : pay' = Cancelled(S)
    BY <1>3 DEF KeepPaidPart, CancelPayment
  <2> QED
    BY <1>0, <2>1, <2>2, CancelledSet DEF SucceededStep, Succeeded
<1>4. ASSUME pay' = pay PROVE SucceededStep
  BY <1>4 DEF SucceededStep
<1>5. ASSUME NEW h \in Handlers, Proceed(h), ~RecordIntent(h), ~ReadPayment(h), ~CommitPayment(h),
             ~CommitCash(h), ~KeepPaidPart(h), ~CancelPayment(h)
      PROVE  pay' = pay
  BY <1>5 DEF Proceed, CreateIntent, WritePayment, SumPayments, FindEvent, AfterApply, RecordEvent,
              ReadAwaiting, LookAtFirst, TakeStock, FinalSum, CloseSale, ReadForCancel, CancelOrder,
              ReadForCash, InsertCash, SumCash, Local, rowVars
<1>6. ASSUME NEW h \in Handlers, Call(h) \/ Crash(h) \/ \E e \in events : Deliver(h, e)
      PROVE  pay' = pay
  BY <1>6 DEF Call, CallIntent, CallVerify, CallFinalize, CallCancel, CallCash, Request, Crash,
              Deliver, Local, rowVars
<1>7. ASSUME UNCHANGED vars \/ \E c \in Cards : CustomerPays(c) \/ IntentExpires(c)
      PROVE  pay' = pay
  BY <1>7 DEF vars, rowVars, CustomerPays, IntentExpires, StripeMoves
<1>8. SucceededStep
  BY <1>1, <1>2, <1>3, <1>4, <1>5, <1>6, <1>7 DEF Next
<1> QED
  BY <1>8 DEF SucceededStep

LEMMA BooksKept ==
  ASSUME SoloInv, [Next]_vars
  PROVE  BooksOK'
<1>0. BooksOK /\ SucceededIsBooked /\ \A h \in Handlers : FreshOK(handler[h])
  BY DEF SoloInv, IInv
<1>1. \A p \in Succeeded : pay'[p] = pay[p]
  BY SuccessStays
<1>2. CASE NothingPaid
  <2>1. Succeeded' = Succeeded
    BY <1>1, <1>2 DEF NothingPaid, Succeeded
  <2> QED
    BY <1>0, <1>2, <2>1 DEF NothingPaid, BooksOK
<1>3. ASSUME NEW h \in Handlers, NEW p \in Payments, Paid(h, p) PROVE BooksOK'
  <2>1. pay[p].status # "succeeded"
    BY <1>0, <1>3 DEF Paid, At, FreshOK, WriteSteps
  <2>2. p \notin Succeeded /\ Succeeded' = Succeeded \cup {p}
    BY <1>1, <1>3, <2>1 DEF Paid, Succeeded
  <2>3. completed[p] = 0
    BY <1>0, <2>2 DEF BooksOK
  <2>4. /\ DOMAIN completed' = Payments /\ completed'[p] = 1
        /\ \A q \in Payments \ {p} : completed'[q] = completed[q]
    BY <1>0, <1>3, <2>3 DEF Paid, Book, BooksOK, Again
  <2>5. \A q \in Payments : completed'[q] = IF q \in Succeeded' THEN 1 ELSE 0
    BY <1>0, <2>2, <2>4 DEF BooksOK
  <2>6. \/ saleBooked = {} /\ saleBooked' = Succeeded \cup {p} /\ receipts' = receipts
        \/ saleBooked # {} /\ saleBooked' = saleBooked /\ receipts' = receipts \cup {p}
    BY <1>3 DEF Paid, Book
  <2>7. /\ (saleBooked \cup receipts \subseteq Succeeded)'
        /\ (saleBooked \cap receipts = {})'
        /\ (saleBooked = {} => receipts = {})'
    BY <1>0, <2>2, <2>6 DEF BooksOK
  <2> QED
    BY <2>4, <2>5, <2>7 DEF BooksOK
<1> QED
  BY <1>2, <1>3, Effects DEF SoloInv

LEMMA SoloInitOK == Init => SoloInv
<1> SUFFICES ASSUME Init PROVE SoloInv
  OBVIOUS
<1>1. OrderOK
  BY DEF Init, OrderOK
<1>2. BooksOK
  BY DEF Init, BooksOK, Succeeded
<1>3. \A h \in Handlers : FreshOK(handler[h])
  BY DEF Init, FreshOK, Idle, WriteSteps, CancelSteps, AwaitingSteps
<1> QED
  BY <1>1, <1>2, <1>3, InitOK DEF SoloInv

LEMMA SoloKept == OneHandler /\ SoloInv /\ [Next]_vars => SoloInv'
<1> SUFFICES ASSUME OneHandler, SoloInv, [Next]_vars PROVE SoloInv'
  OBVIOUS
<1>1. IInv'
  BY StepKept DEF SoloInv
<1> QED
  BY <1>1, FreshKept, OrderKept, BooksKept DEF SoloInv

THEOREM SoloInvariance == ASSUME OneHandler PROVE Spec => []SoloInv
<1>1. SoloInv /\ [Next]_vars => SoloInv'
  BY SoloKept
<1> QED
  BY <1>1, SoloInitOK, PTL DEF Spec

(* applyProviderStatus and cancelPreparedSale: while requests come one at a  *)
(* time, nothing takes a success back, whatever is late, repeated or lost.   *)
THEOREM SuccessIsKept == ASSUME OneHandler PROVE Spec => SucceededKept
<1>1. SoloInv /\ [Next]_vars => [SucceededStep]_vars
  BY SuccessStays DEF SucceededStep
<1> QED
  BY <1>1, SoloInvariance, PTL DEF Spec, SucceededKept

(* afterSucceededPayment: then each payment is booked and announced once.    *)
THEOREM PaidIsBookedOnce == ASSUME OneHandler PROVE Spec => []BookedOnce
<1>1. SoloInv => BookedOnce
  BY DEF SoloInv, BooksOK, BookedOnce
<1> QED
  BY <1>1, SoloInvariance, PTL

(* cancelPreparedSale: then no goods leave for an order that is cancelled.   *)
THEOREM NoGoodsForCancelled == ASSUME OneHandler PROVE Spec => []CancelledTakesNoStock
<1>1. SoloInv => CancelledTakesNoStock
  BY DEF SoloInv, OrderOK, CancelledTakesNoStock
<1> QED
  BY <1>1, SoloInvariance, PTL

-----------------------------------------------------------------------------
(* What is paid and what is due, one request at a time.                      *)

AmountsOK == \A p \in Payments : pay[p].amount \in Nat

AmountSteps == {"insert cash", "sum cash", "commit cash"}
SumSteps == {"commit", "commit cash", "close"}

(* What a handler has summed up is still the sum.                            *)
SumsOK(s) ==
  /\ s.pc \in AmountSteps => "amount" \in DOMAIN s /\ s.amount \in Nat
  /\ s.pc = "commit" =>
       s.sum = SumOf(IF s.want = "succeeded" THEN Succeeded \cup {s.card} ELSE Succeeded \ {s.card})
  /\ s.pc = "commit cash" => s.sum = SumOf(Succeeded) + s.amount
  /\ s.pc = "close" => s.sum = SumOf(Succeeded)

(* The inductive invariant about money.                                      *)
MoneyInv ==
  /\ SoloInv /\ AmountsOK /\ DueAgrees /\ ClosedIsPaid
  /\ \A h \in Handlers : SumsOK(handler[h])

SumIn(p, K) == SumFunction([k \in K |-> p[k].amount])

LEMMA FinitePayments == IsFiniteSet(Payments)
  BY SaleAssumption, FS_Union DEF Payments

LEMMA SumNatural ==
  ASSUME AmountsOK, NEW K \in SUBSET Payments
  PROVE  SumOf(K) \in Nat
<1> DEFINE f == [k \in K |-> pay[k].amount]
<1>1. IsFiniteSet(K)
  BY FinitePayments, FS_Subset
<1>2. f \in [K -> Nat]
  BY DEF AmountsOK
<1>3. SumFunction(f) \in Nat
  <2> HIDE DEF f
  <2> QED BY <1>1, <1>2, SumNat
<1> QED
  BY <1>3 DEF SumOf

LEMMA SumSameRows ==
  ASSUME NEW K, NEW p, NEW q, \A k \in K : q[k].amount = p[k].amount
  PROVE  SumIn(q, K) = SumIn(p, K)
  BY DEF SumIn

SameAmounts(p, q, K) == \A k \in K : p[k].amount \in Nat /\ q[k].amount = p[k].amount

LEMMA SumWithOne ==
  ASSUME NEW K \in SUBSET Payments, NEW c \in Payments, c \notin K, NEW p, NEW q,
         SameAmounts(p, q, K), q[c].amount \in Nat
  PROVE  SumIn(q, K \cup {c}) = SumIn(p, K) + q[c].amount
<1> DEFINE f == [k \in K |-> p[k].amount]
           g == [k \in K \cup {c} |-> q[k].amount]
<1>1. IsFiniteSet(Payments) /\ K \cup {c} \in SUBSET Payments /\ c \in Payments /\ c \notin K
  BY FinitePayments
<1>2. f \in [K -> Int] /\ g \in [K \cup {c} -> Int]
  BY DEF SameAmounts
<1>3. \A x \in Payments \ {c} : (x \in K \cup {c} <=> x \in K) /\ (x \in K => g[x] = f[x])
  BY DEF SameAmounts
<1>4. g[c] = q[c].amount
  OBVIOUS
<1>5. SumFunction(f) \in Int
  <2>1. IsFiniteSet(K)
    BY FinitePayments, FS_Subset
  <2> HIDE DEF f
  <2> QED
    BY <1>2, <2>1, SumInt
<1>6. SumFunction(g) = SumFunction(f) + g[c]
  <2> DEFINE L == K \cup {c}
  <2>1. g \in [L -> Int] /\ c \in L /\ L \in SUBSET Payments
    BY <1>1, <1>2
  <2>2. \A x \in Payments \ {c} : (x \in L <=> x \in K) /\ (x \in K => g[x] = f[x])
    BY <1>3
  <2>3. g[c] \in Int
    BY <1>4
  <2> HIDE DEF f, g, L
  <2>4. SumFunction(g) = SumFunction(f) - (IF c \in K THEN f[c] ELSE 0)
                                        + (IF c \in L THEN g[c] ELSE 0)
    BY <1>1, <1>2, <2>1, <2>2, SumRowChanges
  <2> QED
    BY <1>1, <1>5, <2>1, <2>3, <2>4
<1> QED
  BY <1>4, <1>6 DEF SumIn

(* A step changes no amount but that of a cash payment it makes.             *)
LEMMA AmountsStay ==
  ASSUME MoneyInv, [Next]_vars
  PROVE  /\ AmountsOK'
         /\ \/ \A p \in Payments : pay'[p].amount = pay[p].amount
            \/ \E h \in Handlers : /\ CommitCash(h)
                                   /\ pay'[handler[h].card].amount = handler[h].amount
<1>0. PayOK /\ HandlersOK /\ AmountsOK /\ \A h \in Handlers : StateOK(handler[h]) /\ SumsOK(handler[h])
  BY DEF MoneyInv, SoloInv, IInv, HandlersOK
<1>1. ASSUME NEW h \in Handlers, RecordIntent(h) \/ ReadPayment(h) \/ CommitPayment(h)
      PROVE  \A p \in Payments : pay'[p].amount = pay[p].amount
  <2>1. handler[h].card \in Payments
    BY <1>0, <1>1 DEF RecordIntent, ReadPayment, CommitPayment, At, StateOK, CardSteps, Payments
  <2>2. pay' = pay \/ \E st : pay' = [pay EXCEPT ![handler[h].card].status = st]
    BY <1>1 DEF RecordIntent, ReadPayment, CommitPayment
  <2> QED
    BY <1>0, <2>1, <2>2, StatusSet
<1>2. ASSUME NEW h \in Handlers, KeepPaidPart(h) \/ CancelPayment(h)
      PROVE  \A p \in Payments : pay'[p].amount = pay[p].amount
  <2>1. pay' = pay \/ \E S : pay' = Cancelled(S)
    BY <1>2 DEF KeepPaidPart, CancelPayment
  <2> QED
    BY <1>0, <2>1, CancelledSet
<1>3. ASSUME NEW h \in Handlers, CommitCash(h)
      PROVE  /\ pay'[handler[h].card].amount = handler[h].amount /\ handler[h].amount \in Nat
             /\ \A p \in Payments \ {handler[h].card} : pay'[p] = pay[p]
  <2>1. handler[h].card \in Payments
    BY <1>0, <1>3 DEF CommitCash, At, StateOK, CashSteps, Payments
  <2>2. pay' = [pay EXCEPT ![handler[h].card] =
                  [status |-> "succeeded", amount |-> handler[h].amount]]
    BY <1>3 DEF CommitCash
  <2>3. handler[h].amount \in Nat
    BY <1>0, <1>3 DEF CommitCash, At, SumsOK, AmountSteps
  <2> QED
    BY <1>0, <2>1, <2>2, <2>3 DEF PayOK
<1>4. ASSUME NEW h \in Handlers, Proceed(h), ~RecordIntent(h), ~ReadPayment(h), ~CommitPayment(h),
             ~CommitCash(h), ~KeepPaidPart(h), ~CancelPayment(h)
      PROVE  pay' = pay
  BY <1>4 DEF Proceed, CreateIntent, WritePayment, SumPayments, FindEvent, AfterApply, RecordEvent,
              ReadAwaiting, LookAtFirst, TakeStock, FinalSum, CloseSale, ReadForCancel, CancelOrder,
              ReadForCash, InsertCash, SumCash, Local, rowVars
<1>5. ASSUME NEW h \in Handlers, Call(h) \/ Crash(h) \/ \E e \in events : Deliver(h, e)
      PROVE  pay' = pay
  BY <1>5 DEF Call, CallIntent, CallVerify, CallFinalize, CallCancel, CallCash, Request, Crash,
              Deliver, Local, rowVars
<1>6. ASSUME UNCHANGED vars \/ \E c \in Cards : CustomerPays(c) \/ IntentExpires(c)
      PROVE  pay' = pay
  BY <1>6 DEF vars, rowVars, CustomerPays, IntentExpires, StripeMoves
<1>7. \/ \A p \in Payments : pay'[p].amount = pay[p].amount
      \/ \E h \in Handlers : CommitCash(h)
  BY <1>1, <1>2, <1>4, <1>5, <1>6 DEF Next
<1>8. CASE \E h \in Handlers : CommitCash(h)
  <2>1. PICK h \in Handlers : CommitCash(h)
    BY <1>8
  <2>2. ASSUME NEW p \in Payments PROVE pay'[p].amount \in Nat
    <3>1. CASE p = handler[h].card
      BY <1>3, <2>1, <3>1
    <3>2. CASE p # handler[h].card
      BY <1>0, <1>3, <2>1, <3>2 DEF AmountsOK
    <3> QED
      BY <3>1, <3>2
  <2> QED
    BY <1>3, <2>1, <2>2 DEF AmountsOK
<1>9. CASE \A p \in Payments : pay'[p].amount = pay[p].amount
  BY <1>0, <1>9 DEF AmountsOK
<1> QED
  BY <1>7, <1>8, <1>9

(* The sum of what succeeded: a step leaves it, or adds the payment it makes. *)
LEMMA PaidStays ==
  ASSUME MoneyInv, [Next]_vars, NothingPaid
  PROVE  Succeeded' = Succeeded /\ SumOf(Succeeded)' = SumOf(Succeeded)
<1>1. \A p \in Succeeded : pay'[p] = pay[p]
  BY SuccessStays DEF MoneyInv
<1>2. Succeeded' = Succeeded
  BY <1>1 DEF NothingPaid, Succeeded
<1>3. SumIn(pay', Succeeded) = SumIn(pay, Succeeded)
  BY <1>1, SumSameRows
<1>4. SumOf(Succeeded)' = SumIn(pay', Succeeded')
  BY DEF SumOf, SumIn
<1> QED
  BY <1>2, <1>3, <1>4 DEF SumOf, SumIn

LEMMA PaidGrows ==
  ASSUME MoneyInv, [Next]_vars, NEW h \in Handlers, NEW p \in Payments, Paid(h, p)
  PROVE  /\ p \notin Succeeded /\ Succeeded' = Succeeded \cup {p}
         /\ SumOf(Succeeded)' = SumOf(Succeeded) + pay'[p].amount
         /\ pay'[p].amount \in Nat
<1>0. AmountsOK /\ FreshOK(handler[h])
  BY DEF MoneyInv, SoloInv
<1>1. pay[p].status # "succeeded"
  BY <1>0 DEF Paid, At, FreshOK, WriteSteps
<1>2. \A q \in Succeeded : pay'[q] = pay[q]
  BY SuccessStays DEF MoneyInv
<1>3. p \notin Succeeded /\ Succeeded' = Succeeded \cup {p}
  BY <1>1, <1>2 DEF Paid, Succeeded
<1>4. pay'[p].amount \in Nat
  BY AmountsStay DEF AmountsOK
<1>5. SumIn(pay', Succeeded \cup {p}) = SumIn(pay, Succeeded) + pay'[p].amount
  <2>1. Succeeded \in SUBSET Payments /\ p \in Payments \ Succeeded
    BY <1>3 DEF Succeeded
  <2>2. PICK K, new : K = Succeeded /\ new = pay'
    OBVIOUS
  <2>3. K \in SUBSET Payments /\ p \in Payments \ K /\ new[p].amount \in Nat
    BY <1>4, <2>1, <2>2
  <2>4. SameAmounts(pay, new, K)
    BY <1>0, <1>2, <2>2 DEF SameAmounts, AmountsOK, Succeeded
  <2>5. SumIn(new, K \cup {p}) = SumIn(pay, K) + new[p].amount
    BY <2>3, <2>4, SumWithOne
  <2> QED
    BY <2>2, <2>5
<1>6. SumOf(Succeeded)' = SumIn(pay', Succeeded')
  BY DEF SumOf, SumIn
<1>7. SumOf(Succeeded) = SumIn(pay, Succeeded)
  BY DEF SumOf, SumIn
<1> QED
  BY <1>3, <1>4, <1>5, <1>6, <1>7

(* The balance a step writes.                                                *)
DueWritten == order'.due = DueFor(SumOf(Succeeded)')

LEMMA CardDue ==
  ASSUME MoneyInv, [Next]_vars, NEW h \in Handlers, CommitPayment(h)
  PROVE  DueWritten /\ order'.status = order.status
<1>0. /\ OrderOK /\ PayOK /\ HandlersOK /\ StateOK(handler[h]) /\ FreshOK(handler[h])
      /\ SumsOK(handler[h]) /\ AmountsOK
  BY DEF MoneyInv, SoloInv, IInv, HandlersOK
<1> DEFINE c == handler[h].card
<1>1. At(h, "commit") /\ c \in Payments /\ pay[c].status # "succeeded"
  BY <1>0 DEF CommitPayment, At, StateOK, FreshOK, CardSteps, WriteSteps, Payments
<1>2. order'.due = DueFor(handler[h].sum) /\ order'.status = order.status
  BY <1>0 DEF CommitPayment, OrderOK
<1>3. /\ pay'[c].status = handler[h].want /\ pay'[c].amount = pay[c].amount
      /\ \A q \in Payments \ {c} : pay'[q] = pay[q]
  BY <1>0, <1>1, StatusSet DEF CommitPayment
<1>4. CASE handler[h].want = "succeeded"
  <2>1. Paid(h, c)
    BY <1>1, <1>3, <1>4 DEF Paid, CommitPayment
  <2>2. Succeeded' = Succeeded \cup {c}
    BY <1>1, <2>1, PaidGrows
  <2>3. handler[h].sum = SumIn(pay, Succeeded \cup {c})
    BY <1>0, <1>1, <1>4 DEF SumsOK, At, SumOf, SumIn
  <2>4. SumIn(pay', Succeeded \cup {c}) = SumIn(pay, Succeeded \cup {c})
    <3>1. \A q \in Succeeded \cup {c} : pay'[q].amount = pay[q].amount
      BY <1>3 DEF Succeeded
    <3> QED
      BY <3>1, SumSameRows
  <2>5. SumOf(Succeeded)' = SumIn(pay', Succeeded')
    BY DEF SumOf, SumIn
  <2> QED
    BY <1>2, <2>2, <2>3, <2>4, <2>5 DEF DueWritten
<1>5. CASE handler[h].want # "succeeded"
  <2>1. NothingPaid
    BY <1>3, <1>5 DEF NothingPaid, CommitPayment
  <2>2. Succeeded \ {c} = Succeeded
    BY <1>1 DEF Succeeded
  <2>3. handler[h].sum = SumOf(Succeeded)
    BY <1>0, <1>1, <1>5, <2>2 DEF SumsOK, At
  <2> QED
    BY <1>2, <2>1, <2>3, PaidStays DEF DueWritten
<1> QED
  BY <1>4, <1>5

LEMMA CashDue ==
  ASSUME MoneyInv, [Next]_vars, NEW h \in Handlers, CommitCash(h)
  PROVE  DueWritten /\ order'.status = order.status
<1>0. /\ OrderOK /\ PayOK /\ StateOK(handler[h]) /\ SumsOK(handler[h])
  BY DEF MoneyInv, SoloInv, IInv, HandlersOK
<1> DEFINE k == handler[h].card
<1>1. At(h, "commit cash") /\ k \in Payments
  BY <1>0 DEF CommitCash, At, StateOK, CashSteps, Payments
<1>2. order'.due = DueFor(handler[h].sum) /\ order'.status = order.status
  BY <1>0 DEF CommitCash, OrderOK
<1>3. pay' = [pay EXCEPT ![k] = [status |-> "succeeded", amount |-> handler[h].amount]]
  BY DEF CommitCash
<1>4. /\ pay'[k].status = "succeeded" /\ pay'[k].amount = handler[h].amount
      /\ \A q \in Payments \ {k} : pay'[q] = pay[q]
  BY <1>0, <1>1, <1>3 DEF PayOK
<1>5. Paid(h, k)
  BY <1>1, <1>4 DEF Paid, CommitCash
<1>6. SumOf(Succeeded)' = SumOf(Succeeded) + pay'[k].amount
  BY <1>1, <1>5, PaidGrows
<1>7. handler[h].sum = SumOf(Succeeded) + handler[h].amount
  BY <1>0, <1>1 DEF SumsOK, At
<1> QED
  BY <1>2, <1>4, <1>6, <1>7 DEF DueWritten

LEMMA QuietDue ==
  ASSUME MoneyInv, [Next]_vars,
         \A h \in Handlers : ~CommitPayment(h) /\ ~CommitCash(h)
  PROVE  /\ DueWritten
         /\ order'.status = "closed" => order.status = "closed" \/ ~(order'.due > 0)
<1>0. /\ OrderOK /\ PayOK /\ DueAgrees
      /\ \A h \in Handlers : StateOK(handler[h]) /\ FreshOK(handler[h]) /\ SumsOK(handler[h])
  BY DEF MoneyInv, SoloInv, IInv, HandlersOK
<1>1. NothingPaid
  BY Effects DEF MoneyInv, SoloInv
<1>2. SumOf(Succeeded)' = SumOf(Succeeded)
  BY <1>1, PaidStays
<1>3. ASSUME order'.due = order.due PROVE DueWritten
  BY <1>0, <1>2, <1>3 DEF DueWritten, DueAgrees
<1>4. ASSUME NEW h \in Handlers, CloseSale(h)
      PROVE  DueWritten /\ (order'.status = "closed" => ~(order'.due > 0))
  <2>1. /\ order'.due = DueFor(handler[h].sum)
        /\ order'.status = StatusFor(DueFor(handler[h].sum))
    BY <1>4 DEF CloseSale
  <2>2. handler[h].sum = SumOf(Succeeded)
    BY <1>0, <1>4 DEF CloseSale, At, SumsOK
  <2>3. order'.status = "closed" => ~(order'.due > 0)
    BY <2>1 DEF StatusFor
  <2> QED
    BY <1>2, <2>1, <2>2, <2>3 DEF DueWritten
<1>5. ASSUME NEW h \in Handlers, KeepPaidPart(h) PROVE DueWritten /\ order'.status = "confirmed"
  <2>1. /\ order'.due = DueFor(SumOf(Succeeded \ handler[h].open))
        /\ order'.status = "confirmed"
    BY <1>5 DEF KeepPaidPart
  <2>2. Succeeded \ handler[h].open = Succeeded
    BY <1>0, <1>5 DEF KeepPaidPart, At, FreshOK, CancelSteps, Succeeded
  <2> QED
    BY <1>2, <2>1, <2>2 DEF DueWritten
<1>6. ASSUME NEW h \in Handlers, CancelOrder(h) PROVE DueWritten /\ order'.status = "cancelled"
  <2>1. order'.due = order.due /\ order'.status = "cancelled"
    BY <1>0, <1>6 DEF CancelOrder, OrderOK
  <2> QED
    BY <1>3, <2>1
<1>7. ASSUME NEW h \in Handlers, Proceed(h), ~CancelOrder(h), ~CloseSale(h), ~KeepPaidPart(h)
      PROVE  order' = order
  BY <1>7 DEF Proceed, CreateIntent, RecordIntent, ReadPayment, WritePayment, SumPayments,
              FindEvent, AfterApply, RecordEvent, ReadAwaiting, LookAtFirst, TakeStock, FinalSum,
              ReadForCancel, CancelPayment, ReadForCash, InsertCash, SumCash, Local, rowVars
<1>8. ASSUME NEW h \in Handlers, Call(h) \/ Crash(h) \/ \E e \in events : Deliver(h, e)
      PROVE  order' = order
  BY <1>8 DEF Call, CallIntent, CallVerify, CallFinalize, CallCancel, CallCash, Request, Crash,
              Deliver, Local, rowVars
<1>9. ASSUME UNCHANGED vars \/ \E c \in Cards : CustomerPays(c) \/ IntentExpires(c)
      PROVE  order' = order
  BY <1>9 DEF vars, rowVars, CustomerPays, IntentExpires, StripeMoves
<1>10. order' = order => DueWritten /\ order'.status = order.status
  BY <1>3
<1> QED
  BY <1>4, <1>5, <1>6, <1>7, <1>8, <1>9, <1>10 DEF Next

LEMMA DueKept ==
  ASSUME MoneyInv, [Next]_vars
  PROVE  DueAgrees' /\ ClosedIsPaid'
<1>0. AmountsOK /\ AmountsOK' /\ ClosedIsPaid
  BY AmountsStay DEF MoneyInv
<1>1. DueWritten
  BY CardDue, CashDue, QuietDue
<1>2. order'.status = "closed" => order.status = "closed" \/ ~(order'.due > 0)
  BY CardDue, CashDue, QuietDue
<1>3. SumOf(Succeeded) \in Nat
  BY <1>0, SumNatural DEF Succeeded
<1>4. SumOf(Succeeded) <= SumOf(Succeeded)' /\ SumOf(Succeeded)' \in Nat
  <2>1. CASE NothingPaid
    BY <1>3, <2>1, PaidStays
  <2>2. ASSUME NEW h \in Handlers, NEW p \in Payments, Paid(h, p)
        PROVE  SumOf(Succeeded) <= SumOf(Succeeded)' /\ SumOf(Succeeded)' \in Nat
    <3>1. SumOf(Succeeded)' = SumOf(Succeeded) + pay'[p].amount /\ pay'[p].amount \in Nat
      BY <2>2, PaidGrows
    <3> QED
      BY <1>3, <3>1
  <2> QED
    BY <2>1, <2>2, Effects DEF MoneyInv, SoloInv
<1>5. Total \in Nat
  BY SaleAssumption
<1>6. CASE order.status = "closed"
  <2>1. Total <= SumOf(Succeeded)
    BY <1>0, <1>6 DEF ClosedIsPaid
  <2>2. Total <= SumOf(Succeeded)'
    BY <1>3, <1>4, <1>5, <2>1
  <2> QED
    BY <1>1, <2>2 DEF DueAgrees, ClosedIsPaid, DueWritten
<1>7. CASE ~(order'.due > 0)
  <2>1. Total <= SumOf(Succeeded)'
    BY <1>1, <1>4, <1>5, <1>7 DEF DueWritten, DueFor
  <2> QED
    BY <1>1, <2>1 DEF DueAgrees, ClosedIsPaid, DueWritten
<1>8. CASE order'.status # "closed"
  BY <1>1, <1>8 DEF DueAgrees, ClosedIsPaid, DueWritten
<1> QED
  BY <1>2, <1>6, <1>7, <1>8

(* What a handler has summed up.                                             *)
LEMMA SumsIdle ==
  ASSUME HandlersOK, NEW h \in Handlers, Done(h)
  PROVE  SumsOK(handler[h])'
<1>1. handler'[h] = Idle
  BY Became DEF Done
<1> QED
  BY <1>1 DEF SumsOK, Idle, AmountSteps

LEMMA SumsNone ==
  ASSUME NEW h, handler'[h].pc \notin AmountSteps \cup SumSteps
  PROVE  SumsOK(handler[h])'
  BY DEF SumsOK, AmountSteps, SumSteps

LEMMA SumsOther ==
  ASSUME MoneyInv, UNCHANGED <<pay, handler>>, NEW h \in Handlers
  PROVE  SumsOK(handler[h])'
<1>1. /\ SumOf(Succeeded)' = SumOf(Succeeded)
      /\ \A c : /\ SumOf(Succeeded \cup {c})' = SumOf(Succeeded \cup {c})
               /\ SumOf(Succeeded \ {c})' = SumOf(Succeeded \ {c})
  BY DEF SumOf, Succeeded
<1>2. SumsOK(handler[h]) /\ handler'[h] = handler[h]
  BY DEF MoneyInv
<1> QED
  BY <1>1, <1>2 DEF SumsOK

LEMMA SumsAfter ==
  ASSUME MoneyInv, NEW h \in Handlers, Proceed(h)
  PROVE  SumsOK(handler[h])'
<1> USE DEF At
<1>0. /\ HandlersOK /\ StateOK(handler[h]) /\ SumsOK(handler[h]) /\ AmountsOK /\ DueAgrees
  BY DEF MoneyInv, SoloInv, IInv, HandlersOK
<1>1. ASSUME Done(h) PROVE SumsOK(handler[h])'
  BY <1>0, <1>1, SumsIdle
<1>2. ASSUME NEW pc, Goto(h, pc), pc \notin AmountSteps \cup SumSteps PROVE SumsOK(handler[h])'
  BY <1>0, <1>2, Went, SumsNone
<1>3. CASE \/ CreateIntent(h) \/ RecordIntent(h) \/ ReadPayment(h) \/ WritePayment(h)
           \/ CommitPayment(h) \/ FindEvent(h) \/ AfterApply(h) \/ RecordEvent(h)
           \/ ReadAwaiting(h) \/ LookAtFirst(h) \/ TakeStock(h) \/ CloseSale(h)
           \/ KeepPaidPart(h) \/ CancelOrder(h) \/ CommitCash(h)
  <2>1. Done(h) \/ \E pc \in {"intent row", "applied", "write", "sum", "apply", "finalize", "record",
                              "look", "stock", "final sum", "cancel payments"} : Goto(h, pc)
    BY <1>3 DEF CreateIntent, RecordIntent, ReadPayment, WritePayment, CommitPayment, FindEvent,
                AfterApply, RecordEvent, ReadAwaiting, LookAtFirst, TakeStock, CloseSale,
                AfterFinalize, KeepPaidPart, CancelOrder, CommitCash
  <2> QED
    BY <1>1, <1>2, <2>1 DEF AmountSteps, SumSteps
<1>4. CASE SumPayments(h)
  <2>1. UNCHANGED pay
    BY <1>4 DEF SumPayments, Local, rowVars
  <2>2. /\ handler'[h].pc = "commit" /\ handler'[h].card = handler[h].card
        /\ handler'[h].want = handler[h].want
        /\ handler'[h].sum = SumOf(IF handler[h].want = "succeeded"
                                   THEN Succeeded \cup {handler[h].card}
                                   ELSE Succeeded \ {handler[h].card})
    BY <1>0, <1>4 DEF SumPayments, HandlersOK
  <2>3. handler'[h].sum = SumOf(IF handler[h].want = "succeeded"
                                THEN Succeeded \cup {handler[h].card}
                                ELSE Succeeded \ {handler[h].card})'
    BY <2>1, <2>2 DEF SumOf, Succeeded
  <2> QED
    BY <2>2, <2>3 DEF SumsOK, AmountSteps
<1>5. CASE FinalSum(h)
  <2>1. UNCHANGED pay
    BY <1>5 DEF FinalSum, Local, rowVars
  <2>2. handler'[h].pc = "close" /\ handler'[h].sum = SumOf(Succeeded)
    BY <1>0, <1>5 DEF FinalSum, HandlersOK
  <2>3. handler'[h].sum = SumOf(Succeeded)'
    BY <2>1, <2>2 DEF SumOf, Succeeded
  <2> QED
    BY <2>2, <2>3 DEF SumsOK, AmountSteps
<1>6. CASE SumCash(h)
  <2>1. UNCHANGED pay
    BY <1>6 DEF SumCash, Local, rowVars
  <2>2. handler[h].pc = "sum cash" /\ handler[h].amount \in Nat
    BY <1>0, <1>6 DEF SumCash, SumsOK, AmountSteps
  <2>3. PICK s : s = [pc |-> "commit cash", card |-> handler[h].card, amount |-> handler[h].amount,
                      sum |-> SumOf(Succeeded) + handler[h].amount]
    OBVIOUS
  <2>4. Become(h, s)
    BY <1>6, <2>3 DEF SumCash, Become
  <2>8. handler'[h] = s
    BY <1>0, <2>4, Became
  <2>9. /\ s.pc = "commit cash" /\ s.amount = handler[h].amount /\ "amount" \in DOMAIN s
        /\ s.sum = SumOf(Succeeded) + handler[h].amount
    BY <2>3
  <2>5. /\ handler'[h].pc = "commit cash" /\ handler'[h].amount = handler[h].amount
        /\ "amount" \in DOMAIN handler'[h]
        /\ handler'[h].sum = SumOf(Succeeded) + handler[h].amount
    BY <2>8, <2>9
  <2>6. SumOf(Succeeded)' = SumOf(Succeeded)
    BY <2>1 DEF SumOf, Succeeded
  <2>7. handler'[h].sum = SumOf(Succeeded)' + handler'[h].amount
    BY <2>5, <2>6
  <2> QED
    BY <2>2, <2>5, <2>7 DEF SumsOK, AmountSteps
<1>7. CASE InsertCash(h)
  <2>1. Done(h) \/ Goto(h, "sum cash")
    BY <1>7 DEF InsertCash
  <2>2. CASE Goto(h, "sum cash")
    <3>1. handler[h].pc = "insert cash" /\ "amount" \in DOMAIN handler[h] /\ handler[h].amount \in Nat
      BY <1>0, <1>7 DEF InsertCash, SumsOK, AmountSteps
    <3>2. /\ handler'[h].pc = "sum cash" /\ DOMAIN handler'[h] = DOMAIN handler[h]
          /\ handler'[h].amount = handler[h].amount
      BY <1>0, <2>2, <3>1, Went
    <3> QED
      BY <3>1, <3>2 DEF SumsOK, AmountSteps
  <2> QED
    BY <1>1, <2>1, <2>2
<1>8. CASE ReadForCash(h)
  <2>1. handler[h].card \in Payments /\ Amount[handler[h].card] \in Nat
    BY <1>0, <1>8, SaleAssumption DEF ReadForCash, StateOK, CashSteps, Payments
  <2>2. order.due \in Nat
    <3>1. SumOf(Succeeded) \in Nat /\ Total \in Nat
      BY <1>0, SumNatural, SaleAssumption DEF Succeeded
    <3> QED
      BY <1>0, <3>1 DEF DueAgrees, DueFor
  <2>3. Done(h) \/ \E n \in Nat : Become(h, [pc |-> "insert cash", card |-> handler[h].card,
                                            amount |-> n])
    BY <1>8, <2>1, <2>2 DEF ReadForCash
  <2>4. ASSUME NEW n \in Nat,
               Become(h, [pc |-> "insert cash", card |-> handler[h].card, amount |-> n])
        PROVE  SumsOK(handler[h])'
    <3>1. PICK s : s = [pc |-> "insert cash", card |-> handler[h].card, amount |-> n]
      OBVIOUS
    <3>2. s.pc = "insert cash" /\ "amount" \in DOMAIN s /\ s.amount = n
      BY <3>1
    <3>3. handler'[h] = s
      BY <1>0, <2>4, <3>1, Became
    <3> QED
      BY <3>2, <3>3 DEF SumsOK, AmountSteps
  <2> QED
    BY <1>1, <2>3, <2>4
<1>9. CASE ReadForCancel(h)
  <2>1. \/ Done(h)
        \/ \E pc \in {"cancel order", "keep paid"} : \E open : Become(h, [pc |-> pc, open |-> open])
    BY <1>9 DEF ReadForCancel
  <2>2. ASSUME NEW pc \in {"cancel order", "keep paid"}, NEW open, Become(h, [pc |-> pc, open |-> open])
        PROVE  SumsOK(handler[h])'
    <3>1. PICK s : s = [pc |-> pc, open |-> open]
      OBVIOUS
    <3>4. s.pc = pc
      BY <3>1
    <3>5. handler'[h] = s
      BY <1>0, <2>2, <3>1, Became
    <3>2. handler'[h].pc = pc
      BY <3>4, <3>5
    <3>3. pc \notin AmountSteps \cup SumSteps
      BY DEF AmountSteps, SumSteps
    <3> QED
      BY <3>2, <3>3, SumsNone
  <2> QED
    BY <1>1, <2>1, <2>2
<1>10. CASE CancelPayment(h)
  <2>1. Done(h) \/ handler'[h].pc = "cancel payments"
    BY <1>0, <1>10 DEF CancelPayment, HandlersOK, StateOK
  <2>2. "cancel payments" \notin AmountSteps \cup SumSteps
    BY DEF AmountSteps, SumSteps
  <2> QED
    BY <1>1, <2>1, <2>2, SumsNone
<1> QED
  BY <1>3, <1>4, <1>5, <1>6, <1>7, <1>8, <1>9, <1>10 DEF Proceed

LEMMA SumsKept ==
  ASSUME MoneyInv, OneHandler, [Next]_vars
  PROVE  (\A h \in Handlers : SumsOK(handler[h]))'
<1>0. HandlersOK
  BY DEF MoneyInv, SoloInv, IInv
<1>1. ASSUME NEW h \in Handlers, SumsOK(handler[h])'
      PROVE  (\A g \in Handlers : SumsOK(handler[g]))'
  BY <1>1 DEF OneHandler
<1>2. ASSUME NEW h \in Handlers, Proceed(h) PROVE SumsOK(handler[h])'
  BY <1>2, SumsAfter
<1>3. ASSUME NEW h \in Handlers, Crash(h) PROVE SumsOK(handler[h])'
  BY <1>0, <1>3, SumsIdle DEF Crash
<1>4. ASSUME NEW h \in Handlers, Call(h) \/ \E e \in events : Deliver(h, e)
      PROVE  SumsOK(handler[h])'
  <2>1. handler'[h].pc \in {"intent", "apply", "finalize", "cancel", "cash", "webhook"}
    BY <1>0, <1>4 DEF Call, CallIntent, CallVerify, CallFinalize, CallCancel, CallCash, Request,
                      Deliver, Become, HandlersOK
  <2> QED
    BY <2>1, SumsNone DEF AmountSteps, SumSteps
<1>5. ASSUME UNCHANGED vars \/ \E c \in Cards : CustomerPays(c) \/ IntentExpires(c)
      PROVE  UNCHANGED <<pay, handler>>
  BY <1>5 DEF vars, rowVars, CustomerPays, IntentExpires, StripeMoves
<1>6. UNCHANGED <<pay, handler>> => (\A h \in Handlers : SumsOK(handler[h]))'
  BY SumsOther DEF OneHandler
<1> QED
  BY <1>1, <1>2, <1>3, <1>4, <1>5, <1>6 DEF Next

LEMMA MoneyInitOK == Init => MoneyInv
<1> SUFFICES ASSUME Init PROVE MoneyInv
  OBVIOUS
<1>1. SoloInv
  BY SoloInitOK
<1>2. AmountsOK
  BY SaleAssumption DEF Init, AmountsOK
<1>3. Succeeded = {}
  BY DEF Init, Succeeded
<1>4. SumOf({}) = 0
  BY FS_EmptySet, SumNothing DEF SumOf
<1>5. Total \in Nat \ {0}
  BY SaleAssumption
<1>6. DueAgrees
  BY <1>3, <1>4, <1>5 DEF Init, DueAgrees, DueFor
<1>7. ClosedIsPaid
  BY DEF Init, ClosedIsPaid
<1>8. \A h \in Handlers : SumsOK(handler[h])
  BY DEF Init, SumsOK, Idle, AmountSteps
<1> QED
  BY <1>1, <1>2, <1>6, <1>7, <1>8 DEF MoneyInv

THEOREM MoneyInvariance == ASSUME OneHandler PROVE Spec => []MoneyInv
<1>1. MoneyInv /\ [Next]_vars => MoneyInv'
  <2> SUFFICES ASSUME MoneyInv, [Next]_vars PROVE MoneyInv'
    OBVIOUS
  <2>1. SoloInv'
    BY SoloKept DEF MoneyInv
  <2> QED
    BY <2>1, AmountsStay, DueKept, SumsKept DEF MoneyInv
<1> QED
  BY <1>1, MoneyInitOK, PTL DEF Spec

(* recalculateTotals: while requests come one at a time, the balance on the  *)
(* order is what the recorded payments leave to pay, after every update.     *)
THEOREM BalanceIsRight == ASSUME OneHandler PROVE Spec => []DueAgrees
<1>1. MoneyInv => DueAgrees
  BY DEF MoneyInv
<1> QED
  BY <1>1, MoneyInvariance, PTL

(* finalizeStripeSale: then a closed sale is paid, and stays paid.           *)
THEOREM NothingOwedOnceClosed == ASSUME OneHandler PROVE Spec => []ClosedIsPaid
<1>1. MoneyInv => ClosedIsPaid
  BY DEF MoneyInv
<1> QED
  BY <1>1, MoneyInvariance, PTL

-----------------------------------------------------------------------------
(* The stock of the lines.  With two lines of one level and quantity, or a   *)
(* recipe and two handlers, a line is taken twice or not at all.             *)

Positions == 1 .. Len(Lines)
Tracked == {i \in Positions : ~Lines[i].recipe}
KeysAt(U) == {Key(Lines[i]) : i \in U \cap Tracked}

DistinctLines == \A i, j \in Tracked : Key(Lines[i]) = Key(Lines[j]) => i = j

(* What the fold over the lines works on.                                    *)
Stocks ==
  [shelf : [DOMAIN Shelf -> Int], keys : SUBSET KeysAt(Positions),
   taken : [Positions -> 0 .. 2], ok : BOOLEAN]
Start == [shelf |-> shelf, keys |-> stockKeys, taken |-> taken, ok |-> TRUE]

LEMMA LineTyped ==
  ASSUME NEW i \in Positions
  PROVE  /\ Lines[i].lv \in DOMAIN Shelf /\ Lines[i].qty \in Nat \ {0} /\ Lines[i].recipe \in BOOLEAN
         /\ i \in Tracked => Key(Lines[i]) \in KeysAt(Positions)
<1>1. Lines \in Seq([lv : DOMAIN Shelf, qty : Nat \ {0}, recipe : BOOLEAN])
  BY SaleAssumption
<1>2. Lines[i] \in [lv : DOMAIN Shelf, qty : Nat \ {0}, recipe : BOOLEAN]
  <2>1. PICK T : T = [lv : DOMAIN Shelf, qty : Nat \ {0}, recipe : BOOLEAN]
    OBVIOUS
  <2>2. Lines \in Seq(T)
    BY <1>1, <2>1
  <2>3. Lines[i] \in T
    BY <2>2 DEF Positions
  <2> QED BY <2>1, <2>3
<1>3. i \in Tracked => Key(Lines[i]) \in KeysAt(Positions)
  BY DEF KeysAt, Tracked
<1> QED BY <1>2, <1>3

LEMMA TakeTyped ==
  ASSUME NEW s \in Stocks, NEW i \in Positions
  PROVE  TakeLine(s, i) \in Stocks
<1> DEFINE line == Lines[i]
           replay == ~line.recipe /\ Key(line) \in s.keys
<1>1. /\ s.shelf \in [DOMAIN Shelf -> Int] /\ s.taken \in [Positions -> 0 .. 2]
      /\ s.keys \in SUBSET KeysAt(Positions)
      /\ line.lv \in DOMAIN Shelf /\ line.qty \in Nat
      /\ ~line.recipe => Key(line) \in KeysAt(Positions)
  BY LineTyped DEF Stocks, Tracked
<1>2. [s.shelf EXCEPT ![line.lv] = @ - line.qty] \in [DOMAIN Shelf -> Int]
  BY <1>1
<1>3. [s.taken EXCEPT ![i] = Again(@)] \in [Positions -> 0 .. 2]
  BY <1>1 DEF Again
<1>4. (IF line.recipe THEN s.keys ELSE s.keys \cup {Key(line)}) \in SUBSET KeysAt(Positions)
  BY <1>1
<1>5. CASE Short(line, s.shelf) /\ ~(replay /\ i = 1)
  <2>1. TakeLine(s, i) = [s EXCEPT !.ok = FALSE]
    BY <1>5 DEF TakeLine
  <2> QED BY <2>1 DEF Stocks
<1>6. CASE ~(Short(line, s.shelf) /\ ~(replay /\ i = 1)) /\ replay
  <2>1. TakeLine(s, i) = s
    BY <1>6 DEF TakeLine
  <2> QED BY <2>1
<1>7. CASE ~(Short(line, s.shelf) /\ ~(replay /\ i = 1)) /\ ~replay
  <2>1. TakeLine(s, i) = [s EXCEPT !.shelf[line.lv] = @ - line.qty, !.taken[i] = Again(@),
                                   !.keys = IF line.recipe THEN @ ELSE @ \cup {Key(line)}]
    BY <1>7 DEF TakeLine
  <2> HIDE DEF line, replay
  <2>2. TakeLine(s, i) = [shelf |-> [s.shelf EXCEPT ![line.lv] = @ - line.qty],
                          keys |-> IF line.recipe THEN s.keys ELSE s.keys \cup {Key(line)},
                          taken |-> [s.taken EXCEPT ![i] = Again(@)], ok |-> s.ok]
    BY <2>1 DEF Stocks
  <2> QED BY <1>2, <1>3, <1>4, <2>2 DEF Stocks
<1> QED BY <1>5, <1>6, <1>7

(* What one line does: refuse, replay, or take.                              *)
LEMMA TakeOk ==
  ASSUME NEW s \in Stocks, NEW i \in Positions, TakeLine(s, i).ok
  PROVE  s.ok
<1>1. TakeLine(s, i).ok = FALSE \/ TakeLine(s, i).ok = s.ok
  BY DEF TakeLine, Stocks
<1> QED BY <1>1

LEMMA TakeNew ==
  ASSUME NEW s \in Stocks, NEW i \in Positions, TakeLine(s, i).ok,
         i \in Tracked => Key(Lines[i]) \notin s.keys
  PROVE  /\ TakeLine(s, i).keys = IF Lines[i].recipe THEN s.keys ELSE s.keys \cup {Key(Lines[i])}
         /\ TakeLine(s, i).taken = [s.taken EXCEPT ![i] = Again(@)]
BY DEF TakeLine, Stocks, Tracked

LEMMA TakeAgain ==
  ASSUME NEW s \in Stocks, NEW i \in Tracked, Key(Lines[i]) \in s.keys
  PROVE  TakeLine(s, i).keys = s.keys /\ TakeLine(s, i).taken = s.taken
BY DEF TakeLine, Stocks, Tracked

(* The function the fold is computed by.                                     *)
Orderly == [i \in Positions |-> i]
TakingBody(g, b, V) == IF V = {} THEN b ELSE TakeLine(g[V \ {Greatest(V)}], Orderly[Greatest(V)])
IsTaking(g, b) == g = [V \in SUBSET Positions |-> TakingBody(g, b, V)]
Taking(b) == CHOOSE g : IsTaking(g, b)

LEMMA StockIsTaking ==
  StockAfter = Taking(Start)[Positions] /\ StockAfter' = Taking(Start')[Positions]
<1> USE DEF StockAfter, FoldLeft, MapThenFoldSet, Taking, IsTaking, TakingBody, Orderly, Greatest, Max, Start,
            Positions
<1>1. StockAfter = Taking(Start)[Positions]
  OBVIOUS
<1>2. StockAfter' = Taking(Start')[Positions]
  OBVIOUS
<1> QED BY <1>1, <1>2

LEMMA PositionsFinite ==
  /\ IsFiniteSet(Positions) /\ Positions \in SUBSET Int
  /\ \A V \in SUBSET Positions :
       V # {} => Greatest(V) \in V /\ V \ {Greatest(V)} \in SUBSET Positions
<1>1. Len(Lines) \in Nat
  BY SaleAssumption
<1>2. IsFiniteSet(Positions) /\ Positions \in SUBSET Int
  BY <1>1, FS_Interval DEF Positions
<1>3. ASSUME NEW V \in SUBSET Positions, V # {}
      PROVE  Greatest(V) \in V
  <2>1. IsFiniteSet(V) /\ V \in SUBSET Int
    BY <1>2, FS_Subset
  <2> QED BY <1>3, <2>1, GreatestIn
<1> QED BY <1>2, <1>3

LEMMA FoldTyped ==
  ASSUME NEW b \in Stocks, NEW g, g[{}] = b,
         \A V \in SUBSET Positions : V # {} /\ g[V \ {Greatest(V)}] \in Stocks =>
           g[V] = TakeLine(g[V \ {Greatest(V)}], Greatest(V))
  PROVE  \A V \in SUBSET Positions : g[V] \in Stocks
<1> DEFINE T == {V \in SUBSET Positions : g[V] \in Stocks}
<1>1. ASSUME NEW U \in SUBSET Positions, \A V \in SUBSET U : V # U => V \in T
      PROVE  U \in T
  <2>1. CASE U = {}
    BY <2>1
  <2>2. CASE U # {}
    <3>1. PICK W, i : W = U \ {Greatest(U)} /\ i = Greatest(U)
      OBVIOUS
    <3>2. i \in U /\ W \in SUBSET U /\ W # U
      BY <2>2, <3>1, PositionsFinite
    <3>3. g[W] \in Stocks
      BY <1>1, <3>2
    <3>4. g[U] = TakeLine(g[W], i)
      BY <2>2, <3>1, <3>3
    <3> QED BY <3>2, <3>3, <3>4, TakeTyped
  <2> QED BY <2>1, <2>2
<1>2. SUBSET Positions \subseteq T
  <2> HIDE DEF T
  <2> QED BY <1>1, PositionsFinite, SubsetInduction
<1> QED BY <1>2

LEMMA TakingIs ==
  ASSUME NEW b \in Stocks
  PROVE  IsTaking(Taking(b), b)
<1> DEFINE F == [i \in Positions |-> [s \in Stocks |-> TakeLine(s, i)]]
<1>1. PICK f : f = Left(F, b, Positions)
  OBVIOUS
<1>2. IsLeft(f, F, b, Positions)
  BY <1>1, PositionsFinite, LeftExists
<1>3. \A V \in SUBSET Positions : f[V] = LeftBody(f, F, b, V)
  <2> HIDE DEF F
  <2> QED BY <1>2, LeftStep
<1>4. f[{}] = b
  BY <1>3 DEF LeftBody
<1>5. ASSUME NEW V \in SUBSET Positions, V # {}, f[V \ {Greatest(V)}] \in Stocks
      PROVE  f[V] = TakeLine(f[V \ {Greatest(V)}], Greatest(V))
  <2>1. PICK W, i : W = V \ {Greatest(V)} /\ i = Greatest(V)
    OBVIOUS
  <2>2. f[V] = F[i][f[W]]
    BY <1>3, <1>5, <2>1 DEF LeftBody
  <2>3. i \in Positions /\ f[W] \in Stocks
    BY <1>5, <2>1, PositionsFinite
  <2> QED BY <2>1, <2>2, <2>3
<1>6. \A V \in SUBSET Positions : f[V] \in Stocks
  BY <1>4, <1>5, FoldTyped
<1>7. \A V \in SUBSET Positions : f[V] = TakingBody(f, b, V)
  BY <1>4, <1>5, <1>6, PositionsFinite DEF TakingBody, Orderly
<1>8. f = [V \in SUBSET Positions |-> f[V]]
  <2> HIDE DEF F
  <2> QED BY <1>2 DEF IsLeft
<1>9. IsTaking(f, b)
  BY <1>7, <1>8 DEF IsTaking
<1> QED BY <1>9, Zenon DEF Taking

(* The fold as a function on sets of positions.                              *)
LEMMA TakingIsFold ==
  ASSUME NEW b \in Stocks
  PROVE  \E g : /\ g[{}] = b /\ Taking(b)[Positions] = g[Positions]
                /\ \A V \in SUBSET Positions :
                     /\ g[V] \in Stocks
                     /\ V # {} => g[V] = TakeLine(g[V \ {Greatest(V)}], Greatest(V))
<1>1. PICK g : g = Taking(b)
  OBVIOUS
<1>2. \A V \in SUBSET Positions : g[V] = TakingBody(g, b, V)
  BY <1>1, TakingIs DEF IsTaking
<1>3. g[{}] = b
  BY <1>2 DEF TakingBody
<1>4. \A V \in SUBSET Positions :
        V # {} => g[V] = TakeLine(g[V \ {Greatest(V)}], Greatest(V))
  BY <1>2, PositionsFinite DEF TakingBody, Orderly
<1>5. \A V \in SUBSET Positions : g[V] \in Stocks
  BY <1>3, <1>4, FoldTyped
<1> QED BY <1>1, <1>3, <1>4, <1>5

AllKeys == KeysAt(Positions)

(* A fold that succeeds takes every line once from a start where none is     *)
(* taken ...                                                                 *)
LEMMA FoldTakes ==
  ASSUME DistinctLines, NEW b \in Stocks, b.keys = {}, \A i \in Positions : b.taken[i] = 0,
         Taking(b)[Positions].ok
  PROVE  /\ Taking(b)[Positions] \in Stocks /\ Taking(b)[Positions].keys = AllKeys
         /\ \A i \in Positions : Taking(b)[Positions].taken[i] = 1
<1>1. PICK g : /\ g[{}] = b /\ Taking(b)[Positions] = g[Positions]
               /\ \A V \in SUBSET Positions :
                    /\ g[V] \in Stocks
                    /\ V # {} => g[V] = TakeLine(g[V \ {Greatest(V)}], Greatest(V))
  BY TakingIsFold
<1> DEFINE P(V) == g[V].ok => /\ g[V].keys = KeysAt(V)
                              /\ \A i \in Positions : g[V].taken[i] = IF i \in V THEN 1 ELSE 0
           T == {V \in SUBSET Positions : P(V)}
<1>2. ASSUME NEW U \in SUBSET Positions, \A V \in SUBSET U : V # U => V \in T
      PROVE  U \in T
  <2>1. CASE U = {}
    BY <1>1, <2>1 DEF KeysAt
  <2>2. CASE U # {}
    <3>1. PICK W, i : W = U \ {Greatest(U)} /\ i = Greatest(U)
      OBVIOUS
    <3>2. i \in U /\ W \in SUBSET U /\ W # U /\ i \notin W /\ U = W \cup {i}
      BY <2>2, <3>1, PositionsFinite
    <3>3. P(W) /\ g[W] \in Stocks /\ g[U] = TakeLine(g[W], i) /\ i \in Positions
      BY <1>1, <1>2, <2>2, <3>1, <3>2
    <3>4. PICK s, u : s = g[W] /\ u = g[U]
      OBVIOUS
    <3>5. SUFFICES ASSUME u.ok
                   PROVE  u.keys = KeysAt(U) /\ \A j \in Positions : u.taken[j] = IF j \in U THEN 1 ELSE 0
      BY <3>4
    <3>6. s.ok /\ s \in Stocks /\ u = TakeLine(s, i)
      <4>1. s \in Stocks /\ u = TakeLine(s, i)
        BY <3>3, <3>4
      <4>2. i \in Positions /\ TakeLine(s, i).ok
        BY <3>3, <3>5, <4>1
      <4>3. s.ok
        BY <4>1, <4>2, TakeOk
      <4> QED BY <4>1, <4>3
    <3>7. s.keys = KeysAt(W) /\ \A j \in Positions : s.taken[j] = IF j \in W THEN 1 ELSE 0
      BY <3>3, <3>4, <3>6
    <3>8. i \in Tracked => Key(Lines[i]) \notin s.keys
      BY <3>2, <3>3, <3>7 DEF KeysAt, DistinctLines
    <3>9. /\ u.keys = IF Lines[i].recipe THEN s.keys ELSE s.keys \cup {Key(Lines[i])}
          /\ u.taken = [s.taken EXCEPT ![i] = Again(@)]
      BY <3>3, <3>5, <3>6, <3>8, TakeNew
    <3>10. u.keys = KeysAt(U)
      BY <3>2, <3>3, <3>7, <3>9 DEF KeysAt, Tracked
    <3>11. s.taken \in [Positions -> 0 .. 2] /\ s.taken[i] = 0
      BY <3>2, <3>3, <3>6, <3>7 DEF Stocks
    <3>12. \A j \in Positions : u.taken[j] = IF j \in U THEN 1 ELSE 0
      BY <3>2, <3>7, <3>9, <3>11 DEF Again
    <3> QED BY <3>10, <3>12
  <2> QED BY <2>1, <2>2
<1>3. SUBSET Positions \subseteq T
  <2> HIDE DEF T
  <2> QED BY <1>2, PositionsFinite, SubsetInduction
<1>4. P(Positions)
  BY <1>3
<1> QED BY <1>1, <1>4 DEF AllKeys

(* ... and changes nothing where all are, unless one is a recipe.            *)
LEMMA FoldReplays ==
  ASSUME NEW b \in Stocks, b.keys = AllKeys, Tracked = Positions
  PROVE  /\ Taking(b)[Positions] \in Stocks
         /\ Taking(b)[Positions].keys = b.keys /\ Taking(b)[Positions].taken = b.taken
<1>1. PICK g : /\ g[{}] = b /\ Taking(b)[Positions] = g[Positions]
               /\ \A V \in SUBSET Positions :
                    /\ g[V] \in Stocks
                    /\ V # {} => g[V] = TakeLine(g[V \ {Greatest(V)}], Greatest(V))
  BY TakingIsFold
<1> DEFINE T == {V \in SUBSET Positions : g[V].keys = b.keys /\ g[V].taken = b.taken}
<1>2. ASSUME NEW U \in SUBSET Positions, \A V \in SUBSET U : V # U => V \in T
      PROVE  U \in T
  <2>1. CASE U = {}
    BY <1>1, <2>1
  <2>2. CASE U # {}
    <3>1. PICK W, i : W = U \ {Greatest(U)} /\ i = Greatest(U)
      OBVIOUS
    <3>2. i \in Positions /\ W \in SUBSET U /\ W # U
      BY <2>2, <3>1, PositionsFinite
    <3>3. PICK s, u : s = g[W] /\ u = g[U]
      OBVIOUS
    <3>4. s \in Stocks /\ u = TakeLine(s, i) /\ s.keys = b.keys /\ s.taken = b.taken
      BY <1>1, <1>2, <2>2, <3>1, <3>2, <3>3
    <3>5. i \in Tracked /\ Key(Lines[i]) \in s.keys
      BY <3>2, <3>4 DEF AllKeys, KeysAt
    <3>6. u.keys = s.keys /\ u.taken = s.taken
      BY <3>2, <3>4, <3>5, TakeAgain
    <3> QED BY <3>3, <3>4, <3>6
  <2> QED BY <2>1, <2>2
<1>3. SUBSET Positions \subseteq T
  <2> HIDE DEF T
  <2> QED BY <1>2, PositionsFinite, SubsetInduction
<1> QED BY <1>1, <1>3

-----------------------------------------------------------------------------
(* The inductive invariant about the stock of the sale.  Whoever is past the *)
(* lines holds the lock of their levels, so that they are still there.       *)

NoneTaken == stockKeys = {} /\ \A i \in Positions : taken[i] = 0
AllTaken == stockKeys = AllKeys /\ \A i \in Positions : taken[i] = 1
Taker == {"final sum", "close"}

Served ==
  /\ Start \in Stocks
  /\ NoneTaken \/ AllTaken
  /\ DOMAIN order = {"status", "awaiting", "due"}
  /\ order.status = "closed" => AllTaken
Takers == \A h \in Handlers : handler[h].pc \in Taker => stockLock = h /\ StockAfter.ok
ServeInv == IInv /\ Served /\ Takers

ServesOnce == DistinctLines /\ (OneHandler \/ Tracked = Positions)

LEMMA StockStays ==
  ASSUME UNCHANGED <<shelf, stockKeys, taken>>
  PROVE  StockAfter' = StockAfter /\ Start' = Start
<1>1. Start' = Start
  BY DEF Start
<1> QED BY <1>1, StockIsTaking

(* A step that takes nothing.                                                *)
LEMMA ServedStays ==
  ASSUME ServeInv, UNCHANGED <<shelf, stockKeys, taken>>,
         DOMAIN order' = DOMAIN order, order'.status = "closed" => order.status = "closed"
  PROVE  Served'
<1>1. Start' = Start
  BY StockStays
<1> QED BY <1>1 DEF ServeInv, Served, NoneTaken, AllTaken

LEMMA TakersStay ==
  ASSUME ServeInv, UNCHANGED <<shelf, stockKeys, taken>>, NEW h \in Handlers,
         \A g \in Handlers \ {h} : handler'[g] = handler[g],
         handler'[h].pc \notin Taker,
         stockLock' = stockLock \/ stockLock = h
  PROVE  Takers'
<1>1. StockAfter' = StockAfter
  BY StockStays
<1> QED BY <1>1 DEF ServeInv, Takers

(* Most steps end or go on elsewhere.                                        *)
LEMMA GoesElsewhere ==
  ASSUME HandlersOK, NEW h \in Handlers, Proceed(h), ~TakeStock(h), ~FinalSum(h), ~CloseSale(h)
  PROVE  /\ \A g \in Handlers \ {h} : handler'[g] = handler[g]
         /\ handler'[h].pc \notin Taker
         /\ UNCHANGED <<shelf, stockKeys, taken, stockLock>>
<1> DEFINE Away == (\A g \in Handlers \ {h} : handler'[g] = handler[g]) /\ handler'[h].pc \notin Taker
<1>1. UNCHANGED <<shelf, stockKeys, taken, stockLock>>
  BY DEF Proceed, CreateIntent, RecordIntent, ReadPayment, WritePayment, SumPayments, CommitPayment,
         FindEvent, AfterApply, RecordEvent, ReadAwaiting, LookAtFirst, ReadForCancel, KeepPaidPart,
         CancelOrder, CancelPayment, ReadForCash, InsertCash, SumCash, CommitCash, Local, rowVars, lockVars
<1> SUFFICES Away
  BY <1>1
<1>2. ASSUME NEW pc, Goto(h, pc), pc \notin Taker PROVE Away
  BY <1>2, Went
<1>3. ASSUME NEW s, Become(h, s), s.pc \notin Taker PROVE Away
  BY <1>3, Became
<1>4. ASSUME Done(h) PROVE Away
  <2>1. Idle.pc \notin Taker
    BY DEF Idle, Taker
  <2> QED BY <1>3, <1>4, <2>1 DEF Done
<1> HIDE DEF Away
<1>5. CASE CreateIntent(h) \/ RecordIntent(h) \/ ReadPayment(h) \/ WritePayment(h) \/ CommitPayment(h)
           \/ FindEvent(h) \/ AfterApply(h) \/ RecordEvent(h) \/ ReadAwaiting(h) \/ LookAtFirst(h)
           \/ KeepPaidPart(h) \/ CancelOrder(h) \/ InsertCash(h) \/ CommitCash(h)
  <2>1. CASE CreateIntent(h) \/ RecordIntent(h) \/ WritePayment(h) \/ CommitPayment(h) \/ FindEvent(h)
             \/ RecordEvent(h) \/ KeepPaidPart(h) \/ CancelOrder(h) \/ InsertCash(h) \/ CommitCash(h)
    <3>1. \/ Done(h)
          \/ \E pc \in {"intent row", "applied", "sum", "apply", "cancel payments", "sum cash"} : Goto(h, pc)
      BY <2>1 DEF CreateIntent, RecordIntent, WritePayment, CommitPayment, FindEvent, RecordEvent,
                  KeepPaidPart, CancelOrder, InsertCash, CommitCash
    <3> QED BY <1>2, <1>4, <3>1 DEF Taker
  <2>2. CASE ReadPayment(h) \/ AfterApply(h) \/ ReadAwaiting(h) \/ LookAtFirst(h)
    <3>1. \/ Done(h)
          \/ Goto(h, "applied") \/ Goto(h, "write")
          \/ \E pc \in {"finalize", "record", "look", "stock"} : Goto(h, pc)
      <4>1. ReadPayment(h) => Goto(h, "applied") \/ Goto(h, "write")
        BY DEF ReadPayment
      <4>2. AfterApply(h) \/ ReadAwaiting(h) \/ LookAtFirst(h) =>
              Done(h) \/ \E pc \in {"finalize", "record", "look", "stock"} : Goto(h, pc)
        BY DEF AfterApply, ReadAwaiting, AfterFinalize, LookAtFirst
      <4> QED BY <2>2, <4>1, <4>2
    <3> QED BY <1>2, <1>4, <3>1 DEF Taker
  <2> QED BY <1>5, <2>1, <2>2
<1>6. CASE SumPayments(h) \/ SumCash(h)
  <2>1. SumPayments(h) => handler'[h].pc = "commit" /\ \A g \in Handlers \ {h} : handler'[g] = handler[g]
    BY DEF SumPayments, HandlersOK
  <2>2. ASSUME SumCash(h) PROVE Away
    <3>1. PICK s : s = [pc |-> "commit cash", card |-> handler[h].card, amount |-> handler[h].amount,
                        sum |-> SumOf(Succeeded) + handler[h].amount]
      OBVIOUS
    <3>2. Become(h, s)
      BY <2>2, <3>1 DEF SumCash, Become
    <3>3. s.pc \notin Taker
      BY <3>1 DEF Taker
    <3> QED BY <1>3, <3>2, <3>3
  <2> QED BY <1>6, <2>1, <2>2 DEF Taker, Away
<1>7. CASE ReadForCancel(h)
  <2>1. PICK s, pc : /\ pc = IF Succeeded = {} THEN "cancel order" ELSE "keep paid"
                     /\ s = [pc |-> pc, open |-> {p \in Payments : pay[p].status \in Pending}]
    OBVIOUS
  <2>2. s.pc \notin Taker
    BY <2>1 DEF Taker
  <2>3. Done(h) \/ Become(h, s)
    BY <1>7, <2>1 DEF ReadForCancel
  <2> QED BY <1>3, <1>4, <2>2, <2>3
<1>8. CASE ReadForCash(h)
  <2>1. PICK s : s = [pc |-> "insert cash", card |-> handler[h].card,
                      amount |-> IF Amount[handler[h].card] > order.due THEN order.due
                                 ELSE Amount[handler[h].card]]
    OBVIOUS
  <2>2. s.pc \notin Taker
    BY <2>1 DEF Taker
  <2>3. Done(h) \/ Become(h, s)
    BY <1>8, <2>1 DEF ReadForCash
  <2> QED BY <1>3, <1>4, <2>2, <2>3
<1>9. CASE CancelPayment(h)
  <2>1. ASSUME NEW p, handler' = [handler EXCEPT ![h].open = @ \ {p}], handler[h].pc = "cancel payments"
        PROVE  Away
    <3>1. PICK s : s = [handler[h] EXCEPT !.open = @ \ {p}]
      OBVIOUS
    <3>2. s.pc = "cancel payments"
      BY <2>1, <3>1 DEF HandlersOK, StateOK
    <3>3. Become(h, s)
      BY <2>1, <3>1 DEF Become
    <3> QED BY <1>3, <3>2, <3>3 DEF Taker
  <2> QED BY <1>4, <1>9, <2>1 DEF CancelPayment, At
<1> QED BY <1>5, <1>6, <1>7, <1>8, <1>9 DEF Proceed

LEMMA NotClosed ==
  ASSUME NEW h \in Handlers, Proceed(h), ~CloseSale(h), DOMAIN order = {"status", "awaiting", "due"}
  PROVE  DOMAIN order' = DOMAIN order /\ (order'.status = "closed" => order.status = "closed")
<1>1. CASE UNCHANGED order
  BY <1>1
<1>2. CASE CommitPayment(h) \/ CommitCash(h)
  <2>1. \E due : order' = [order EXCEPT !.due = due]
    BY <1>2 DEF CommitPayment, CommitCash
  <2> QED BY <2>1
<1>3. CASE KeepPaidPart(h)
  <2>1. \E due : order' = [status |-> "confirmed", awaiting |-> FALSE, due |-> due]
    BY <1>3 DEF KeepPaidPart
  <2> QED BY <2>1
<1>4. CASE CancelOrder(h)
  <2>1. order' = [order EXCEPT !.status = "cancelled", !.awaiting = FALSE]
    BY <1>4 DEF CancelOrder
  <2> QED BY <2>1
<1> QED
  BY <1>1, <1>2, <1>3, <1>4 DEF Proceed, CreateIntent, RecordIntent, ReadPayment, WritePayment, SumPayments,
     FindEvent, AfterApply, RecordEvent, ReadAwaiting, LookAtFirst, TakeStock, FinalSum, ReadForCancel,
     CancelPayment, ReadForCash, InsertCash, SumCash, Local, rowVars

LEMMA TakesStock ==
  ASSUME ServeInv, NEW h \in Handlers, TakeStock(h)
  PROVE  Served' /\ Takers'
<1>1. /\ UNCHANGED <<shelf, stockKeys, taken, order>> /\ stockLock = Free
      /\ \/ StockAfter.ok /\ stockLock' = h /\ Goto(h, "final sum")
         \/ stockLock' = stockLock /\ Done(h)
  BY DEF TakeStock, rowVars
<1>2. HandlersOK /\ Free \notin Handlers
  BY SaleAssumption DEF ServeInv, IInv
<1>3. Served'
  BY <1>1, ServedStays
<1>4. CASE stockLock' = stockLock /\ Done(h)
  <2>1. (\A g \in Handlers \ {h} : handler'[g] = handler[g]) /\ handler'[h].pc \notin Taker
    <3>1. Idle.pc \notin Taker
      BY DEF Idle, Taker
    <3> QED BY <1>2, <1>4, <3>1, Became DEF Done
  <2> QED BY <1>1, <1>3, <1>4, <2>1, TakersStay
<1>5. CASE StockAfter.ok /\ stockLock' = h /\ Goto(h, "final sum")
  <2>1. \A g \in Handlers \ {h} : handler'[g] = handler[g] /\ handler[g].pc \notin Taker
    BY <1>1, <1>2, <1>5, Went DEF ServeInv, Takers
  <2>2. StockAfter'.ok
    BY <1>1, <1>5, StockStays
  <2> QED BY <1>3, <1>5, <2>1, <2>2 DEF Takers
<1> QED BY <1>1, <1>4, <1>5

LEMMA SumsFinally ==
  ASSUME ServeInv, NEW h \in Handlers, FinalSum(h)
  PROVE  Served' /\ Takers'
<1>1. UNCHANGED <<shelf, stockKeys, taken, order, stockLock>> /\ handler[h].pc \in Taker
  BY DEF FinalSum, Local, rowVars, lockVars, At, Taker
<1>2. Served'
  BY <1>1, ServedStays
<1>3. \A g \in Handlers \ {h} : handler'[g] = handler[g]
  BY DEF ServeInv, IInv, HandlersOK, FinalSum
<1>4. StockAfter' = StockAfter
  BY <1>1, StockStays
<1>5. Takers'
  BY <1>1, <1>3, <1>4 DEF ServeInv, Takers
<1> QED BY <1>2, <1>5

LEMMA Closes ==
  ASSUME ServesOnce, ServeInv, OneHandler => SoloInv, NEW h \in Handlers, CloseSale(h)
  PROVE  Served' /\ Takers'
<1>1. /\ shelf' = StockAfter.shelf /\ stockKeys' = StockAfter.keys /\ taken' = StockAfter.taken
      /\ handler[h].pc = "close" /\ stockLock' = Free /\ AfterFinalize(h)
      /\ DOMAIN order' = {"status", "awaiting", "due"}
  BY DEF CloseSale, At
<1>2. HandlersOK /\ Start \in Stocks /\ StockAfter.ok /\ stockLock = h /\ (NoneTaken \/ AllTaken)
  BY <1>1 DEF ServeInv, IInv, Served, Takers, Taker
<1>3. StockAfter = Taking(Start)[Positions]
  BY StockIsTaking
<1>4. PICK b, s : b = Start /\ s = StockAfter
  OBVIOUS
<1>5. b \in Stocks /\ b.keys = stockKeys /\ b.taken = taken /\ s = Taking(b)[Positions]
  BY <1>2, <1>3, <1>4 DEF Start
<1>6. s \in Stocks /\ s.keys = AllKeys /\ \A i \in Positions : s.taken[i] = 1
  <2>1. CASE NoneTaken
    BY <1>2, <1>4, <1>5, <2>1, FoldTakes DEF NoneTaken, ServesOnce
  <2>2. CASE AllTaken /\ Tracked = Positions
    BY <1>5, <2>2, FoldReplays DEF AllTaken
  <2>3. CASE OneHandler /\ ~NoneTaken
    <3>1. order.awaiting
      BY <1>1, <2>3 DEF SoloInv, FreshOK, AwaitingSteps
    <3>2. \A i \in DOMAIN taken : taken[i] = 0
      BY <2>3, <3>1 DEF SoloInv, OrderOK
    <3>3. 1 \in Positions
      BY SaleAssumption DEF Positions
    <3>4. DOMAIN taken = Positions
      BY <1>2 DEF Start, Stocks
    <3> QED BY <1>2, <2>3, <3>2, <3>3, <3>4 DEF AllTaken
  <2> QED BY <1>2, <2>1, <2>2, <2>3 DEF ServesOnce
<1>7. AllTaken'
  BY <1>1, <1>4, <1>6 DEF AllTaken
<1>8. Start' \in Stocks
  BY <1>1, <1>4, <1>6 DEF Start, Stocks
<1>9. Served'
  BY <1>1, <1>7, <1>8 DEF Served
<1>10. \A g \in Handlers : handler'[g].pc \notin Taker
  <2>1. Done(h) \/ Goto(h, "record")
    BY <1>1 DEF AfterFinalize
  <2>2. Idle.pc \notin Taker /\ "record" \notin Taker
    BY DEF Idle, Taker
  <2>3. (\A g \in Handlers \ {h} : handler'[g] = handler[g]) /\ handler'[h].pc \notin Taker
    BY <1>2, <2>1, <2>2, Went, Became DEF Done
  <2> QED BY <1>2, <2>3 DEF ServeInv, Takers
<1> QED BY <1>9, <1>10 DEF Takers

LEMMA Enters ==
  ASSUME HandlersOK, NEW h \in Handlers, Call(h) \/ Crash(h) \/ \E e \in events : Deliver(h, e)
  PROVE  /\ \A g \in Handlers \ {h} : handler'[g] = handler[g]
         /\ handler'[h].pc \notin Taker
         /\ UNCHANGED <<shelf, stockKeys, taken, order>> /\ (stockLock' = stockLock \/ stockLock = h)
<1>1. UNCHANGED <<shelf, stockKeys, taken, order>> /\ (stockLock' = stockLock \/ stockLock = h)
  BY DEF Call, CallIntent, CallVerify, CallFinalize, CallCancel, CallCash, Request, Crash, Deliver, Local,
         rowVars, lockVars
<1> DEFINE Entered == (\A g \in Handlers \ {h} : handler'[g] = handler[g]) /\ handler'[h].pc \notin Taker
<1> SUFFICES Entered
  BY <1>1
<1>2. ASSUME NEW s, Become(h, s), s.pc \in {"intent", "apply", "finalize", "cancel", "cash", "idle", "webhook"}
      PROVE  Entered
  BY <1>2, Became DEF Taker
<1> HIDE DEF Entered
<1>3. CASE CallIntent(h)
  <2>1. PICK c \in Cards : Become(h, [pc |-> "intent", card |-> c])
    BY <1>3 DEF CallIntent, Request
  <2>2. PICK s : s = [pc |-> "intent", card |-> c]
    OBVIOUS
  <2> QED BY <1>2, <2>1, <2>2
<1>4. CASE CallVerify(h)
  <2>1. PICK s : Become(h, s) /\ \E c \in Cards : s = [pc |-> "apply", card |-> c, want |-> intent[c],
                                                      job |-> "verify", event |-> NoEvent]
    BY <1>4 DEF CallVerify, Request
  <2> QED BY <1>2, <2>1
<1>5. CASE CallFinalize(h)
  <2>1. PICK s : Become(h, s) /\ s = [pc |-> "finalize", job |-> "finalize", event |-> NoEvent]
    BY <1>5 DEF CallFinalize, Request
  <2> QED BY <1>2, <2>1
<1>6. CASE CallCancel(h)
  <2>1. PICK s : Become(h, s) /\ s = [pc |-> "cancel"]
    BY <1>6 DEF CallCancel, Request
  <2> QED BY <1>2, <2>1
<1>7. CASE CallCash(h)
  <2>1. PICK s : Become(h, s) /\ \E k \in Cash : s = [pc |-> "cash", card |-> k]
    BY <1>7 DEF CallCash, Request
  <2> QED BY <1>2, <2>1
<1>8. CASE Crash(h)
  <2>1. PICK s : Become(h, s) /\ s = [pc |-> "idle"]
    BY <1>8 DEF Crash, Done, Idle
  <2> QED BY <1>2, <2>1
<1>9. CASE \E e \in events : Deliver(h, e)
  <2>1. PICK s : Become(h, s) /\ \E e \in events : s = [pc |-> "webhook", card |-> e[1], want |-> e[2],
                                                       job |-> "webhook", event |-> e]
    BY <1>9 DEF Deliver
  <2> QED BY <1>2, <2>1
<1> QED BY <1>3, <1>4, <1>5, <1>6, <1>7, <1>8, <1>9 DEF Call

LEMMA ServeKept ==
  ASSUME ServesOnce, ServeInv, OneHandler => SoloInv, [Next]_vars
  PROVE  ServeInv'
<1>1. IInv'
  BY StepKept DEF ServeInv
<1>2. HandlersOK /\ DOMAIN order = {"status", "awaiting", "due"}
  BY DEF ServeInv, IInv, Served
<1>3. ASSUME UNCHANGED <<shelf, stockKeys, taken, order, handler, stockLock>> PROVE Served' /\ Takers'
  <2>1. Served'
    BY <1>3, ServedStays
  <2>2. StockAfter' = StockAfter
    BY <1>3, StockStays
  <2>3. Takers'
    BY <1>3, <2>2 DEF ServeInv, Takers
  <2> QED BY <2>1, <2>3
<1>4. ASSUME NEW h \in Handlers, Proceed(h) PROVE Served' /\ Takers'
  <2>1. CASE TakeStock(h) \/ FinalSum(h) \/ CloseSale(h)
    BY <2>1, TakesStock, SumsFinally, Closes
  <2>2. CASE ~TakeStock(h) /\ ~FinalSum(h) /\ ~CloseSale(h)
    <3>1. /\ \A g \in Handlers \ {h} : handler'[g] = handler[g]
          /\ handler'[h].pc \notin Taker
          /\ UNCHANGED <<shelf, stockKeys, taken, stockLock>>
      BY <1>2, <1>4, <2>2, GoesElsewhere
    <3>2. DOMAIN order' = DOMAIN order /\ (order'.status = "closed" => order.status = "closed")
      BY <1>2, <1>4, <2>2, NotClosed
    <3> QED BY <3>1, <3>2, ServedStays, TakersStay
  <2> QED BY <2>1, <2>2
<1>5. ASSUME NEW h \in Handlers, Call(h) \/ Crash(h) \/ \E e \in events : Deliver(h, e)
      PROVE  Served' /\ Takers'
  <2>1. /\ \A g \in Handlers \ {h} : handler'[g] = handler[g]
        /\ handler'[h].pc \notin Taker
        /\ UNCHANGED <<shelf, stockKeys, taken, order>> /\ (stockLock' = stockLock \/ stockLock = h)
    BY <1>2, <1>5, Enters
  <2> QED BY <2>1, ServedStays, TakersStay
<1>6. ASSUME UNCHANGED vars \/ \E c \in Cards : CustomerPays(c) \/ IntentExpires(c)
      PROVE  UNCHANGED <<shelf, stockKeys, taken, order, handler, stockLock>>
  BY <1>6 DEF vars, rowVars, lockVars, CustomerPays, IntentExpires, StripeMoves
<1>7. Served' /\ Takers'
  BY <1>3, <1>4, <1>5, <1>6 DEF Next
<1> QED BY <1>1, <1>7 DEF ServeInv

LEMMA InitServed == Init => ServeInv
<1> SUFFICES ASSUME Init PROVE ServeInv
  OBVIOUS
<1>1. IInv
  BY InitOK
<1>2. Takers
  BY DEF Init, Takers, Idle, Taker
<1>3. Start \in Stocks
  BY SaleAssumption DEF Init, Start, Stocks, Positions
<1>4. Served
  BY <1>3 DEF Init, Served, NoneTaken, Positions
<1> QED BY <1>1, <1>2, <1>4 DEF ServeInv

(* finalizeStripeSale: the stock of each line is taken once, and before the  *)
(* sale is closed, however many requests and deliveries finalize it at once. *)
(* The key of a line must be its own; the components of a recipe have none,  *)
(* so that they need requests that come one at a time.                       *)
THEOREM TakenOnce == ASSUME ServesOnce PROVE Spec => []StockOnce
<1>1. ServeInv => StockOnce
  BY DEF ServeInv, Served, NoneTaken, AllTaken, StockOnce, Start, Stocks
<1>2. Init => ServeInv /\ (OneHandler => SoloInv)
  BY InitServed, SoloInitOK
<1>3. ServeInv /\ (OneHandler => SoloInv) /\ [Next]_vars => (ServeInv /\ (OneHandler => SoloInv))'
  BY ServeKept, SoloKept DEF OneHandler
<1> QED BY <1>1, <1>2, <1>3, PTL DEF Spec
=============================================================================
