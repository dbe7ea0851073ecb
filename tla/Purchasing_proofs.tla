------------------------- MODULE Purchasing_proofs -------------------------
(***************************************************************************)
(* What Purchasing promises, for every set of orders, levels, receipts,    *)
(* returns, invoices, payments and handlers.                               *)
(*                                                                         *)
(* A handler compares the lines of an order with what it read, and writes  *)
(* later.  What it read is still so unless another handler worked on the   *)
(* order at the same time, and then both have it in raced: StateOK and     *)
(* RacedOK say this, and with them OrderAgrees is inductive.  On it stand  *)
(* two more layers: the goods (Booked) and what is owed (Payable).         *)
(***************************************************************************)
EXTENDS Purchasing, SumTheorems, TLAPS

Statuses == {"none", "draft", "ordered", "partial", "received", "cancelled"}
OrderSteps == {"status", "receive", "return"}

RowsOK ==
  /\ status \in [Pos -> Statuses]
  /\ received \in [Pos -> [Levels -> Int]]

(* A status that createPo or updatePo may still write. *)
Fit(p, next) ==
  \/ next = "draft" /\ status[p] = "none"
  \/ MayBecome(p, next)

(* What a handler of an order has read still holds, unless it was raced. *)
StateOK(s) ==
  /\ s.pc = "idle" => s.on = {}
  /\ s.pc \in OrderSteps => s.po \in Pos /\ Order(s.po) \in s.on
  /\ s.pc \in {"status", "receive"} => s.status \in Statuses
  /\ s.pc \in {"receive", "return"} => s.qty \in Batches
  /\ s.pc = "status" /\ Order(s.po) \notin raced => Fit(s.po, s.status)
  /\ s.pc \in {"receive", "return"} /\ Order(s.po) \notin raced => s.seen = received[s.po]

HandlersOK ==
  /\ DOMAIN handler = Handlers
  /\ \A h \in Handlers : StateOK(handler[h])

(* Two handlers that work on the same row know it. *)
RacedOK ==
  \A g, h \in Handlers : g # h => handler[g].on \cap handler[h].on \subseteq raced

(* OrderAgrees for one order. *)
Lines(p) == {l \in Levels : Ordered[p][l] > 0}
Full(p, q) == \A l \in Lines(p) : q[l] = Ordered[p][l]
Agrees(p) ==
  /\ \A l \in Levels : received[p][l] \in 0..Ordered[p][l]
  /\ status[p] = "received" <=> Full(p, received[p])
  /\ status[p] = "partial" <=> AnyReceived(received[p]) /\ ~Full(p, received[p])

OrdersOK == \A p \in Pos : Order(p) \notin raced => Agrees(p)

(* The inductive invariant. *)
IInv == RowsOK /\ HandlersOK /\ RacedOK /\ OrdersOK

-----------------------------------------------------------------------------

LEMMA Constants ==
  /\ \A p \in Pos, l \in Levels : Ordered[p][l] \in Nat
  /\ \A p \in Pos : \E l \in Levels : Ordered[p][l] > 0
  /\ \A q \in Batches : /\ q \in [Levels -> Nat]
                        /\ \E l \in Levels : q[l] > 0
BY PurchasingAssumption

LEMMA OrderInjective ==
  ASSUME NEW p, NEW q, Order(p) = Order(q)
  PROVE  p = q
BY DEF Order

LEMMA AgreesIs == OrdersOK <=> OrderAgrees
<1>1. ASSUME NEW p \in Pos
      PROVE  Agrees(p) <=>
               LET lines == {l \in Levels : Ordered[p][l] > 0}
                   full == \A l \in lines : received[p][l] = Ordered[p][l]
               IN
               /\ \A l \in Levels : received[p][l] \in 0..Ordered[p][l]
               /\ (status[p] = "received") = full
               /\ (status[p] = "partial") = (AnyReceived(received[p]) /\ ~full)
  BY DEF Agrees, Full, Lines
<1> QED
  BY <1>1 DEF OrdersOK, OrderAgrees

(* A request begins: it has read its rows, and nothing is written.           *)
LEMMA Begun ==
  ASSUME IInv, NEW h \in Handlers, NEW s, Begin(h, s),
         s.pc # "idle",
         s.pc \in OrderSteps => s.po \in Pos /\ Order(s.po) \in s.on,
         s.pc \in {"status", "receive"} => s.status \in Statuses,
         s.pc \in {"receive", "return"} => s.qty \in Batches /\ s.seen = received[s.po],
         s.pc = "status" => Fit(s.po, s.status)
  PROVE  IInv'
<1>0. RowsOK /\ HandlersOK /\ RacedOK /\ OrdersOK
  BY DEF IInv
<1>1. /\ handler' = [handler EXCEPT ![h] = s] /\ UNCHANGED <<status, received>>
      /\ raced \subseteq raced'
      /\ \A o \in Handlers \ {h} : ~At(o, "idle") => handler[o].on \cap s.on \subseteq raced'
  BY DEF Begin, rowVars
<1>2. handler'[h] = s /\ \A o \in Handlers \ {h} : handler'[o] = handler[o]
  BY <1>0, <1>1 DEF HandlersOK
<1>3. RowsOK' /\ OrdersOK'
  BY <1>0, <1>1 DEF RowsOK, OrdersOK, Agrees, Full
<1>4. HandlersOK'
  <2>1. StateOK(s)'
    BY <1>1 DEF StateOK, Fit, MayBecome, MayCancel
  <2>2. ASSUME NEW o \in Handlers \ {h} PROVE StateOK(handler[o])'
    <3>1. PICK t : t = handler[o]
      OBVIOUS
    <3>2. StateOK(t)
      BY <1>0, <3>1 DEF HandlersOK
    <3>3. StateOK(t)'
      BY <1>1, <3>2 DEF StateOK, Fit, MayBecome, MayCancel
    <3>4. t = handler'[o]
      BY <1>2, <3>1
    <3> QED BY <3>3, <3>4
  <2>3. DOMAIN handler' = Handlers
    BY <1>0, <1>1 DEF HandlersOK
  <2>4. StateOK(handler[h])'
    BY <1>2, <2>1
  <2> QED BY <2>2, <2>3, <2>4 DEF HandlersOK
<1>5. RacedOK'
  <2>1. ASSUME NEW o \in Handlers \ {h} PROVE handler[o].on \cap s.on \subseteq raced'
    <3>1. CASE At(o, "idle")
      BY <1>0, <3>1 DEF HandlersOK, StateOK, At
    <3>2. CASE ~At(o, "idle")
      BY <1>1, <3>2
    <3> QED BY <3>1, <3>2
  <2> SUFFICES ASSUME NEW f \in Handlers, NEW g \in Handlers, f # g
               PROVE  handler'[f].on \cap handler'[g].on \subseteq raced'
    BY DEF RacedOK
  <2>2. CASE f # h /\ g # h
    BY <1>0, <1>1, <1>2, <2>2 DEF RacedOK
  <2>3. CASE f = h \/ g = h
    BY <1>2, <2>1, <2>3
  <2> QED BY <2>2, <2>3
<1> QED BY <1>3, <1>4, <1>5 DEF IInv

(* A handler ends, and has written at most the orders it worked on.          *)
LEMMA Ended ==
  ASSUME IInv, NEW h \in Handlers, Done(h), raced' = raced, RowsOK',
         \A p \in Pos : Order(p) \notin handler[h].on =>
           status'[p] = status[p] /\ received'[p] = received[p],
         \A p \in Pos : Order(p) \in handler[h].on /\ Order(p) \notin raced => Agrees(p)'
  PROVE  IInv'
<1>0. RowsOK /\ HandlersOK /\ RacedOK /\ OrdersOK
  BY DEF IInv
<1>1. handler'[h] = Idle /\ \A o \in Handlers \ {h} : handler'[o] = handler[o]
  BY <1>0 DEF HandlersOK, Done
<1>2. OrdersOK'
  <2> SUFFICES ASSUME NEW p \in Pos, Order(p) \notin raced PROVE Agrees(p)'
    BY DEF OrdersOK, Order
  <2>1. CASE Order(p) \in handler[h].on
    BY <2>1
  <2>2. CASE Order(p) \notin handler[h].on
    <3>1. Agrees(p) /\ status'[p] = status[p] /\ received'[p] = received[p]
      BY <1>0, <2>2 DEF OrdersOK
    <3> QED BY <3>1 DEF Agrees, Full, AnyReceived
  <2> QED BY <2>1, <2>2
<1>3. HandlersOK'
  <2>1. ASSUME NEW o \in Handlers \ {h} PROVE StateOK(handler[o])'
    <3>1. PICK t : t = handler[o]
      OBVIOUS
    <3>2. StateOK(t) /\ t.on \cap handler[h].on \subseteq raced
      BY <1>0, <3>1 DEF HandlersOK, RacedOK
    <3>3. ASSUME t.pc \in OrderSteps, Order(t.po) \notin raced
          PROVE  t.po \in Pos /\ status'[t.po] = status[t.po] /\ received'[t.po] = received[t.po]
      BY <3>2, <3>3 DEF StateOK
    <3>4. StateOK(t)'
      BY <3>2, <3>3 DEF StateOK, Fit, MayBecome, MayCancel, AnyReceived, OrderSteps, Order
    <3>5. t = handler'[o]
      BY <1>1, <3>1
    <3> QED BY <3>4, <3>5
  <2>2. DOMAIN handler' = Handlers
    BY <1>0 DEF HandlersOK, Done
  <2>3. StateOK(handler[h])'
    BY <1>1 DEF StateOK, Idle, OrderSteps
  <2> QED BY <2>1, <2>2, <2>3 DEF HandlersOK
<1>4. RacedOK'
  BY <1>0, <1>1 DEF RacedOK, Idle
<1> QED BY <1>2, <1>3, <1>4 DEF IInv

(* The same for a handler that wrote no order.                               *)
LEMMA EndedWithoutOrder ==
  ASSUME IInv, NEW h \in Handlers, Done(h), UNCHANGED <<status, received, raced>>
  PROVE  IInv'
<1>1. RowsOK' /\ \A p \in Pos : Order(p) \notin raced => Agrees(p)'
  BY DEF IInv, RowsOK, OrdersOK, Agrees, Full
<1> QED BY <1>1, Ended

-----------------------------------------------------------------------------
(* What an order says after each of its three writes.                        *)

LEMMA StatusWritten ==
  ASSUME NEW p \in Pos, NEW next, Agrees(p), Fit(p, next),
         status'[p] = next, received'[p] = received[p]
  PROVE  Agrees(p)'
<1>1. Agrees(p)' <=>
        /\ \A l \in Levels : received[p][l] \in 0..Ordered[p][l]
        /\ next = "received" <=> Full(p, received[p])
        /\ next = "partial" <=> AnyReceived(received[p]) /\ ~Full(p, received[p])
  BY DEF Agrees, Full, AnyReceived
<1> QED BY <1>1 DEF Agrees, Fit, MayBecome, MayCancel

LEMMA Received ==
  ASSUME RowsOK, NEW h \in Handlers, NEW p \in Pos, NEW q \in Batches, NEW before,
         handler[h].po = p, handler[h].qty = q, handler[h].seen = received[p],
         Agrees(p), Fits(h),
         received'[p] = Plus(received[p], q),
         status'[p] = StatusAfterReceipt(p, Plus(received[p], q), before)
  PROVE  Agrees(p)'
<1> DEFINE now == Plus(received[p], q)
<1>0. /\ q \in [Levels -> Nat] /\ received[p] \in [Levels -> Int] /\ Ordered[p] \in [Levels -> Nat]
      /\ \E l \in Levels : q[l] > 0
  BY Constants, PurchasingAssumption DEF RowsOK
<1>1. \A l \in Levels : now[l] = received[p][l] + q[l]
  BY DEF Plus
<1>2. \A l \in Levels : received[p][l] \in 0..Ordered[p][l]
  BY DEF Agrees
<1>3. \A l \in Levels : q[l] > 0 => q[l] <= Ordered[p][l] - received[p][l]
  BY DEF Fits
<1>4. \A l \in Levels : now[l] \in 0..Ordered[p][l]
  BY <1>0, <1>1, <1>2, <1>3
<1>5. AnyReceived(now)
  <2>1. PICK l \in Levels : q[l] > 0
    BY <1>0
  <2>2. now[l] > 0
    BY <1>0, <1>1, <1>2, <2>1
  <2> QED BY <2>2 DEF AnyReceived
<1>6. (\A l \in Levels : Ordered[p][l] > 0 => now[l] >= Ordered[p][l]) <=> Full(p, now)
  BY <1>0, <1>4 DEF Full, Lines
<1>7. status'[p] = IF Full(p, now) THEN "received" ELSE "partial"
  BY <1>5, <1>6 DEF StatusAfterReceipt
<1>8. received'[p] = now
  OBVIOUS
<1> HIDE DEF now
<1> QED BY <1>4, <1>5, <1>7, <1>8 DEF Agrees, Full, AnyReceived

LEMMA Returned ==
  ASSUME RowsOK, NEW h \in Handlers, NEW p \in Pos, NEW q \in Batches,
         handler[h].po = p, handler[h].qty = q, handler[h].seen = received[p],
         Agrees(p), Returnable(h),
         received'[p] = Minus(received[p], q),
         status'[p] = IF AnyReceived(Minus(received[p], q)) THEN "partial" ELSE "ordered"
  PROVE  Agrees(p)'
<1> DEFINE now == Minus(received[p], q)
<1>0. /\ q \in [Levels -> Nat] /\ received[p] \in [Levels -> Int] /\ Ordered[p] \in [Levels -> Nat]
      /\ \E l \in Levels : q[l] > 0
  BY Constants, PurchasingAssumption DEF RowsOK
<1>1. \A l \in Levels : now[l] = received[p][l] - q[l]
  BY DEF Minus
<1>2. \A l \in Levels : received[p][l] \in 0..Ordered[p][l]
  BY DEF Agrees
<1>3. \A l \in Levels : q[l] > 0 => Ordered[p][l] > 0 /\ q[l] <= received[p][l]
  BY DEF Returnable
<1>4. \A l \in Levels : now[l] \in 0..Ordered[p][l]
  BY <1>0, <1>1, <1>2, <1>3
<1>5. ~Full(p, now)
  <2>1. PICK l \in Levels : q[l] > 0
    BY <1>0
  <2>2. Ordered[p][l] > 0 /\ now[l] < Ordered[p][l]
    BY <1>0, <1>1, <1>2, <1>3, <2>1
  <2> QED BY <1>0, <1>4, <2>2 DEF Full, Lines
<1>6. received'[p] = now
  OBVIOUS
<1>7. status'[p] = IF AnyReceived(now) THEN "partial" ELSE "ordered"
  OBVIOUS
<1> HIDE DEF now
<1> QED BY <1>4, <1>5, <1>6, <1>7 DEF Agrees, Full, AnyReceived

-----------------------------------------------------------------------------
(* The steps that write an order.                                            *)

(* A handler of order p ends, and has written at most p.                     *)
LEMMA EndedWithOrder ==
  ASSUME IInv, NEW h \in Handlers, Done(h), raced' = raced, NEW p \in Pos,
         Order(p) \in handler[h].on,
         NEW s \in Statuses, NEW q \in [Levels -> Int],
         status' = [status EXCEPT ![p] = s], received' = [received EXCEPT ![p] = q],
         Order(p) \notin raced => Agrees(p)'
  PROVE  IInv'
<1>1. RowsOK /\ RowsOK'
  BY DEF IInv, RowsOK
<1>2. \A o \in Pos \ {p} : status'[o] = status[o] /\ received'[o] = received[o]
  BY <1>1 DEF RowsOK
<1>3. ASSUME NEW o \in Pos, Order(o) \notin handler[h].on
      PROVE  status'[o] = status[o] /\ received'[o] = received[o]
  BY <1>2, <1>3
<1>4. ASSUME NEW o \in Pos, Order(o) \in handler[h].on, Order(o) \notin raced
      PROVE  Agrees(o)'
  <2>1. CASE o = p
    BY <1>4, <2>1
  <2>2. CASE o # p
    <3>1. Agrees(o)
      BY <1>4 DEF IInv, OrdersOK
    <3>2. status'[o] = status[o] /\ received'[o] = received[o]
      BY <1>2, <2>2
    <3> QED BY <3>1, <3>2 DEF Agrees, Full, AnyReceived
  <2> QED BY <2>1, <2>2
<1> QED BY <1>1, <1>3, <1>4, Ended

LEMMA WriteStatusStep ==
  ASSUME IInv, NEW h \in Handlers, WriteStatus(h)
  PROVE  IInv'
<1> DEFINE p == handler[h].po
           s == handler[h].status
<1>0. /\ RowsOK /\ StateOK(handler[h]) /\ handler[h].pc = "status"
      /\ Done(h) /\ raced' = raced /\ received' = received
      /\ status' = [status EXCEPT ![p] = s]
  BY DEF IInv, HandlersOK, WriteStatus, At, Rest
<1>1. p \in Pos /\ Order(p) \in handler[h].on /\ s \in Statuses
  BY <1>0 DEF StateOK, OrderSteps
<1>2. received' = [received EXCEPT ![p] = received[p]] /\ received[p] \in [Levels -> Int]
  BY <1>0, <1>1 DEF RowsOK
<1>3. ASSUME Order(p) \notin raced PROVE Agrees(p) /\ Fit(p, s)
  BY <1>0, <1>1, <1>3 DEF IInv, OrdersOK, StateOK
<1>4. status'[p] = s /\ received'[p] = received[p]
  BY <1>0, <1>1 DEF RowsOK
<1>5. PICK P : P = p
  OBVIOUS
<1>6. PICK S : S = s
  OBVIOUS
<1> HIDE DEF p, s
<1>7. Order(P) \notin raced => Agrees(P)'
  BY <1>1, <1>3, <1>4, <1>5, <1>6, StatusWritten
<1> QED BY <1>0, <1>1, <1>2, <1>5, <1>6, <1>7, EndedWithOrder

LEMMA ReceiveStep ==
  ASSUME IInv, NEW h \in Handlers, Receive(h)
  PROVE  IInv'
<1>0. /\ RowsOK /\ StateOK(handler[h]) /\ handler[h].pc = "receive"
      /\ Done(h) /\ raced' = raced
  BY DEF IInv, HandlersOK, Receive, At, Rest
<1>1. PICK p \in Pos : p = handler[h].po
  BY <1>0 DEF StateOK, OrderSteps
<1>2. PICK q \in Batches : q = handler[h].qty
  BY <1>0 DEF StateOK
<1>3. PICK before \in Statuses : before = handler[h].status
  BY <1>0 DEF StateOK
<1>4. Order(p) \in handler[h].on
  BY <1>0, <1>1 DEF StateOK, OrderSteps
<1>5. CASE UNCHANGED <<status, received>>
  BY <1>0, <1>5, EndedWithoutOrder
<1>6. CASE /\ Fits(h)
           /\ received' = [received EXCEPT ![p] = Plus(received[p], q)]
           /\ status' = [status EXCEPT ![p] = StatusAfterReceipt(p, Plus(received[p], q), before)]
  <2>1. Plus(received[p], q) \in [Levels -> Int]
    BY <1>0, Constants DEF RowsOK, Plus
  <2>2. StatusAfterReceipt(p, Plus(received[p], q), before) \in Statuses
    BY DEF StatusAfterReceipt, Statuses
  <2>3. /\ received'[p] = Plus(received[p], q)
        /\ status'[p] = StatusAfterReceipt(p, Plus(received[p], q), before)
    BY <1>0, <1>6 DEF RowsOK
  <2>4. ASSUME Order(p) \notin raced PROVE Agrees(p)'
    <3>1. Agrees(p) /\ handler[h].seen = received[p]
      BY <1>0, <1>1, <2>4 DEF IInv, OrdersOK, StateOK
    <3> QED BY <1>0, <1>1, <1>2, <1>6, <2>3, <3>1, Received
  <2> QED BY <1>0, <1>4, <1>6, <2>1, <2>2, <2>4, EndedWithOrder
<1>7. \/ UNCHANGED <<status, received>>
      \/ /\ Fits(h)
         /\ received' = [received EXCEPT ![p] = Plus(received[p], q)]
         /\ status' = [status EXCEPT ![p] = StatusAfterReceipt(p, Plus(received[p], q), before)]
  BY <1>1, <1>2, <1>3 DEF Receive, rowVars
<1> QED BY <1>5, <1>6, <1>7

LEMMA ReturnStep ==
  ASSUME IInv, NEW h \in Handlers, Return(h)
  PROVE  IInv'
<1>0. /\ RowsOK /\ StateOK(handler[h]) /\ handler[h].pc = "return"
      /\ Done(h) /\ raced' = raced
  BY DEF IInv, HandlersOK, Return, At, Rest
<1>1. PICK p \in Pos : p = handler[h].po
  BY <1>0 DEF StateOK, OrderSteps
<1>2. PICK q \in Batches : q = handler[h].qty
  BY <1>0 DEF StateOK
<1>3. Order(p) \in handler[h].on
  BY <1>0, <1>1 DEF StateOK, OrderSteps
<1> DEFINE now == Minus(received[p], q)
           next == IF AnyReceived(now) THEN "partial" ELSE "ordered"
<1>5. CASE UNCHANGED <<status, received>>
  BY <1>0, <1>5, EndedWithoutOrder
<1>6. CASE /\ Returnable(h)
           /\ received' = [received EXCEPT ![p] = now]
           /\ status' = [status EXCEPT ![p] = next]
  <2>1. now \in [Levels -> Int] /\ next \in Statuses
    BY <1>0, Constants DEF RowsOK, Minus, Statuses
  <2>3. received'[p] = now /\ status'[p] = next
    BY <1>0, <1>6 DEF RowsOK
  <2>4. ASSUME Order(p) \notin raced PROVE Agrees(p)'
    <3>1. Agrees(p) /\ handler[h].seen = received[p]
      BY <1>0, <1>1, <2>4 DEF IInv, OrdersOK, StateOK
    <3> QED BY <1>0, <1>1, <1>2, <1>6, <2>3, <3>1, Returned
  <2> HIDE DEF now, next
  <2> QED BY <1>0, <1>3, <1>6, <2>1, <2>4, EndedWithOrder
<1>7. \/ UNCHANGED <<status, received>>
      \/ /\ Returnable(h)
         /\ received' = [received EXCEPT ![p] = now]
         /\ status' = [status EXCEPT ![p] = next]
  BY <1>1, <1>2 DEF Return, rowVars
<1> QED BY <1>5, <1>6, <1>7

-----------------------------------------------------------------------------
(* The requests, and the rest.                                               *)

LEMMA CallStep ==
  ASSUME IInv, NEW h \in Handlers, Call(h)
  PROVE  IInv'
<1>1. ASSUME NEW p \in Pos, BeginCreatePo(h, p) PROVE IInv'
  <2> DEFINE s == [pc |-> "status", on |-> {Order(p)}, po |-> p, status |-> "draft"]
  <2>1. Begin(h, s) /\ Fit(p, "draft")
    BY <1>1 DEF BeginCreatePo, Fit
  <2> QED BY <2>1, Begun DEF Statuses, OrderSteps
<1>2. ASSUME NEW p \in Pos, NEW next \in Statuses, BeginUpdatePo(h, p, next) PROVE IInv'
  <2> DEFINE s == [pc |-> "status", on |-> {Order(p)}, po |-> p, status |-> next]
  <2>1. Begin(h, s) /\ Fit(p, next)
    BY <1>2 DEF BeginUpdatePo, Fit
  <2> QED BY <2>1, Begun DEF OrderSteps
<1>3. ASSUME NEW p \in Pos, NEW q \in Batches, NEW key, BeginReceive(h, p, q, key) PROVE IInv'
  <2> DEFINE s == [pc |-> "receive", on |-> {Order(p)}, po |-> p, qty |-> q, key |-> key,
                   seen |-> received[p], status |-> status[p]]
  <2>1. Begin(h, s) /\ status[p] \in Statuses
    BY <1>3 DEF BeginReceive, IInv, RowsOK
  <2> QED BY <2>1, Begun DEF OrderSteps
<1>4. ASSUME NEW p \in Pos, NEW q \in Batches, NEW key, BeginReturn(h, p, q, key) PROVE IInv'
  <2>1. PICK credit \in BOOLEAN :
          Begin(h, [pc |-> "return", on |-> {Order(p)}, po |-> p, qty |-> q, key |-> key,
                    seen |-> received[p], credit |-> credit])
    BY <1>4 DEF BeginReturn
  <2> QED BY <2>1, Begun DEF OrderSteps
<1>5. ASSUME NEW row, NEW on, BeginInvoice(h, row, on) PROVE IInv'
  <2> DEFINE s == [pc |-> "invoice", on |-> on \cup {Supplier}, row |-> row]
  <2>1. Begin(h, s) /\ s.pc = "invoice"
    BY <1>5 DEF BeginInvoice
  <2> HIDE DEF s
  <2> QED BY <2>1, Begun DEF OrderSteps
<1>6. ASSUME NEW i, NEW amount, BeginPay(h, i, amount) PROVE IInv'
  <2> DEFINE s == [pc |-> "pay", on |-> {Invoice(i)}, invoice |-> i, amount |-> amount, row |-> invoices[i]]
  <2>1. Begin(h, s) /\ s.pc = "pay"
    BY <1>6 DEF BeginPay
  <2> HIDE DEF s
  <2> QED BY <2>1, Begun DEF OrderSteps
<1>7. \/ \E p \in Pos : BeginCreatePo(h, p)
      \/ \E p \in Pos, next \in Statuses : BeginUpdatePo(h, p, next)
      \/ \E p \in Pos, q \in Batches : \E key : BeginReceive(h, p, q, key)
      \/ \E p \in Pos, q \in Batches : \E key : BeginReturn(h, p, q, key)
      \/ \E row, on : BeginInvoice(h, row, on)
      \/ \E i, amount : BeginPay(h, i, amount)
      \/ \E new : BeginLimit(h, new)
  BY Zenon DEF Call, BeginManual, BeginFromGrn, Statuses
<1>8. ASSUME NEW new, BeginLimit(h, new) PROVE IInv'
  <2> DEFINE s == [pc |-> "limit", on |-> {Supplier}, limit |-> new]
  <2>1. Begin(h, s) /\ s.pc = "limit"
    BY <1>8 DEF BeginLimit
  <2> HIDE DEF s
  <2> QED BY <2>1, Begun DEF OrderSteps
<1> QED BY <1>1, <1>2, <1>3, <1>4, <1>5, <1>6, <1>7, <1>8

LEMMA InitIInv == Init => IInv
<1> SUFFICES ASSUME Init PROVE IInv
  OBVIOUS
<1>1. RowsOK
  BY DEF Init, RowsOK, Statuses
<1>2. HandlersOK /\ RacedOK
  BY DEF Init, HandlersOK, RacedOK, StateOK, Idle, OrderSteps
<1>3. OrdersOK
  <2> SUFFICES ASSUME NEW p \in Pos PROVE Agrees(p)
    BY DEF OrdersOK
  <2>1. status[p] = "none" /\ \A l \in Levels : received[p][l] = 0
    BY DEF Init
  <2>2. PICK l \in Levels : Ordered[p][l] > 0
    BY Constants
  <2>3. ~Full(p, received[p]) /\ ~AnyReceived(received[p])
    BY <2>1, <2>2, Constants DEF Full, Lines, AnyReceived
  <2> QED BY <2>1, <2>3, Constants DEF Agrees
<1> QED BY <1>1, <1>2, <1>3 DEF IInv

LEMMA NextIInv == IInv /\ [Next]_vars => IInv'
<1> SUFFICES ASSUME IInv, [Next]_vars PROVE IInv'
  OBVIOUS
<1>1. ASSUME NEW h \in Handlers, Call(h) PROVE IInv'
  BY <1>1, CallStep
<1>2. ASSUME NEW h \in Handlers, Work(h) PROVE IInv'
  <2>1. CASE WriteStatus(h)
    BY <2>1, WriteStatusStep
  <2>2. CASE Receive(h)
    BY <2>2, ReceiveStep
  <2>3. CASE Return(h)
    BY <2>3, ReturnStep
  <2>4. CASE CreateInvoice(h)
    BY <2>4, EndedWithoutOrder DEF CreateInvoice, Rest
  <2>5. CASE Pay(h)
    BY <2>5, EndedWithoutOrder DEF Pay, Rest
  <2>6. CASE SetLimit(h)
    BY <2>6, EndedWithoutOrder DEF SetLimit, rowVars
  <2> QED BY <1>2, <2>1, <2>2, <2>3, <2>4, <2>5, <2>6 DEF Work
<1>3. ASSUME NEW h \in Handlers, Crash(h) PROVE IInv'
  BY <1>3, EndedWithoutOrder DEF Crash, Rest, rowVars
<1>4. ASSUME UNCHANGED <<status, received, handler, raced>> PROVE IInv'
  BY <1>4 DEF IInv, RowsOK, HandlersOK, StateOK, Fit, MayBecome, MayCancel, RacedOK, OrdersOK, Agrees, Full
<1>5. ASSUME NEW l \in Levels, Sell(l) PROVE IInv'
  BY <1>4, <1>5 DEF Sell, Rest
<1>6. CASE UNCHANGED vars
  BY <1>4, <1>6 DEF vars, rowVars
<1> QED BY <1>1, <1>2, <1>3, <1>5, <1>6 DEF Next

(* An order's status says what came in and stayed, and no line keeps more    *)
(* than was ordered, however updatePo, receivePo and returnPo interleave,    *)
(* fail and repeat, as long as no two requests work on the order at once.    *)
THEOREM OrdersReconciled == Spec => []OrderAgrees
<1>1. IInv => OrderAgrees
  BY AgreesIs DEF IInv
<1> QED BY <1>1, InitIInv, NextIInv, PTL DEF Spec

-----------------------------------------------------------------------------
(* A second layer: the goods.  What a handler brings is typed, and every     *)
(* transaction moves the lines, the stock and the documents together.        *)

Grn == [po: Pos, key: Keys, qty: [Levels -> Nat]]
Rtv == [po: Pos, key: Keys \cup {NoKey}, qty: [Levels -> Nat]]

GoodsTyped ==
  /\ stock \in [Levels -> Nat] /\ sold \in [Levels -> Nat]
  /\ grns \in Seq(Grn) /\ returns \in Seq(Rtv)

KeyOK(s) ==
  /\ s.pc = "receive" => s.key \in Keys
  /\ s.pc = "return" => s.key \in Keys \cup {NoKey}

(* The sums of GoodsBooked by name. *)
In(p, l) == SumFunction([n \in {n \in DOMAIN grns : grns[n].po = p} |-> grns[n].qty[l]])
Out(p, l) == SumFunction([n \in {n \in DOMAIN returns : returns[n].po = p} |-> returns[n].qty[l]])
Net(l) == SumFunction([p \in Pos |-> In(p, l) - Out(p, l)])

LinesBooked == \A p \in Pos, l \in Levels : In(p, l) = Per[l] * (received[p][l] + Out(p, l))
StockBooked == \A l \in Levels : stock[l] = Opening[l] + Net(l) - sold[l]
OneReceipt == \A n, m \in DOMAIN grns : grns[n].key = grns[m].key => n = m

Booked == GoodsTyped /\ LinesBooked /\ StockBooked /\ OneReceipt
AInv == IInv /\ Booked /\ \A h \in Handlers : KeyOK(handler[h])

LEMMA BookedIs == GoodsBooked <=> LinesBooked /\ StockBooked /\ OneReceipt
BY DEF GoodsBooked, LinesBooked, StockBooked, OneReceipt, In, Out, Net, SumOver

(* What appending does. *)
LEMMA Appended ==
  ASSUME NEW T, NEW s \in Seq(T), NEW e \in T
  PROVE  /\ Append(s, e) \in Seq(T)
         /\ DOMAIN s = 1 .. Len(s) /\ Len(s) \in Nat
         /\ Len(Append(s, e)) = Len(s) + 1
         /\ DOMAIN Append(s, e) = DOMAIN s \cup {Len(s) + 1} /\ Len(s) + 1 \notin DOMAIN s
         /\ Append(s, e)[Len(s) + 1] = e
         /\ \A i \in DOMAIN s : Append(s, e)[i] = s[i]
OBVIOUS

LEMMA RowsFinite ==
  ASSUME NEW T, NEW s \in Seq(T)
  PROVE  IsFiniteSet(DOMAIN s) /\ \A R \in SUBSET DOMAIN s : IsFiniteSet(R)
<1>1. PICK n \in Nat : DOMAIN s = 1 .. n
  OBVIOUS
<1>2. IsFiniteSet(1 .. n)
  BY FS_Interval
<1> QED BY <1>1, <1>2, FS_Subset

LEMMA InTyped ==
  ASSUME GoodsTyped, NEW p, NEW l \in Levels
  PROVE  In(p, l) \in Int
<1> DEFINE R == {n \in DOMAIN grns : grns[n].po = p}
           f == [n \in R |-> grns[n].qty[l]]
<1>1. R \subseteq DOMAIN grns
  OBVIOUS
<1>2. IsFiniteSet(R)
  BY <1>1, RowsFinite DEF GoodsTyped
<1>3. \A n \in DOMAIN grns : grns[n] \in Grn
  BY DEF GoodsTyped
<1>4. f \in [R -> Int]
  BY <1>3 DEF Grn
<1>5. SumFunction(f) \in Int
  <2> HIDE DEF f, R
  <2> QED BY <1>2, <1>4, SumInt
<1> QED BY <1>5 DEF In

LEMMA OutTyped ==
  ASSUME GoodsTyped, NEW p, NEW l \in Levels
  PROVE  Out(p, l) \in Int
<1> DEFINE R == {n \in DOMAIN returns : returns[n].po = p}
           f == [n \in R |-> returns[n].qty[l]]
<1>1. R \subseteq DOMAIN returns
  OBVIOUS
<1>2. IsFiniteSet(R)
  BY <1>1, RowsFinite DEF GoodsTyped
<1>3. \A n \in DOMAIN returns : returns[n] \in Rtv
  BY DEF GoodsTyped
<1>4. f \in [R -> Int]
  BY <1>3 DEF Rtv
<1>5. SumFunction(f) \in Int
  <2> HIDE DEF f, R
  <2> QED BY <1>2, <1>4, SumInt
<1> QED BY <1>5 DEF Out

(* A receipt adds to its order. *)
LEMMA InGrows ==
  ASSUME GoodsTyped, NEW g \in Grn, grns' = Append(grns, g), NEW p, NEW l \in Levels
  PROVE  In(p, l)' = In(p, l) + IF g.po = p THEN g.qty[l] ELSE 0
<1> DEFINE R == {n \in DOMAIN grns : grns[n].po = p}
           Q == {n \in DOMAIN grns' : grns'[n].po = p}
           f == [n \in R |-> grns[n].qty[l]]
           e == [n \in Q |-> grns'[n].qty[l]]
           a == Len(grns) + 1
           S == DOMAIN grns'
<1>1. /\ grns' \in Seq(Grn) /\ Len(grns) \in Nat /\ S = DOMAIN grns \cup {a}
      /\ S = 1 .. a /\ a \notin DOMAIN grns /\ grns'[a] = g
      /\ \A n \in DOMAIN grns : grns'[n] = grns[n]
  BY Appended DEF GoodsTyped
<1>2. /\ \A n \in DOMAIN grns : grns[n] \in Grn
      /\ \A n \in S : grns'[n] \in Grn
  BY <1>1 DEF GoodsTyped
<1>3. IsFiniteSet(S) /\ a \in S
  BY <1>1, RowsFinite
<1>4. Numbers(f, S) /\ Numbers(e, S)
  BY <1>1, <1>2 DEF Numbers, Grn
<1>5. SameBut(f, e, S, a)
  BY <1>1 DEF SameBut
<1>6. ValueAt(f, a) = 0 /\ ValueAt(e, a) = (IF g.po = p THEN g.qty[l] ELSE 0)
  BY <1>1 DEF ValueAt
<1>7. SumFunction(e) = SumFunction(f) - ValueAt(f, a) + ValueAt(e, a)
  <2> HIDE DEF f, e, a, S
  <2> QED BY <1>3, <1>4, <1>5, SumOneRow
<1>8. In(p, l) = SumFunction(f) /\ In(p, l)' = SumFunction(e) /\ In(p, l) \in Int
  BY InTyped DEF In
<1>9. g.qty[l] \in Int
  BY DEF Grn
<1> QED
  <2> HIDE DEF f, e, a
  <2>1. CASE g.po = p
    BY <1>6, <1>7, <1>8, <1>9, <2>1
  <2>2. CASE g.po # p
    BY <1>6, <1>7, <1>8, <1>9, <2>2
  <2> QED BY <2>1, <2>2

LEMMA OutGrows ==
  ASSUME GoodsTyped, NEW g \in Rtv, returns' = Append(returns, g), NEW p, NEW l \in Levels
  PROVE  Out(p, l)' = Out(p, l) + IF g.po = p THEN g.qty[l] ELSE 0
<1> DEFINE R == {n \in DOMAIN returns : returns[n].po = p}
           Q == {n \in DOMAIN returns' : returns'[n].po = p}
           f == [n \in R |-> returns[n].qty[l]]
           e == [n \in Q |-> returns'[n].qty[l]]
           a == Len(returns) + 1
           S == DOMAIN returns'
<1>1. /\ returns' \in Seq(Rtv) /\ Len(returns) \in Nat /\ S = DOMAIN returns \cup {a}
      /\ S = 1 .. a /\ a \notin DOMAIN returns /\ returns'[a] = g
      /\ \A n \in DOMAIN returns : returns'[n] = returns[n]
  BY Appended DEF GoodsTyped
<1>2. /\ \A n \in DOMAIN returns : returns[n] \in Rtv
      /\ \A n \in S : returns'[n] \in Rtv
  BY <1>1 DEF GoodsTyped
<1>3. IsFiniteSet(S) /\ a \in S
  BY <1>1, RowsFinite
<1>4. Numbers(f, S) /\ Numbers(e, S)
  BY <1>1, <1>2 DEF Numbers, Rtv
<1>5. SameBut(f, e, S, a)
  BY <1>1 DEF SameBut
<1>6. ValueAt(f, a) = 0 /\ ValueAt(e, a) = (IF g.po = p THEN g.qty[l] ELSE 0)
  BY <1>1 DEF ValueAt
<1>7. SumFunction(e) = SumFunction(f) - ValueAt(f, a) + ValueAt(e, a)
  <2> HIDE DEF f, e, a, S
  <2> QED BY <1>3, <1>4, <1>5, SumOneRow
<1>8. Out(p, l) = SumFunction(f) /\ Out(p, l)' = SumFunction(e) /\ Out(p, l) \in Int
  BY OutTyped DEF Out
<1>9. g.qty[l] \in Int
  BY DEF Rtv
<1> QED
  <2> HIDE DEF f, e, a
  <2>1. CASE g.po = p
    BY <1>6, <1>7, <1>8, <1>9, <2>1
  <2>2. CASE g.po # p
    BY <1>6, <1>7, <1>8, <1>9, <2>2
  <2> QED BY <2>1, <2>2

LEMMA NetTyped ==
  ASSUME GoodsTyped, NEW l \in Levels
  PROVE  Net(l) \in Int
<1> DEFINE f == [p \in Pos |-> In(p, l) - Out(p, l)]
<1>1. f \in [Pos -> Int]
  BY InTyped, OutTyped
<1>2. SumFunction(f) \in Int
  <2> HIDE DEF f
  <2> QED BY <1>1, SumInt, PurchasingAssumption
<1> QED BY <1>2 DEF Net

(* One order moves the sum over all orders. *)
LEMMA NetMoves ==
  ASSUME GoodsTyped, GoodsTyped', NEW p \in Pos, NEW l \in Levels, NEW d \in Int,
         \A o \in Pos : In(o, l)' - Out(o, l)' = In(o, l) - Out(o, l) + IF o = p THEN d ELSE 0
  PROVE  Net(l)' = Net(l) + d
<1> DEFINE f == [o \in Pos |-> In(o, l) - Out(o, l)]
           e == [o \in Pos |-> In(o, l)' - Out(o, l)']
<1>1. f \in [Pos -> Int]
  BY InTyped, OutTyped
<1>2. \A o \in Pos : f[o] \in Int /\ e[o] = f[o] + IF o = p THEN d ELSE 0
  BY <1>1
<1>3. e \in [Pos -> Int] /\ \A o \in Pos \ {p} : e[o] = f[o]
  <2>1. ASSUME NEW o \in Pos PROVE e[o] \in Int /\ (o # p => e[o] = f[o])
    <3> HIDE DEF e, f
    <3>1. CASE o = p
      BY <1>2, <3>1
    <3>2. CASE o # p
      BY <1>2, <3>2
    <3> QED BY <3>1, <3>2
  <2> QED BY <2>1
<1>4. SumFunction(e) = SumFunction(f) - f[p] + e[p] /\ SumFunction(f) \in Int
  <2> HIDE DEF f, e
  <2>1. IsFiniteSet(Pos)
    BY PurchasingAssumption
  <2> QED BY <1>1, <1>3, <2>1, SumChanged, SumInt
<1>5. Net(l) = SumFunction(f) /\ Net(l)' = SumFunction(e)
  BY DEF Net
<1> QED
  <2> HIDE DEF f, e
  <2> QED BY <1>2, <1>4, <1>5

LEMMA BookedStays ==
  ASSUME Booked, UNCHANGED <<received, stock, grns, returns, sold>>
  PROVE  Booked'
<1>1. GoodsTyped' /\ OneReceipt'
  BY DEF Booked, GoodsTyped, OneReceipt
<1>2. \A p, l : In(p, l)' = In(p, l) /\ Out(p, l)' = Out(p, l)
  BY DEF In, Out
<1>3. \A l : Net(l)' = Net(l)
  BY <1>2 DEF Net
<1> QED BY <1>1, <1>2, <1>3 DEF Booked, LinesBooked, StockBooked

LEMMA Rates ==
  /\ \A l \in Levels : Per[l] \in Nat /\ Opening[l] \in Nat /\ Cost[l] \in Nat
  /\ \A l \in Levels, m \in Nat : m * Per[l] \in Nat
  /\ \A l \in Levels, a \in Int, b \in Int : Per[l] * (a + b) = Per[l] * a + b * Per[l]
<1>1. \A l \in Levels : Per[l] \in Nat /\ Opening[l] \in Nat /\ Cost[l] \in Nat
  BY PurchasingAssumption
<1>2. \A m \in Nat, n \in Nat : m * n \in Nat
  OBVIOUS
<1>3. \A c \in Nat, a \in Int, b \in Int : c * (a + b) = c * a + b * c
  OBVIOUS
<1> QED BY <1>1, <1>2, <1>3

LEMMA GoodsIn ==
  ASSUME Booked, RowsOK, NEW p \in Pos, NEW key \in Keys, NEW q \in [Levels -> Nat],
         ~ReceiptKnown(key),
         received' = [received EXCEPT ![p] = Plus(received[p], q)],
         stock' = Plus(stock, InBase(q)),
         grns' = Append(grns, [po |-> p, key |-> key, qty |-> InBase(q)]),
         UNCHANGED <<returns, sold>>
  PROVE  Booked'
<1> DEFINE g == [po |-> p, key |-> key, qty |-> InBase(q)]
<1>0. GoodsTyped /\ LinesBooked /\ StockBooked /\ OneReceipt
  BY DEF Booked
<1>1. /\ InBase(q) \in [Levels -> Nat]
      /\ \A l \in Levels : InBase(q)[l] = q[l] * Per[l] /\ q[l] \in Nat
  BY Rates DEF InBase
<1>2. /\ g \in Grn /\ g.po = p /\ g.key = key /\ g.qty = InBase(q)
      /\ grns' = Append(grns, g)
  BY <1>1 DEF Grn
<1>3. stock' \in [Levels -> Nat] /\ \A l \in Levels : stock'[l] = stock[l] + q[l] * Per[l]
  <2>1. \A l \in Levels : InBase(q)[l] \in Nat /\ stock[l] \in Nat
    BY <1>0, <1>1 DEF GoodsTyped
  <2> QED BY <1>1, <2>1 DEF Plus
<1>4. GoodsTyped'
  <2>1. grns' \in Seq(Grn)
    BY <1>0, <1>2, Appended DEF GoodsTyped
  <2> QED BY <1>0, <1>3, <2>1 DEF GoodsTyped
<1>5. \A o \in Pos, l \in Levels :
        /\ In(o, l)' = In(o, l) + IF o = p THEN q[l] * Per[l] ELSE 0
        /\ Out(o, l)' = Out(o, l)
        /\ In(o, l) \in Int /\ Out(o, l) \in Int
  <2>1. \A o \in Pos, l \in Levels : Out(o, l)' = Out(o, l)
    BY DEF Out
  <2>2. \A o \in Pos, l \in Levels : In(o, l)' = In(o, l) + IF g.po = o THEN g.qty[l] ELSE 0
    <3> HIDE DEF g
    <3> QED BY <1>0, <1>2, InGrows
  <2> QED BY <1>0, <1>1, <1>2, <2>1, <2>2, InTyped, OutTyped
<1>6. \A o \in Pos, l \in Levels :
        received'[o][l] = received[o][l] + IF o = p THEN q[l] ELSE 0
  BY <1>1 DEF RowsOK, Plus
<1>7. LinesBooked'
  <2>1. ASSUME NEW o \in Pos, NEW l \in Levels
        PROVE  In(o, l)' = Per[l] * (received'[o][l] + Out(o, l)')
    <3>1. /\ received[o][l] \in Int /\ q[l] \in Nat /\ Per[l] \in Nat /\ q[l] * Per[l] \in Int
          /\ In(o, l) = Per[l] * (received[o][l] + Out(o, l))
      BY <1>0, <1>1, Rates DEF RowsOK, LinesBooked
    <3>2. CASE o = p
      <4>1. In(o, l)' = In(o, l) + q[l] * Per[l] /\ received'[o][l] = received[o][l] + q[l]
        BY <1>5, <1>6, <3>2
      <4>2. Out(o, l)' = Out(o, l) /\ Out(o, l) \in Int
        BY <1>5
      <4>3. received'[o][l] + Out(o, l)' = (received[o][l] + Out(o, l)) + q[l]
        BY <3>1, <4>1, <4>2
      <4>4. received[o][l] + Out(o, l) \in Int
        BY <3>1, <4>2
      <4>5. PICK a \in Int, b \in Int : a = received[o][l] + Out(o, l) /\ b = q[l]
        BY <3>1, <4>4
      <4>6. Per[l] * (a + b) = Per[l] * a + b * Per[l]
        BY Rates
      <4> QED BY <3>1, <4>1, <4>3, <4>5, <4>6
    <3>3. CASE o # p
      BY <1>5, <1>6, <3>1, <3>3
    <3> QED BY <3>2, <3>3
  <2> QED BY <2>1 DEF LinesBooked
<1>8. StockBooked'
  <2>1. ASSUME NEW l \in Levels PROVE stock'[l] = Opening[l] + Net(l)' - sold'[l]
    <3>1. q[l] * Per[l] \in Int
      BY <1>1, Rates
    <3>2. \A o \in Pos : In(o, l)' - Out(o, l)' = In(o, l) - Out(o, l) + IF o = p THEN q[l] * Per[l] ELSE 0
      <4>1. ASSUME NEW o \in Pos
            PROVE  In(o, l)' - Out(o, l)' = In(o, l) - Out(o, l) + IF o = p THEN q[l] * Per[l] ELSE 0
        <5>1. CASE o = p
          BY <1>5, <3>1, <5>1
        <5>2. CASE o # p
          BY <1>5, <3>1, <5>2
        <5> QED BY <5>1, <5>2
      <4> QED BY <4>1
    <3>3. PICK d \in Int : d = q[l] * Per[l]
      BY <3>1
    <3>4. Net(l)' = Net(l) + d
      BY <1>0, <1>4, <3>2, <3>3, NetMoves
    <3>5. stock[l] = Opening[l] + Net(l) - sold[l] /\ Net(l) \in Int /\ sold[l] \in Int /\ Opening[l] \in Int
      BY <1>0, NetTyped, Rates DEF StockBooked, GoodsTyped
    <3>6. stock'[l] = stock[l] + d /\ sold'[l] = sold[l]
      BY <1>3, <3>3
    <3> QED BY <3>4, <3>5, <3>6
  <2> QED BY <2>1 DEF StockBooked
<1>9. OneReceipt'
  <2>1. /\ DOMAIN grns' = DOMAIN grns \cup {Len(grns) + 1} /\ Len(grns) + 1 \notin DOMAIN grns
        /\ grns'[Len(grns) + 1] = g /\ \A n \in DOMAIN grns : grns'[n] = grns[n]
    BY <1>0, <1>2, Appended DEF GoodsTyped
  <2> QED BY <1>0, <1>2, <2>1 DEF OneReceipt, ReceiptKnown
<1> QED BY <1>4, <1>7, <1>8, <1>9 DEF Booked

LEMMA GoodsOut ==
  ASSUME Booked, RowsOK, NEW p \in Pos, NEW key \in Keys \cup {NoKey}, NEW q \in [Levels -> Nat],
         \A l \in Levels : q[l] > 0 => q[l] <= stock[l],
         received' = [received EXCEPT ![p] = Minus(received[p], q)],
         stock' = Minus(stock, q),
         returns' = Append(returns, [po |-> p, key |-> key, qty |-> q]),
         UNCHANGED <<grns, sold>>
  PROVE  Booked'
<1> DEFINE g == [po |-> p, key |-> key, qty |-> q]
<1>0. GoodsTyped /\ LinesBooked /\ StockBooked /\ OneReceipt
  BY DEF Booked
<1>2. g \in Rtv /\ g.po = p /\ g.qty = q /\ returns' = Append(returns, g)
  BY DEF Rtv
<1>3. stock' \in [Levels -> Nat] /\ \A l \in Levels : stock'[l] = stock[l] - q[l]
  <2>1. \A l \in Levels : q[l] \in Nat /\ stock[l] \in Nat /\ q[l] <= stock[l]
    BY <1>0 DEF GoodsTyped
  <2> QED BY <2>1 DEF Minus
<1>4. GoodsTyped'
  <2>1. returns' \in Seq(Rtv)
    BY <1>0, <1>2, Appended DEF GoodsTyped
  <2> QED BY <1>0, <1>3, <2>1 DEF GoodsTyped
<1>5. \A o \in Pos, l \in Levels :
        /\ Out(o, l)' = Out(o, l) + IF o = p THEN q[l] ELSE 0
        /\ In(o, l)' = In(o, l)
        /\ In(o, l) \in Int /\ Out(o, l) \in Int
  <2>1. \A o \in Pos, l \in Levels : In(o, l)' = In(o, l)
    BY DEF In
  <2>2. \A o \in Pos, l \in Levels : Out(o, l)' = Out(o, l) + IF g.po = o THEN g.qty[l] ELSE 0
    <3> HIDE DEF g
    <3> QED BY <1>0, <1>2, OutGrows
  <2> QED BY <1>0, <1>2, <2>1, <2>2, InTyped, OutTyped
<1>6. \A o \in Pos, l \in Levels :
        /\ received'[o][l] = received[o][l] - IF o = p THEN q[l] ELSE 0
        /\ received[o][l] \in Int /\ q[l] \in Int
  <2>1. ASSUME NEW o \in Pos, NEW l \in Levels
        PROVE  received'[o][l] = received[o][l] - IF o = p THEN q[l] ELSE 0
    <3>1. CASE o = p
      BY <3>1 DEF RowsOK, Minus
    <3>2. CASE o # p
      BY <3>2 DEF RowsOK
    <3> QED BY <3>1, <3>2
  <2> QED BY <2>1 DEF RowsOK
<1>7. LinesBooked'
  <2>1. ASSUME NEW o \in Pos, NEW l \in Levels
        PROVE  In(o, l)' = Per[l] * (received'[o][l] + Out(o, l)')
    <3>1. In(o, l)' = Per[l] * (received[o][l] + Out(o, l))
      BY <1>0, <1>5 DEF LinesBooked
    <3>2. received'[o][l] + Out(o, l)' = received[o][l] + Out(o, l)
      <4>1. CASE o = p
        BY <1>5, <1>6, <4>1
      <4>2. CASE o # p
        BY <1>5, <1>6, <4>2
      <4> QED BY <4>1, <4>2
    <3> QED BY <3>1, <3>2
  <2> QED BY <2>1 DEF LinesBooked
<1>8. StockBooked'
  <2>1. ASSUME NEW l \in Levels PROVE stock'[l] = Opening[l] + Net(l)' - sold'[l]
    <3>1. PICK d \in Int : d = 0 - q[l]
      BY <1>6
    <3>2. \A o \in Pos : In(o, l)' - Out(o, l)' = In(o, l) - Out(o, l) + IF o = p THEN d ELSE 0
      <4>1. ASSUME NEW o \in Pos
            PROVE  In(o, l)' - Out(o, l)' = In(o, l) - Out(o, l) + IF o = p THEN d ELSE 0
        <5>1. CASE o = p
          BY <1>5, <1>6, <3>1, <5>1
        <5>2. CASE o # p
          BY <1>5, <1>6, <3>1, <5>2
        <5> QED BY <5>1, <5>2
      <4> QED BY <4>1
    <3>4. Net(l)' = Net(l) + d
      BY <1>0, <1>4, <3>2, NetMoves
    <3>5. stock[l] = Opening[l] + Net(l) - sold[l] /\ Net(l) \in Int /\ sold[l] \in Int /\ Opening[l] \in Int
      BY <1>0, NetTyped, Rates DEF StockBooked, GoodsTyped
    <3>6. stock'[l] = stock[l] + d /\ sold'[l] = sold[l]
      BY <1>0, <1>3, <3>1 DEF GoodsTyped
    <3> QED BY <3>4, <3>5, <3>6
  <2> QED BY <2>1 DEF StockBooked
<1>9. OneReceipt'
  BY <1>0 DEF OneReceipt
<1> QED BY <1>4, <1>7, <1>8, <1>9 DEF Booked

LEMMA GoodsSold ==
  ASSUME Booked, NEW l \in Levels, Sell(l)
  PROVE  Booked'
<1>1. /\ GoodsTyped /\ stock[l] > 0 /\ UNCHANGED <<received, grns, returns>>
      /\ stock' = [stock EXCEPT ![l] = @ - 1] /\ sold' = [sold EXCEPT ![l] = @ + 1]
  BY DEF Booked, Sell
<1>2. /\ \A k \in Levels : stock'[k] = stock[k] - (IF k = l THEN 1 ELSE 0)
      /\ \A k \in Levels : sold'[k] = sold[k] + (IF k = l THEN 1 ELSE 0)
      /\ \A k \in Levels : stock[k] \in Nat /\ sold[k] \in Nat
      /\ stock' \in [Levels -> Nat] /\ sold' \in [Levels -> Nat]
  BY <1>1 DEF GoodsTyped
<1>3. \A p, k : In(p, k)' = In(p, k) /\ Out(p, k)' = Out(p, k)
  BY <1>1 DEF In, Out
<1>4. \A k : Net(k)' = Net(k)
  BY <1>3 DEF Net
<1>5. StockBooked'
  <2>1. ASSUME NEW k \in Levels PROVE stock'[k] = Opening[k] + Net(k) - sold'[k]
    <3>1. stock[k] = Opening[k] + Net(k) - sold[k] /\ Net(k) \in Int /\ Opening[k] \in Int
      BY <1>1, NetTyped, Rates DEF Booked, StockBooked
    <3>2. CASE k = l
      BY <1>2, <3>1, <3>2
    <3>3. CASE k # l
      BY <1>2, <3>1, <3>3
    <3> QED BY <3>2, <3>3
  <2> QED BY <1>4, <2>1 DEF StockBooked
<1>6. GoodsTyped' /\ LinesBooked' /\ OneReceipt'
  BY <1>1, <1>2, <1>3 DEF Booked, GoodsTyped, LinesBooked, OneReceipt
<1> QED BY <1>5, <1>6 DEF Booked

(* The handlers bring what is typed. *)
LEMMA KeysBegin ==
  ASSUME AInv, NEW h \in Handlers, NEW s, Begin(h, s), KeyOK(s)
  PROVE  \A o \in Handlers : KeyOK(handler'[o])
<1>1. handler'[h] = s /\ \A o \in Handlers \ {h} : handler'[o] = handler[o]
  BY DEF AInv, IInv, HandlersOK, Begin
<1> QED BY <1>1 DEF AInv

LEMMA KeysDone ==
  ASSUME AInv, NEW h \in Handlers, Done(h)
  PROVE  \A o \in Handlers : KeyOK(handler'[o])
<1>1. handler'[h] = Idle /\ \A o \in Handlers \ {h} : handler'[o] = handler[o]
  BY DEF AInv, IInv, HandlersOK, Done
<1>2. KeyOK(Idle)
  BY DEF KeyOK, Idle
<1> QED BY <1>1, <1>2 DEF AInv

LEMMA CallKeys ==
  ASSUME AInv, NEW h \in Handlers, Call(h)
  PROVE  UNCHANGED rowVars /\ \A o \in Handlers : KeyOK(handler'[o])
<1>0. ASSUME NEW s, Begin(h, s), KeyOK(s)
      PROVE  UNCHANGED rowVars /\ \A o \in Handlers : KeyOK(handler'[o])
  BY <1>0, KeysBegin DEF Begin
<1>1. ASSUME NEW p, NEW next, Begin(h, [pc |-> "status", on |-> {Order(p)}, po |-> p, status |-> next])
      PROVE  UNCHANGED rowVars /\ \A o \in Handlers : KeyOK(handler'[o])
  BY <1>0, <1>1 DEF KeyOK
<1>3. ASSUME NEW p \in Pos, NEW q, NEW key \in Keys, BeginReceive(h, p, q, key)
      PROVE  UNCHANGED rowVars /\ \A o \in Handlers : KeyOK(handler'[o])
  BY <1>0, <1>3 DEF KeyOK, BeginReceive
<1>4. ASSUME NEW p \in Pos, NEW q, NEW key \in Keys \cup {NoKey}, BeginReturn(h, p, q, key)
      PROVE  UNCHANGED rowVars /\ \A o \in Handlers : KeyOK(handler'[o])
  BY <1>0, <1>4 DEF KeyOK, BeginReturn
<1>5. ASSUME NEW row, NEW on, BeginInvoice(h, row, on)
      PROVE  UNCHANGED rowVars /\ \A o \in Handlers : KeyOK(handler'[o])
  BY <1>0, <1>5 DEF KeyOK, BeginInvoice
<1>6. ASSUME NEW i, NEW amount, BeginPay(h, i, amount)
      PROVE  UNCHANGED rowVars /\ \A o \in Handlers : KeyOK(handler'[o])
  BY <1>0, <1>6 DEF KeyOK, BeginPay
<1>7. \/ \E p, next : Begin(h, [pc |-> "status", on |-> {Order(p)}, po |-> p, status |-> next])
      \/ \E p \in Pos, q \in Batches, key \in Keys : BeginReceive(h, p, q, key)
      \/ \E p \in Pos, q \in Batches, key \in Keys \cup {NoKey} : BeginReturn(h, p, q, key)
      \/ \E row, on : BeginInvoice(h, row, on)
      \/ \E i, amount : BeginPay(h, i, amount)
      \/ \E new : BeginLimit(h, new)
  BY Zenon DEF Call, BeginManual, BeginFromGrn, BeginCreatePo, BeginUpdatePo
<1>8. ASSUME NEW new, BeginLimit(h, new)
      PROVE  UNCHANGED rowVars /\ \A o \in Handlers : KeyOK(handler'[o])
  BY <1>0, <1>8 DEF KeyOK, BeginLimit
<1> QED BY <1>1, <1>3, <1>4, <1>5, <1>6, <1>7, <1>8

(* What the handlers of an order bring. *)
LEMMA Brought ==
  ASSUME AInv, NEW h \in Handlers, handler[h].pc \in {"receive", "return"}
  PROVE  /\ handler[h].po \in Pos /\ handler[h].qty \in [Levels -> Nat]
         /\ handler[h].pc = "receive" => handler[h].key \in Keys
         /\ handler[h].pc = "return" => handler[h].key \in Keys \cup {NoKey}
BY Constants DEF AInv, IInv, HandlersOK, StateOK, OrderSteps, KeyOK

LEMMA ReceiveBooked ==
  ASSUME AInv, NEW h \in Handlers, Receive(h)
  PROVE  Booked'
<1>1. PICK p, q, key : p = handler[h].po /\ q = handler[h].qty /\ key = handler[h].key
  OBVIOUS
<1>2. p \in Pos /\ q \in [Levels -> Nat] /\ key \in Keys /\ Booked /\ RowsOK
  BY <1>1, Brought DEF Receive, At, AInv, IInv
<1>3. \/ /\ ~ReceiptKnown(key)
         /\ received' = [received EXCEPT ![p] = Plus(received[p], q)]
         /\ stock' = Plus(stock, InBase(q))
         /\ grns' = Append(grns, [po |-> p, key |-> key, qty |-> InBase(q)])
         /\ UNCHANGED <<returns, sold>>
      \/ UNCHANGED <<received, stock, grns, returns, sold>>
  BY <1>1 DEF Receive, rowVars
<1> QED BY <1>2, <1>3, GoodsIn, BookedStays

LEMMA ReturnBooked ==
  ASSUME AInv, NEW h \in Handlers, Return(h)
  PROVE  Booked'
<1>1. PICK p, q, key : p = handler[h].po /\ q = handler[h].qty /\ key = handler[h].key
  OBVIOUS
<1>2. p \in Pos /\ q \in [Levels -> Nat] /\ key \in Keys \cup {NoKey} /\ Booked /\ RowsOK
  BY <1>1, Brought DEF Return, At, AInv, IInv
<1>3. \/ /\ \A l \in Levels : q[l] > 0 => q[l] <= stock[l]
         /\ received' = [received EXCEPT ![p] = Minus(received[p], q)]
         /\ stock' = Minus(stock, q)
         /\ returns' = Append(returns, [po |-> p, key |-> key, qty |-> q])
         /\ UNCHANGED <<grns, sold>>
      \/ UNCHANGED <<received, stock, grns, returns, sold>>
  BY <1>1 DEF Return, Returnable, rowVars
<1> QED BY <1>2, <1>3, GoodsOut, BookedStays

LEMMA InitBooked == Init => AInv
<1> SUFFICES ASSUME Init PROVE AInv
  OBVIOUS
<1>1. grns = <<>> /\ returns = <<>> /\ stock = Opening /\ \A l \in Levels : sold[l] = 0
  BY DEF Init
<1>2. GoodsTyped
  BY <1>1, PurchasingAssumption DEF Init, GoodsTyped
<1>3. \A f : DOMAIN f = {} => SumFunction(f) = 0
  BY SumNothing, FS_EmptySet
<1>4. \A p, l : In(p, l) = 0 /\ Out(p, l) = 0
  <2>1. DOMAIN grns = {} /\ DOMAIN returns = {}
    BY <1>1
  <2> QED BY <1>3, <2>1 DEF In, Out
<1>5. \A l \in Levels : Net(l) = 0
  <2>1. ASSUME NEW l \in Levels PROVE Net(l) = 0
    <3> DEFINE f == [p \in Pos |-> In(p, l) - Out(p, l)]
    <3>1. DOMAIN f = Pos /\ \A p \in Pos : f[p] = 0
      BY <1>4
    <3>2. SumFunction(f) = 0
      <4> HIDE DEF f
      <4> QED BY <3>1, SumNothing, PurchasingAssumption
    <3> QED BY <3>2 DEF Net
  <2> QED BY <2>1
<1>6. LinesBooked
  <2>1. \A l \in Levels : Per[l] * (0 + 0) = 0
    BY Rates
  <2>2. \A p \in Pos, l \in Levels : received[p][l] = 0
    BY DEF Init
  <2> QED BY <1>4, <2>1, <2>2 DEF LinesBooked
<1>7. StockBooked
  BY <1>1, <1>5, Rates DEF StockBooked
<1>8. OneReceipt /\ \A h \in Handlers : KeyOK(handler[h])
  BY <1>1 DEF OneReceipt, Init, Idle, KeyOK
<1> QED BY <1>2, <1>6, <1>7, <1>8, InitIInv DEF AInv, Booked

LEMMA NextBooked == AInv /\ [Next]_vars => AInv'
<1> SUFFICES ASSUME AInv, [Next]_vars PROVE AInv'
  OBVIOUS
<1>0. IInv' /\ Booked
  BY NextIInv DEF AInv
<1>1. ASSUME NEW h \in Handlers, Call(h) PROVE AInv'
  BY <1>0, <1>1, CallKeys, BookedStays DEF AInv, rowVars
<1>2. ASSUME NEW h \in Handlers, Done(h), Booked' PROVE AInv'
  BY <1>0, <1>2, KeysDone DEF AInv
<1>3. ASSUME NEW h \in Handlers, Work(h) \/ Crash(h) PROVE AInv'
  <2>1. CASE WriteStatus(h) \/ CreateInvoice(h) \/ SetLimit(h) \/ Pay(h) \/ Crash(h)
    BY <1>0, <1>2, <2>1, BookedStays DEF WriteStatus, CreateInvoice, SetLimit, Pay, Crash, rowVars
  <2>2. CASE Receive(h)
    BY <1>2, <2>2, ReceiveBooked DEF Receive
  <2>3. CASE Return(h)
    BY <1>2, <2>3, ReturnBooked DEF Return
  <2> QED BY <1>3, <2>1, <2>2, <2>3 DEF Work
<1>4. ASSUME NEW l \in Levels, Sell(l) PROVE AInv'
  BY <1>0, <1>4, GoodsSold DEF Sell, AInv
<1>5. CASE UNCHANGED vars
  BY <1>0, <1>5, BookedStays DEF vars, rowVars, AInv
<1> QED BY <1>1, <1>3, <1>4, <1>5 DEF Next

(* Whatever requests race, fail and repeat, what the orders hold, the stock  *)
(* and the documents of receipts and returns agree, and one key makes one    *)
(* receipt.                                                                  *)
THEOREM GoodsReconciled == Spec => []GoodsBooked
<1>1. AInv => GoodsBooked
  BY BookedIs DEF AInv, Booked
<1> QED BY <1>1, InitBooked, NextBooked, PTL DEF Spec

-----------------------------------------------------------------------------
(* A third layer: what is owed.  A payment writes the row it read, so the    *)
(* sums hold for an invoice no two requests raced on; that no more is paid   *)
(* than invoiced, and the status, hold for every row by itself.              *)

DocumentNumbers == ({"invoice", "credit"} \X Nat) \cup ClientNumbers
Inv == [kind: {"invoice", "credit"}, number: DocumentNumbers, source: {"hand", "grn", "return"},
        grn: Nat, total: Nat, paid: Nat, status: {"open", "credit", "partial", "paid"}]
Payment == [invoice: Nat, amount: Nat]

RowRight(v) ==
  /\ v.total > 0 /\ v.paid <= v.total
  /\ v.status = "paid" <=> v.paid = v.total
  /\ v.status = "partial" <=> 0 < v.paid /\ v.paid < v.total
  /\ v.kind = "invoice" => v.status # "credit"

PayTyped ==
  /\ invoices \in Seq(Inv) /\ payments \in Seq(Payment)
  /\ \A i \in DOMAIN invoices : RowRight(invoices[i]) /\ invoices[i].grn <= Len(grns)
  /\ \A n \in DOMAIN payments : payments[n].invoice \in DOMAIN invoices

(* The sums by name. *)
PaidFor(i) == SumFunction([n \in {n \in DOMAIN payments : payments[n].invoice = i} |-> payments[n].amount])
Unpaid == {i \in DOMAIN invoices : invoices[i].kind = "invoice" /\ invoices[i].status \in {"open", "partial"}}
OwedInv == SumFunction([i \in Unpaid |-> invoices[i].total - invoices[i].paid])

PaidAgree ==
  \A i \in DOMAIN invoices :
    /\ invoices[i].paid <= PaidFor(i)
    /\ Invoice(i) \notin raced => invoices[i].paid = PaidFor(i)
FromReceipt(i) == invoices[i].source = "grn" /\ Receipt(invoices[i].grn) \notin raced
InvoicedFirst ==
  \A i, j \in DOMAIN invoices : FromReceipt(i) /\ invoices[j].grn = invoices[i].grn => i <= j

LimitTyped == limit \in Nat /\ carried \in Int
Calm == limit > 0 /\ Supplier \notin raced /\ \A i \in DOMAIN invoices : Invoice(i) \notin raced
LimitKept == Calm => OwedInv <= limit \/ OwedInv <= carried

(* What a handler has read still holds, unless it was raced. *)
MayInvoice(s) ==
  /\ s.row \in Inv /\ RowRight(s.row) /\ s.row.paid = 0 /\ s.row.grn <= Len(grns)
  /\ Supplier \in s.on
  /\ s.row.grn # 0 => Receipt(s.row.grn) \in s.on
  /\ s.row.source = "grn" => s.row.grn # 0
  /\ s.row.source = "grn" /\ Receipt(s.row.grn) \notin raced => InvoicesOf(s.row.grn) = {}
  /\ s.row.kind = "invoice" /\ Calm => OwedInv + s.row.total <= limit
MayPay(s) ==
  /\ s.invoice \in DOMAIN invoices /\ Invoice(s.invoice) \in s.on /\ s.amount \in Nat \ {0}
  /\ s.row \in Inv /\ RowRight(s.row) /\ s.amount <= s.row.total - s.row.paid
  /\ s.row.kind = invoices[s.invoice].kind /\ s.row.grn = invoices[s.invoice].grn
  /\ s.row.total = invoices[s.invoice].total /\ s.row.source = invoices[s.invoice].source
  /\ s.row.paid <= PaidFor(s.invoice)
  /\ Invoice(s.invoice) \notin raced => s.row = invoices[s.invoice]
PayOK(s) ==
  /\ s.pc = "limit" => s.limit \in Nat /\ Supplier \in s.on
  /\ s.pc = "invoice" => MayInvoice(s)
  /\ s.pc = "pay" => MayPay(s)

Payable == PayTyped /\ PaidAgree /\ InvoicedFirst /\ LimitTyped /\ LimitKept
HandlersPay == \A h \in Handlers : PayOK(handler[h])
BInv == AInv /\ Payable /\ HandlersPay

LEMMA PayablesAre == Payable => PayablesAgree
<1> SUFFICES ASSUME Payable PROVE PayablesAgree
  OBVIOUS
<1>1. ASSUME NEW i \in DOMAIN invoices
      PROVE  LET v == invoices[i]
                 sum == SumOver({n \in DOMAIN payments : payments[n].invoice = i}, LAMBDA n : payments[n].amount)
             IN
             /\ v.paid <= v.total /\ v.paid <= sum
             /\ Invoice(i) \notin raced => v.paid = sum
             /\ (v.status = "paid") = (v.paid = v.total)
             /\ (v.status = "partial") = (0 < v.paid /\ v.paid < v.total)
  <2>1. invoices[i].paid <= PaidFor(i) /\ (Invoice(i) \notin raced => invoices[i].paid = PaidFor(i))
    BY DEF Payable, PaidAgree
  <2>2. RowRight(invoices[i])
    BY DEF Payable, PayTyped
  <2> QED BY <2>1, <2>2 DEF PaidFor, SumOver, RowRight
<1>2. ASSUME NEW i \in DOMAIN invoices, NEW j \in DOMAIN invoices, invoices[i].source = "grn",
             invoices[j].grn = invoices[i].grn, Receipt(invoices[i].grn) \notin raced
      PROVE  i <= j
  BY <1>2 DEF Payable, InvoicedFirst, FromReceipt
<1>3. limit > 0 /\ Supplier \notin raced /\ (\A i \in DOMAIN invoices : Invoice(i) \notin raced) =>
        LET owed == SumOver({i \in DOMAIN invoices : invoices[i].kind = "invoice" /\ invoices[i].status \in {"open", "partial"}},
                            LAMBDA i : invoices[i].total - invoices[i].paid)
        IN owed <= limit \/ owed <= carried
  BY DEF Payable, LimitKept, Calm, OwedInv, Unpaid, SumOver
<1> QED BY <1>1, <1>2, <1>3 DEF PayablesAgree

LEMMA InvoiceTyped ==
  ASSUME PayTyped, NEW i \in DOMAIN invoices
  PROVE  /\ invoices[i] \in Inv /\ RowRight(invoices[i])
         /\ invoices[i].total \in Nat /\ invoices[i].paid \in Nat /\ invoices[i].grn \in Nat
         /\ invoices[i].total - invoices[i].paid \in Nat
<1>1. invoices[i] \in Inv /\ RowRight(invoices[i])
  BY DEF PayTyped
<1> QED BY <1>1 DEF Inv, RowRight

LEMMA SumOwedTyped ==
  ASSUME NEW v \in Seq(Inv)
  PROVE  SumFunction([i \in {i \in DOMAIN v : v[i].kind = "invoice" /\ v[i].status \in {"open", "partial"}} |->
                        v[i].total - v[i].paid]) \in Int
<1> DEFINE U == {i \in DOMAIN v : v[i].kind = "invoice" /\ v[i].status \in {"open", "partial"}}
           f == [i \in U |-> v[i].total - v[i].paid]
<1>1. U \subseteq DOMAIN v
  OBVIOUS
<1>2. IsFiniteSet(U)
  BY <1>1, RowsFinite
<1>3. \A i \in DOMAIN v : v[i] \in Inv
  OBVIOUS
<1>4. f \in [U -> Int]
  BY <1>3 DEF Inv
<1>5. SumFunction(f) \in Int
  <2> HIDE DEF f, U
  <2> QED BY <1>2, <1>4, SumInt
<1> QED BY <1>5

LEMMA OwedTyped ==
  /\ PayTyped => OwedInv \in Int
  /\ PayTyped' => OwedInv' \in Int
BY SumOwedTyped DEF PayTyped, OwedInv, Unpaid

LEMMA PaidForTyped == ASSUME PayTyped, NEW i PROVE PaidFor(i) \in Int
<1> DEFINE R == {n \in DOMAIN payments : payments[n].invoice = i}
           f == [n \in R |-> payments[n].amount]
<1>1. R \subseteq DOMAIN payments
  OBVIOUS
<1>2. IsFiniteSet(R)
  BY <1>1, RowsFinite DEF PayTyped
<1>3. \A n \in DOMAIN payments : payments[n] \in Payment
  BY DEF PayTyped
<1>4. f \in [R -> Int]
  BY <1>3 DEF Payment
<1>5. SumFunction(f) \in Int
  <2> HIDE DEF f, R
  <2> QED BY <1>2, <1>4, SumInt
<1> QED BY <1>5 DEF PaidFor

(* The limit is compared with all that is owed, credit notes included. *)
LEMMA OwedCounts ==
  ASSUME PayTyped
  PROVE  OwedInv <= Owed /\ OwedInv \in Int /\ Owed \in Int
<1> DEFINE A == {i \in DOMAIN invoices : invoices[i].status \in {"open", "partial"}}
           f == [i \in Unpaid |-> invoices[i].total - invoices[i].paid]
           g == [i \in A |-> invoices[i].total - invoices[i].paid]
           u == [i \in A |-> IF i \in Unpaid THEN invoices[i].total - invoices[i].paid ELSE 0]
<1>1. Unpaid \in SUBSET A /\ A \in SUBSET DOMAIN invoices
  BY DEF Unpaid
<1>2. IsFiniteSet(A)
  BY <1>1, RowsFinite DEF PayTyped
<1>3. /\ g \in [A -> Int] /\ u \in [A -> Int] /\ DOMAIN f = Unpaid
      /\ \A i \in A : u[i] <= g[i]
      /\ \A i \in Unpaid : f[i] = u[i]
      /\ \A i \in A \ Unpaid : u[i] = 0
  BY <1>1, InvoiceTyped
<1>4. SumFunction(u) <= SumFunction(g) /\ SumFunction(g) \in Int
  <2> HIDE DEF u, g, A
  <2> QED BY <1>2, <1>3, SumAtMost, SumInt
<1>5. SumFunction(f) = SumFunction(u)
  <2> HIDE DEF u, f, A
  <2> QED BY <1>1, <1>2, <1>3, SumFiltered
<1> QED BY <1>4, <1>5, OwedTyped DEF OwedInv, Owed, SumOver

(* A document is added. *)
LEMMA InvoiceAdded ==
  ASSUME PayTyped, NEW v \in Inv, RowRight(v), v.paid = 0, v.grn <= Len(grns),
         invoices' = Append(invoices, v), UNCHANGED <<payments, grns>>
  PROVE  /\ PayTyped'
         /\ DOMAIN invoices' = DOMAIN invoices \cup {Len(invoices) + 1}
         /\ Len(invoices) + 1 \notin DOMAIN invoices /\ invoices'[Len(invoices) + 1] = v
         /\ \A i \in DOMAIN invoices : invoices'[i] = invoices[i]
         /\ \A i : PaidFor(i)' = PaidFor(i)
         /\ PaidFor(Len(invoices) + 1) = 0
         /\ \A n : n # v.grn => InvoicesOf(n)' = InvoicesOf(n)
         /\ InvoicesOf(v.grn)' = InvoicesOf(v.grn) \cup {Len(invoices) + 1}
         /\ OwedInv' = OwedInv + (IF v.kind = "invoice" THEN v.total ELSE 0)
<1> DEFINE a == Len(invoices) + 1
           S == DOMAIN invoices'
           f == [i \in Unpaid |-> invoices[i].total - invoices[i].paid]
           g == [i \in Unpaid' |-> invoices'[i].total - invoices'[i].paid]
<1>1. /\ invoices' \in Seq(Inv) /\ S = DOMAIN invoices \cup {a} /\ a \notin DOMAIN invoices
      /\ invoices'[a] = v /\ \A i \in DOMAIN invoices : invoices'[i] = invoices[i]
  BY Appended DEF PayTyped
<1>2. PayTyped'
  BY <1>1 DEF PayTyped
<1>3. \A i : PaidFor(i)' = PaidFor(i)
  BY DEF PaidFor
<1>4. PaidFor(a) = 0
  <2> DEFINE R == {n \in DOMAIN payments : payments[n].invoice = a}
             e == [n \in R |-> payments[n].amount]
  <2>1. R = {}
    BY <1>1 DEF PayTyped
  <2>2. DOMAIN e = {} /\ IsFiniteSet({})
    BY <2>1, FS_EmptySet
  <2>3. SumFunction(e) = 0
    <3> HIDE DEF e
    <3> QED BY <2>2, SumNothing
  <2> QED BY <2>3 DEF PaidFor
<1>5. /\ \A n : n # v.grn => InvoicesOf(n)' = InvoicesOf(n)
      /\ InvoicesOf(v.grn)' = InvoicesOf(v.grn) \cup {a}
  BY <1>1 DEF InvoicesOf
<1>6. OwedInv' = OwedInv + (IF v.kind = "invoice" THEN v.total ELSE 0)
  <2>1. IsFiniteSet(S)
    BY <1>1, RowsFinite
  <2>2. Unpaid \in SUBSET S /\ Unpaid' \in SUBSET S
    BY <1>1 DEF Unpaid
  <2>3. Numbers(f, S)
    <3>1. \A i \in Unpaid : invoices[i].total - invoices[i].paid \in Int
      BY InvoiceTyped DEF Unpaid
    <3> QED BY <2>2, <3>1 DEF Numbers
  <2>4. Numbers(g, S)
    <3>1. \A i \in S : i \in DOMAIN invoices \/ i = a
      BY <1>1
    <3>2. \A i \in S : invoices'[i] \in Inv
      BY <1>1, <3>1, InvoiceTyped
    <3>3. PICK U : U = Unpaid'
      OBVIOUS
    <3>4. \A i \in U : invoices'[i].total - invoices'[i].paid \in Int
      BY <2>2, <3>2, <3>3 DEF Inv
    <3>5. U \in SUBSET S /\ g = [i \in U |-> invoices'[i].total - invoices'[i].paid]
      BY <2>2, <3>3
    <3> QED BY <3>4, <3>5 DEF Numbers
  <2>5. SameBut(f, g, S, a)
    BY <1>1 DEF SameBut, Unpaid
  <2>6. ValueAt(f, a) = 0
    BY <1>1 DEF ValueAt, Unpaid
  <2>7. ValueAt(g, a) = IF v.kind = "invoice" THEN v.total ELSE 0
    <3>1. v.kind = "invoice" => v.status = "open"
      BY DEF RowRight, Inv
    <3>2. a \in Unpaid' <=> v.kind = "invoice"
      BY <1>1, <3>1 DEF Unpaid
    <3>3. v.total - v.paid = v.total
      BY DEF Inv
    <3> QED BY <1>1, <3>2, <3>3 DEF ValueAt
  <2>8. a \in S
    BY <1>1
  <2>9. OwedInv = SumFunction(f) /\ OwedInv' = SumFunction(g)
    BY DEF OwedInv
  <2>10. OwedInv \in Int /\ v.total \in Int
    BY OwedTyped DEF Inv
  <2> HIDE DEF f, g, S, a
  <2>11. SumFunction(g) = SumFunction(f) - ValueAt(f, a) + ValueAt(g, a)
    BY <2>1, <2>3, <2>4, <2>5, <2>8, SumOneRow
  <2> QED BY <2>6, <2>7, <2>9, <2>10, <2>11
<1> QED BY <1>1, <1>2, <1>3, <1>4, <1>5, <1>6

(* A payment is booked on the row its handler read. *)
LEMMA InvoicePaid ==
  ASSUME PayTyped, NEW i \in DOMAIN invoices, NEW row \in Inv, RowRight(row), NEW m \in Nat \ {0},
         m <= row.total - row.paid,
         row.kind = invoices[i].kind, row.grn = invoices[i].grn, row.total = invoices[i].total,
         row.source = invoices[i].source,
         invoices' = [invoices EXCEPT ![i] = Paid(row, row.paid + m)],
         payments' = Append(payments, [invoice |-> i, amount |-> m]), UNCHANGED grns
  PROVE  /\ PayTyped'
         /\ DOMAIN invoices' = DOMAIN invoices
         /\ \A j \in DOMAIN invoices : j # i => invoices'[j] = invoices[j]
         /\ invoices'[i].kind = row.kind /\ invoices'[i].grn = row.grn /\ invoices'[i].total = row.total
         /\ invoices'[i].paid = row.paid + m /\ invoices'[i].source = row.source
         /\ PaidFor(i)' = PaidFor(i) + m
         /\ \A j : j # i => PaidFor(j)' = PaidFor(j)
         /\ \A n : InvoicesOf(n)' = InvoicesOf(n)
         /\ row = invoices[i] => OwedInv' <= OwedInv
<1>1. PICK v : v = Paid(row, row.paid + m)
  OBVIOUS
<1>2. /\ v \in Inv /\ v.kind = row.kind /\ v.grn = row.grn /\ v.total = row.total
      /\ v.paid = row.paid + m /\ v.source = row.source /\ v.status = (IF v.paid >= v.total THEN "paid" ELSE "partial")
      /\ row.paid \in Nat /\ row.total \in Nat /\ row.grn \in Nat
  <2>1. row.paid \in Nat /\ row.total \in Nat /\ row.grn \in Nat /\ row.paid + m \in Nat
    BY DEF Inv
  <2>2. v = [row EXCEPT !.paid = row.paid + m,
                        !.status = IF row.paid + m >= row.total THEN "paid" ELSE "partial"]
    BY <1>1 DEF Paid
  <2>3. PICK p, s : p = row.paid + m /\ s = IF p >= row.total THEN "paid" ELSE "partial"
    OBVIOUS
  <2>4. v = [row EXCEPT !.paid = p, !.status = s] /\ p \in Nat /\ s \in {"paid", "partial"}
    BY <2>1, <2>2, <2>3
  <2>5. v \in Inv /\ v.kind = row.kind /\ v.grn = row.grn /\ v.total = row.total /\ v.paid = p /\ v.status = s
        /\ v.source = row.source
    BY <2>4 DEF Inv
  <2> QED BY <2>1, <2>3, <2>5
<1>3. RowRight(v)
  <2>1. v.total > 0 /\ v.paid <= v.total /\ 0 < v.paid /\ v.paid \in Nat /\ v.total \in Nat
    BY <1>2 DEF RowRight
  <2>2. v.paid >= v.total <=> v.paid = v.total
    BY <2>1
  <2>3. v.paid < v.total <=> v.paid # v.total
    BY <2>1
  <2> QED BY <1>2, <2>1, <2>2, <2>3 DEF RowRight
<1>4. /\ DOMAIN invoices' = DOMAIN invoices /\ invoices'[i] = v
      /\ \A j \in DOMAIN invoices : j # i => invoices'[j] = invoices[j]
      /\ invoices' \in Seq(Inv)
  BY <1>1, <1>2 DEF PayTyped
<1>5. PICK e : e = [invoice |-> i, amount |-> m]
  OBVIOUS
<1>6. e \in Payment /\ e.invoice = i /\ e.amount = m
  <2>1. i \in Nat
    BY DEF PayTyped
  <2> QED BY <1>5, <2>1 DEF Payment
<1> DEFINE b == Len(payments) + 1
           D == DOMAIN payments'
<1>7. /\ payments' \in Seq(Payment) /\ D = DOMAIN payments \cup {b} /\ b \notin DOMAIN payments
      /\ payments'[b] = e /\ \A n \in DOMAIN payments : payments'[n] = payments[n]
  BY <1>5, <1>6, Appended DEF PayTyped
<1>8. PayTyped'
  <2>1. \A j \in DOMAIN invoices' : RowRight(invoices'[j]) /\ invoices'[j].grn <= Len(grns)
    BY <1>2, <1>3, <1>4 DEF PayTyped
  <2>2. \A n \in D : payments'[n].invoice \in DOMAIN invoices'
    BY <1>4, <1>6, <1>7 DEF PayTyped
  <2> QED BY <1>4, <1>7, <2>1, <2>2 DEF PayTyped
<1>9. ASSUME NEW j PROVE PaidFor(j)' = PaidFor(j) + (IF j = i THEN m ELSE 0)
  <2> DEFINE f == [n \in {n \in DOMAIN payments : payments[n].invoice = j} |-> payments[n].amount]
             g == [n \in {n \in D : payments'[n].invoice = j} |-> payments'[n].amount]
  <2>1. IsFiniteSet(D) /\ b \in D
    BY <1>7, RowsFinite
  <2>2. Numbers(f, D)
    <3>1. \A n \in DOMAIN payments : payments[n] \in Payment
      BY DEF PayTyped
    <3> QED BY <1>7, <3>1 DEF Numbers, Payment
  <2>3. Numbers(g, D)
    <3>1. \A n \in D : payments'[n] \in Payment
      BY <1>7
    <3> QED BY <3>1 DEF Numbers, Payment
  <2>4. SameBut(f, g, D, b)
    BY <1>7 DEF SameBut
  <2>5. ValueAt(f, b) = 0
    BY <1>7 DEF ValueAt
  <2>6. ValueAt(g, b) = IF j = i THEN m ELSE 0
    BY <1>6, <1>7 DEF ValueAt
  <2>7. PaidFor(j) = SumFunction(f) /\ PaidFor(j)' = SumFunction(g)
    BY DEF PaidFor
  <2>8. PaidFor(j) \in Int
    BY PaidForTyped
  <2> HIDE DEF f, g, D, b
  <2>9. SumFunction(g) = SumFunction(f) - ValueAt(f, b) + ValueAt(g, b)
    BY <2>1, <2>2, <2>3, <2>4, SumOneRow
  <2> QED BY <2>5, <2>6, <2>7, <2>8, <2>9
<1>10. \A n : InvoicesOf(n)' = InvoicesOf(n)
  BY <1>2, <1>4 DEF InvoicesOf
<1>11. ASSUME row = invoices[i] PROVE OwedInv' <= OwedInv
  <2> DEFINE f == [j \in Unpaid |-> invoices[j].total - invoices[j].paid]
             g == [j \in Unpaid' |-> invoices'[j].total - invoices'[j].paid]
             S == DOMAIN invoices
  <2>1. IsFiniteSet(S) /\ i \in S
    BY RowsFinite DEF PayTyped
  <2>2. Unpaid \in SUBSET S /\ Unpaid' \in SUBSET S
    BY <1>4 DEF Unpaid
  <2>3. Numbers(f, S)
    <3>1. \A j \in Unpaid : invoices[j].total - invoices[j].paid \in Int
      BY InvoiceTyped DEF Unpaid
    <3> QED BY <2>2, <3>1 DEF Numbers
  <2>4. Numbers(g, S)
    <3>1. \A j \in Unpaid' : invoices'[j] \in Inv
      BY <1>8 DEF Unpaid, PayTyped
    <3>2. \A j \in Unpaid' : invoices'[j].total - invoices'[j].paid \in Int
      BY <3>1 DEF Inv
    <3> QED BY <2>2, <3>2 DEF Numbers
  <2>5. SameBut(f, g, S, i)
    BY <1>4 DEF SameBut, Unpaid
  <2>6. ValueAt(g, i) <= ValueAt(f, i) /\ ValueAt(g, i) \in Int /\ ValueAt(f, i) \in Int
    <3>1. i \in Unpaid => f[i] = row.total - row.paid
      BY <1>11
    <3>2. i \in Unpaid' => g[i] = row.total - (row.paid + m)
      BY <1>2, <1>4
    <3>3. i \in Unpaid' => i \in Unpaid
      <4>1. i \in Unpaid' => row.kind = "invoice"
        BY <1>2, <1>4 DEF Unpaid
      <4>2. row.status # "paid" /\ row.status \in {"open", "credit", "partial", "paid"}
        BY <1>2 DEF RowRight, Inv
      <4>3. row.kind = "invoice" => row.status \in {"open", "partial"}
        BY <4>2 DEF RowRight
      <4> QED BY <1>11, <4>1, <4>3 DEF Unpaid
    <3>4. row.total - row.paid \in Nat /\ row.total - (row.paid + m) <= row.total - row.paid
          /\ row.total - (row.paid + m) \in Int
      BY <1>2 DEF RowRight
    <3>5. DOMAIN f = Unpaid /\ DOMAIN g = Unpaid'
      OBVIOUS
    <3> HIDE DEF f, g
    <3> QED BY <3>1, <3>2, <3>3, <3>4, <3>5 DEF ValueAt
  <2>7. OwedInv = SumFunction(f) /\ OwedInv' = SumFunction(g)
    BY DEF OwedInv
  <2>8. OwedInv \in Int
    BY OwedTyped
  <2> HIDE DEF f, g, S
  <2>9. SumFunction(g) = SumFunction(f) - ValueAt(f, i) + ValueAt(g, i)
    BY <2>1, <2>3, <2>4, <2>5, SumOneRow
  <2> QED BY <2>6, <2>7, <2>8, <2>9
<1>12. PaidFor(i)' = PaidFor(i) + m /\ \A j : j # i => PaidFor(j)' = PaidFor(j)
  <2>1. ASSUME NEW j, j # i PROVE PaidFor(j)' = PaidFor(j)
    BY <1>9, <2>1, PaidForTyped
  <2> QED BY <1>9, <2>1
<1> QED BY <1>2, <1>4, <1>8, <1>10, <1>11, <1>12

(* What a transaction of handler h leaves to the others. *)
Spares(h) ==
  /\ Len(grns) <= Len(grns') /\ Len(grns) \in Nat /\ Len(grns') \in Nat
  /\ DOMAIN invoices \subseteq DOMAIN invoices'
  /\ \A j \in DOMAIN invoices :
       /\ invoices'[j].kind = invoices[j].kind /\ invoices'[j].grn = invoices[j].grn
       /\ invoices'[j].total = invoices[j].total /\ invoices'[j].source = invoices[j].source
       /\ Invoice(j) \in handler[h].on \/ invoices'[j] = invoices[j]
       /\ PaidFor(j) <= PaidFor(j)' /\ PaidFor(j) \in Int /\ PaidFor(j)' \in Int
  /\ \A n : n # 0 => Receipt(n) \in handler[h].on \/ InvoicesOf(n)' = InvoicesOf(n)
  /\ Supplier \in handler[h].on \/ (limit' = limit /\ (Calm' => OwedInv' <= OwedInv))

LEMMA CalmWas ==
  ASSUME limit' = limit, raced \subseteq raced', DOMAIN invoices \subseteq DOMAIN invoices'
  PROVE  Calm' => Calm
BY DEF Calm, Supplier, Invoice

LEMMA Spared ==
  ASSUME PayTyped, LimitTyped, NEW h, Spares(h), NEW s, PayOK(s), raced' = raced, OwedInv' \in Int,
         handler[h].on \cap s.on \subseteq raced
  PROVE  PayOK(s)'
<1>1. ASSUME s.pc = "invoice", MayInvoice(s) PROVE MayInvoice(s)'
  <2>1. s.row.grn \in Nat /\ s.row.total \in Nat
    BY <1>1 DEF MayInvoice, Inv
  <2>2. s.row.grn <= Len(grns')
    BY <1>1, <2>1 DEF MayInvoice, Spares
  <2>3. s.row.source = "grn" /\ Receipt(s.row.grn) \notin raced => InvoicesOf(s.row.grn)' = {}
    BY <1>1 DEF MayInvoice, Spares
  <2>4. s.row.kind = "invoice" /\ Calm' => OwedInv' + s.row.total <= limit'
    <3> SUFFICES ASSUME s.row.kind = "invoice", Calm' PROVE OwedInv' + s.row.total <= limit'
      OBVIOUS
    <3>1. Supplier \notin raced
      BY DEF Calm, Supplier
    <3>2. OwedInv' <= OwedInv /\ limit' = limit
      BY <1>1, <3>1 DEF MayInvoice, Spares
    <3>3. Calm
      BY <3>2, CalmWas DEF Spares
    <3>4. OwedInv + s.row.total <= limit
      BY <1>1, <3>3 DEF MayInvoice
    <3>5. OwedInv \in Int /\ limit \in Int
      BY OwedTyped DEF LimitTyped
    <3> QED BY <2>1, <3>2, <3>4, <3>5
  <2> QED BY <1>1, <2>2, <2>3, <2>4 DEF MayInvoice, RowRight, Receipt, Supplier
<1>2. ASSUME s.pc = "pay", MayPay(s) PROVE MayPay(s)'
  <2>1. s.invoice \in DOMAIN invoices' /\ Invoice(s.invoice) \notin raced => s.row = invoices'[s.invoice]
    BY <1>2 DEF MayPay, Spares
  <2>2. s.row.paid <= PaidFor(s.invoice)'
    <3>1. s.row.paid \in Nat /\ s.row.paid <= PaidFor(s.invoice)
      BY <1>2 DEF MayPay, Inv
    <3>2. PaidFor(s.invoice) <= PaidFor(s.invoice)' /\ PaidFor(s.invoice) \in Int /\ PaidFor(s.invoice)' \in Int
      BY <1>2 DEF MayPay, Spares
    <3> QED BY <3>1, <3>2
  <2> QED BY <1>2, <2>1, <2>2 DEF MayPay, Spares, RowRight, Invoice
<1> QED BY <1>1, <1>2 DEF PayOK, Supplier

LEMMA PayDone ==
  ASSUME BInv, NEW h \in Handlers, Done(h), raced' = raced, Spares(h), Payable'
  PROVE  HandlersPay'
<1>1. handler'[h] = Idle /\ \A o \in Handlers \ {h} : handler'[o] = handler[o]
  BY DEF BInv, AInv, IInv, HandlersOK, Done
<1>2. PayTyped /\ LimitTyped /\ OwedInv' \in Int
  <2>1. PayTyped /\ LimitTyped /\ PayTyped'
    BY DEF BInv, Payable
  <2>2. OwedInv' \in Int
    BY <2>1, OwedTyped
  <2> QED BY <2>1, <2>2
<1>3. PayOK(Idle)'
  BY DEF PayOK, Idle
<1>4. ASSUME NEW o \in Handlers \ {h} PROVE PayOK(handler[o])'
  <2>1. PICK t : t = handler[o]
    OBVIOUS
  <2>2. PayOK(t) /\ handler[h].on \cap t.on \subseteq raced
    BY <2>1 DEF BInv, HandlersPay, AInv, IInv, RacedOK
  <2>3. PayOK(t)'
    BY <1>2, <2>2, Spared
  <2>4. t = handler'[o]
    BY <1>1, <2>1
  <2> QED BY <2>3, <2>4
<1>5. PayOK(handler[h])'
  BY <1>1, <1>3
<1> QED BY <1>4, <1>5 DEF HandlersPay

(* The same for a handler that wrote no document of the supplier. *)
LEMMA PayableStays ==
  ASSUME Payable, raced \subseteq raced', UNCHANGED <<invoices, payments, limitVars>>,
         Len(grns) <= Len(grns'), GoodsTyped, GoodsTyped'
  PROVE  /\ Payable' /\ OwedInv' = OwedInv
         /\ \A n : InvoicesOf(n)' = InvoicesOf(n)
         /\ \A i : PaidFor(i)' = PaidFor(i)
<1>1. OwedInv' = OwedInv /\ (\A n : InvoicesOf(n)' = InvoicesOf(n)) /\ (\A i : PaidFor(i)' = PaidFor(i))
  BY DEF OwedInv, Unpaid, InvoicesOf, PaidFor
<1>2. PayTyped'
  <2>1. Len(grns) \in Nat /\ Len(grns') \in Nat
    BY DEF GoodsTyped
  <2>2. \A i \in DOMAIN invoices : RowRight(invoices[i]) /\ invoices[i].grn <= Len(grns')
    BY <2>1, InvoiceTyped DEF Payable, PayTyped
  <2> QED BY <2>2 DEF Payable, PayTyped, RowRight
<1>3. PaidAgree'
  BY <1>1 DEF Payable, PaidAgree, Invoice
<1>4. InvoicedFirst'
  BY DEF Payable, InvoicedFirst, FromReceipt, Receipt
<1>5. LimitKept' /\ LimitTyped'
  BY <1>1, CalmWas DEF Payable, LimitKept, LimitTyped, limitVars
<1> QED BY <1>1, <1>2, <1>3, <1>4, <1>5 DEF Payable

LEMMA SparesOthers ==
  ASSUME BInv, NEW h \in Handlers, raced' = raced, UNCHANGED <<invoices, payments, limitVars>>,
         Len(grns) <= Len(grns'), GoodsTyped'
  PROVE  Payable' /\ Spares(h)
<1>1. Payable /\ GoodsTyped
  BY DEF BInv, AInv, Booked
<1>2. /\ Payable' /\ OwedInv' = OwedInv /\ \A n : InvoicesOf(n)' = InvoicesOf(n)
      /\ \A i : PaidFor(i)' = PaidFor(i)
  BY <1>1, PayableStays
<1>3. OwedInv \in Int /\ Len(grns) \in Nat /\ Len(grns') \in Nat /\ \A i : PaidFor(i) \in Int
  BY <1>1, OwedTyped, PaidForTyped DEF Payable, GoodsTyped
<1> QED BY <1>2, <1>3 DEF Spares, limitVars

(* A request begins. *)
LEMMA PayBegun ==
  ASSUME BInv, NEW h \in Handlers, NEW s, Begin(h, s), PayOK(s)
  PROVE  Payable' /\ HandlersPay'
<1>1. /\ handler' = [handler EXCEPT ![h] = s] /\ UNCHANGED <<grns, invoices, payments, limitVars>>
      /\ raced \subseteq raced' /\ GoodsTyped /\ GoodsTyped'
  BY DEF Begin, rowVars, BInv, AInv, Booked, GoodsTyped
<1>2. handler'[h] = s /\ \A o \in Handlers \ {h} : handler'[o] = handler[o]
  BY <1>1 DEF BInv, AInv, IInv, HandlersOK
<1>3. Len(grns) <= Len(grns')
  BY <1>1 DEF GoodsTyped
<1>4. /\ Payable' /\ OwedInv' = OwedInv /\ \A n : InvoicesOf(n)' = InvoicesOf(n)
      /\ \A i : PaidFor(i)' = PaidFor(i)
  BY <1>1, <1>3, PayableStays DEF BInv
<1>5. Calm' => Calm
  BY <1>1, CalmWas DEF limitVars
<1>6. ASSUME NEW t, PayOK(t) PROVE PayOK(t)'
  <2>1. MayInvoice(t) => MayInvoice(t)'
    BY <1>1, <1>4, <1>5 DEF MayInvoice, RowRight, Supplier, Receipt, limitVars
  <2>2. MayPay(t) => MayPay(t)'
    BY <1>1, <1>4 DEF MayPay, RowRight, Invoice
  <2> QED BY <1>6, <2>1, <2>2 DEF PayOK, Supplier
<1>7. ASSUME NEW o \in Handlers PROVE PayOK(handler[o])'
  <2>1. PICK t : t = IF o = h THEN s ELSE handler[o]
    OBVIOUS
  <2>2. PayOK(t)
    BY <2>1 DEF BInv, HandlersPay
  <2>3. PayOK(t)' /\ t = handler'[o]
    BY <1>2, <1>6, <2>1, <2>2
  <2> QED BY <2>3
<1> QED BY <1>4, <1>7 DEF HandlersPay

LEMMA ValueTyped ==
  ASSUME NEW q \in [Levels -> Nat]
  PROVE  Value(q) \in Int
<1> DEFINE f == [l \in Levels |-> q[l] * Cost[l]]
<1>1. f \in [Levels -> Int]
  BY Rates
<1>2. SumFunction(f) \in Int
  <2> HIDE DEF f
  <2> QED BY <1>1, SumInt, PurchasingAssumption
<1> QED BY <1>2 DEF Value, SumOver

LEMMA NewTyped ==
  ASSUME NEW kind \in {"invoice", "credit"}, NEW number \in DocumentNumbers,
         NEW source \in {"hand", "grn", "return"}, NEW grn \in Nat, NEW total \in Nat \ {0},
         NEW v, v = NewInvoice(kind, number, source, grn, total)
  PROVE  /\ v \in Inv /\ RowRight(v) /\ v.paid = 0 /\ v.grn = grn /\ v.total = total /\ v.kind = kind
         /\ v.source = source
<1>1. v = [kind |-> kind, number |-> number, source |-> source, grn |-> grn, total |-> total, paid |-> 0,
           status |-> IF kind = "credit" THEN "credit" ELSE "open"]
  BY DEF NewInvoice
<1>2. v \in Inv /\ v.kind = kind /\ v.grn = grn /\ v.total = total /\ v.paid = 0 /\ v.source = source
      /\ v.status = IF kind = "credit" THEN "credit" ELSE "open"
  BY <1>1 DEF Inv
<1> QED BY <1>2 DEF RowRight

LEMMA NumberTyped ==
  ASSUME PayTyped, NEW kind \in {"invoice", "credit"}
  PROVE  NextNumber(kind) \in DocumentNumbers
<1>1. Len(invoices) + 1 \in Nat
  BY DEF PayTyped
<1> QED BY <1>1 DEF NextNumber, DocumentNumbers

LEMMA InvoiceBegins ==
  ASSUME BInv, NEW h \in Handlers, NEW v \in Inv, RowRight(v), v.paid = 0, v.grn <= Len(grns), NEW on,
         v.grn # 0 => Receipt(v.grn) \in on,
         v.source = "grn" => v.grn # 0 /\ Uninvoiced(v.grn),
         BeginInvoice(h, v, on)
  PROVE  Payable' /\ HandlersPay'
<1>0. PayTyped /\ LimitTyped
  BY DEF BInv, Payable
<1>1. PICK s : s = [pc |-> "invoice", on |-> on \cup {Supplier}, row |-> v]
  OBVIOUS
<1>2. Begin(h, s) /\ s.pc = "invoice" /\ s.on = on \cup {Supplier} /\ s.row = v
  BY <1>1 DEF BeginInvoice
<1>3. ASSUME v.kind = "invoice", Calm PROVE OwedInv + v.total <= limit
  <2>1. v.total \in Nat /\ v.total > 0
    BY DEF Inv, RowRight
  <2>2. Owed + v.total <= limit
    BY <1>3, <2>1 DEF BeginInvoice, WithinLimit, Calm
  <2>3. OwedInv <= Owed /\ OwedInv \in Int /\ Owed \in Int /\ limit \in Int
    BY <1>0, OwedCounts DEF LimitTyped
  <2> QED BY <2>1, <2>2, <2>3
<1>4. MayInvoice(s)
  BY <1>2, <1>3 DEF MayInvoice, Uninvoiced
<1>5. PayOK(s)
  BY <1>2, <1>4 DEF PayOK
<1> QED BY <1>2, <1>5, PayBegun

LEMMA PayBegins ==
  ASSUME BInv, NEW h \in Handlers, NEW i \in DOMAIN invoices, NEW m \in Amounts, BeginPay(h, i, m)
  PROVE  Payable' /\ HandlersPay'
<1>1. PICK s : s = [pc |-> "pay", on |-> {Invoice(i)}, invoice |-> i, amount |-> m, row |-> invoices[i]]
  OBVIOUS
<1>2. /\ Begin(h, s) /\ s.pc = "pay" /\ s.on = {Invoice(i)} /\ s.invoice = i /\ s.amount = m
      /\ s.row = invoices[i]
  BY <1>1 DEF BeginPay
<1>3. invoices[i] \in Inv /\ RowRight(invoices[i])
  BY InvoiceTyped DEF BInv, Payable
<1>4. m \in Nat \ {0} /\ m <= invoices[i].total - invoices[i].paid
  BY PurchasingAssumption DEF BeginPay
<1>5. invoices[i].paid <= PaidFor(i)
  BY DEF BInv, Payable, PaidAgree
<1>6. PayOK(s)
  BY <1>2, <1>3, <1>4, <1>5 DEF PayOK, MayPay
<1> QED BY <1>2, <1>6, PayBegun

LEMMA CallPays ==
  ASSUME BInv, NEW h \in Handlers, Call(h)
  PROVE  Payable' /\ HandlersPay'
<1>0. PayTyped /\ GoodsTyped
  BY DEF BInv, Payable, AInv, Booked
<1>1. ASSUME NEW s, Begin(h, s), s.pc \in OrderSteps PROVE Payable' /\ HandlersPay'
  BY <1>1, PayBegun DEF PayOK, OrderSteps
<1>2. ASSUME NEW p, NEW next, Begin(h, [pc |-> "status", on |-> {Order(p)}, po |-> p, status |-> next])
      PROVE  Payable' /\ HandlersPay'
  BY <1>1, <1>2 DEF OrderSteps
<1>3. ASSUME NEW p, NEW q, NEW key, BeginReceive(h, p, q, key) \/ BeginReturn(h, p, q, key)
      PROVE  Payable' /\ HandlersPay'
  BY <1>1, <1>3 DEF OrderSteps, BeginReceive, BeginReturn
<1>4. ASSUME NEW kind \in {"invoice", "credit"}, NEW grn \in 0..Len(grns), NEW total \in Amounts,
             BeginManual(h, kind, grn, total)
      PROVE  Payable' /\ HandlersPay'
  <2>1. total \in Nat \ {0} /\ grn \in Nat /\ grn <= Len(grns)
    BY <1>0, PurchasingAssumption DEF GoodsTyped
  <2>2. PICK number, on, v : /\ number \in {NextNumber(kind)} \cup ClientNumbers
                             /\ on = {Receipt(n) : n \in {grn} \ {0}}
                             /\ v = NewInvoice(kind, number, "hand", grn, total)
                             /\ BeginInvoice(h, v, on)
    BY <1>4 DEF BeginManual
  <2>3. number \in DocumentNumbers
    BY <1>0, <2>2, NumberTyped DEF DocumentNumbers
  <2>4. v \in Inv /\ RowRight(v) /\ v.paid = 0 /\ v.grn = grn /\ v.source = "hand"
    BY <2>1, <2>2, <2>3, NewTyped
  <2>5. grn # 0 => Receipt(grn) \in on
    BY <2>2
  <2> QED BY <2>1, <2>2, <2>4, <2>5, InvoiceBegins
<1>5. ASSUME NEW n \in DOMAIN grns, BeginFromGrn(h, n)
      PROVE  Payable' /\ HandlersPay'
  <2>1. PICK total : total = Value(grns[n].qty)
    OBVIOUS
  <2>2. grns[n].qty \in [Levels -> Nat] /\ n \in Nat /\ n # 0 /\ n <= Len(grns)
    <3>1. grns[n] \in Grn /\ n \in Nat /\ n # 0 /\ n <= Len(grns)
      BY <1>0 DEF GoodsTyped
    <3> QED BY <3>1 DEF Grn
  <2>3. total \in Nat \ {0}
    BY <1>5, <2>1, <2>2, ValueTyped DEF BeginFromGrn
  <2>4. PICK kind \in {"invoice", "credit"} : kind = "invoice"
    OBVIOUS
  <2>5. PICK on, v : /\ on = {Receipt(n)}
                     /\ v = NewInvoice(kind, NextNumber(kind), "grn", n, total)
                     /\ BeginInvoice(h, v, on) /\ Uninvoiced(n)
    BY <1>5, <2>1, <2>4 DEF BeginFromGrn
  <2>6. NextNumber(kind) \in DocumentNumbers
    BY <1>0, NumberTyped
  <2>7. v \in Inv /\ RowRight(v) /\ v.paid = 0 /\ v.grn = n /\ v.source = "grn"
    BY <2>2, <2>3, <2>5, <2>6, NewTyped
  <2> QED BY <2>2, <2>5, <2>7, InvoiceBegins
<1>6. \/ \E p, next : Begin(h, [pc |-> "status", on |-> {Order(p)}, po |-> p, status |-> next])
      \/ \E p, q, key : BeginReceive(h, p, q, key) \/ BeginReturn(h, p, q, key)
      \/ \E kind \in {"invoice", "credit"}, grn \in 0..Len(grns), total \in Amounts :
           BeginManual(h, kind, grn, total)
      \/ \E n \in DOMAIN grns : BeginFromGrn(h, n)
      \/ \E i \in DOMAIN invoices, m \in Amounts : BeginPay(h, i, m)
      \/ \E new \in Limits : BeginLimit(h, new)
  BY Zenon DEF Call, BeginCreatePo, BeginUpdatePo
<1>7. ASSUME NEW new \in Limits, BeginLimit(h, new)
      PROVE  Payable' /\ HandlersPay'
  <2>1. PICK s : s = [pc |-> "limit", on |-> {Supplier}, limit |-> new]
    OBVIOUS
  <2>2. Begin(h, s) /\ s.pc = "limit" /\ s.on = {Supplier} /\ s.limit \in Nat
    BY <1>7, <2>1, PurchasingAssumption DEF BeginLimit
  <2>3. PayOK(s)
    BY <2>2 DEF PayOK
  <2> QED BY <2>2, <2>3, PayBegun
<1> QED BY <1>2, <1>3, <1>4, <1>5, <1>6, <1>7, PayBegins

(* A transaction adds a document. *)
LEMMA AddedPays ==
  ASSUME BInv, NEW h \in Handlers, NEW v \in Inv, RowRight(v), v.paid = 0, v.grn <= Len(grns),
         invoices' = Append(invoices, v), UNCHANGED <<payments, grns, limitVars>>, raced' = raced,
         v.grn # 0 => Receipt(v.grn) \in handler[h].on,
         v.source = "grn" /\ Receipt(v.grn) \notin raced => InvoicesOf(v.grn) = {},
         v.kind = "invoice" => Supplier \in handler[h].on,
         v.kind = "invoice" /\ Calm => OwedInv + v.total <= limit
  PROVE  Payable' /\ Spares(h)
<1>0. Payable /\ PayTyped /\ GoodsTyped
  BY DEF BInv, Payable, AInv, Booked
<1>9. PICK a : a = Len(invoices) + 1
  OBVIOUS
<1>1. /\ PayTyped'
      /\ DOMAIN invoices' = DOMAIN invoices \cup {a} /\ a \notin DOMAIN invoices /\ invoices'[a] = v
      /\ \A i \in DOMAIN invoices : invoices'[i] = invoices[i]
      /\ \A i : PaidFor(i)' = PaidFor(i)
      /\ PaidFor(a) = 0
      /\ \A n : n # v.grn => InvoicesOf(n)' = InvoicesOf(n)
      /\ InvoicesOf(v.grn)' = InvoicesOf(v.grn) \cup {a}
      /\ OwedInv' = OwedInv + (IF v.kind = "invoice" THEN v.total ELSE 0)
  BY <1>0, <1>9, InvoiceAdded
<1>2. Calm' => Calm
  BY <1>1, CalmWas DEF limitVars
<1>3. OwedInv \in Int /\ \A i : PaidFor(i) \in Int
  BY <1>0, OwedTyped, PaidForTyped
<1>4. PaidAgree'
  <2>1. \A i \in DOMAIN invoices : invoices[i].paid <= PaidFor(i) /\ (Invoice(i) \notin raced => invoices[i].paid = PaidFor(i))
    BY <1>0 DEF Payable, PaidAgree
  <2>2. ASSUME NEW i \in DOMAIN invoices
        PROVE  invoices'[i].paid <= PaidFor(i)' /\ (Invoice(i) \notin raced' => invoices'[i].paid = PaidFor(i)')
    BY <1>1, <2>1
  <2>3. invoices'[a].paid = 0 /\ PaidFor(a)' = 0
    BY <1>1
  <2>4. ASSUME NEW i \in DOMAIN invoices'
        PROVE  invoices'[i].paid <= PaidFor(i)' /\ (Invoice(i) \notin raced' => invoices'[i].paid = PaidFor(i)')
    <3>1. CASE i = a
      BY <2>3, <3>1
    <3>2. CASE i # a
      BY <1>1, <2>2, <3>2
    <3> QED BY <3>1, <3>2
  <2> QED BY <2>4 DEF PaidAgree, Invoice
<1>5. InvoicedFirst'
  <2> SUFFICES ASSUME NEW i \in DOMAIN invoices', NEW j \in DOMAIN invoices', invoices'[i].source = "grn",
                      invoices'[j].grn = invoices'[i].grn, Receipt(invoices'[i].grn) \notin raced
               PROVE  i <= j
    BY DEF InvoicedFirst, FromReceipt, Receipt
  <2>1. CASE j = a
    BY <1>0, <1>1, <1>9, <2>1 DEF PayTyped
  <2>2. CASE j # a /\ i = a
    <3>1. j \in InvoicesOf(v.grn)
      BY <1>1, <2>2 DEF InvoicesOf
    <3> QED BY <1>1, <2>2, <3>1
  <2>3. CASE j # a /\ i # a
    BY <1>0, <1>1, <2>3 DEF Payable, InvoicedFirst, FromReceipt
  <2> QED BY <2>1, <2>2, <2>3
<1>6. LimitKept' /\ LimitTyped'
  <2>1. LimitTyped'
    BY <1>0 DEF Payable, LimitTyped, limitVars
  <2>2. ASSUME Calm' PROVE OwedInv' <= limit \/ OwedInv' <= carried
    <3>1. Calm /\ (OwedInv <= limit \/ OwedInv <= carried)
      BY <1>0, <1>2, <2>2 DEF Payable, LimitKept
    <3>2. CASE v.kind = "invoice"
      BY <1>1, <3>1, <3>2
    <3>3. CASE v.kind # "invoice"
      BY <1>1, <1>3, <3>1, <3>3
    <3> QED BY <3>2, <3>3
  <2> QED BY <2>1, <2>2 DEF LimitKept, limitVars
<1>7. Spares(h)
  <2>1. Len(grns) \in Nat
    BY <1>0 DEF GoodsTyped
  <2>2. \A n : n # 0 => Receipt(n) \in handler[h].on \/ InvoicesOf(n)' = InvoicesOf(n)
    BY <1>1
  <2>3. v.kind # "invoice" => OwedInv' <= OwedInv
    BY <1>1, <1>3
  <2> QED BY <1>1, <1>3, <2>1, <2>2, <2>3 DEF Spares, limitVars
<1> QED BY <1>1, <1>4, <1>5, <1>6, <1>7 DEF Payable

LEMMA CreatePays ==
  ASSUME BInv, NEW h \in Handlers, CreateInvoice(h)
  PROVE  Payable' /\ Spares(h)
<1>1. PICK s : s = handler[h]
  OBVIOUS
<1>2. /\ s.pc = "invoice" /\ MayInvoice(s) /\ raced' = raced /\ UNCHANGED <<payments, grns, limitVars>>
      /\ invoices' = invoices \/ invoices' = Append(invoices, s.row)
  BY <1>1 DEF CreateInvoice, At, Rest, BInv, HandlersPay, PayOK
<1>3. GoodsTyped' /\ Len(grns) <= Len(grns')
  BY <1>2 DEF CreateInvoice, BInv, AInv, Booked, GoodsTyped
<1>4. CASE invoices' = invoices
  BY <1>2, <1>3, <1>4, SparesOthers
<1>5. CASE invoices' = Append(invoices, s.row)
  <2>1. PICK v : v = s.row
    OBVIOUS
  <2>2. /\ v \in Inv /\ RowRight(v) /\ v.paid = 0 /\ v.grn <= Len(grns)
        /\ v.grn # 0 => Receipt(v.grn) \in handler[h].on
        /\ v.source = "grn" /\ Receipt(v.grn) \notin raced => InvoicesOf(v.grn) = {}
        /\ Supplier \in handler[h].on
        /\ v.kind = "invoice" /\ Calm => OwedInv + v.total <= limit
    BY <1>1, <1>2, <2>1 DEF MayInvoice
  <2> QED BY <1>2, <1>5, <2>1, <2>2, AddedPays
<1> QED BY <1>2, <1>4, <1>5

LEMMA ReturnPays ==
  ASSUME BInv, Booked', NEW h \in Handlers, Return(h)
  PROVE  Payable' /\ Spares(h)
<1>1. PICK q : q = handler[h].qty
  OBVIOUS
<1>2. /\ raced' = raced /\ UNCHANGED <<payments, grns, limitVars>> /\ q \in [Levels -> Nat]
      /\ \/ invoices' = invoices
         \/ /\ Value(q) > 0
            /\ invoices' = Append(invoices, NewInvoice("credit", NextNumber("credit"), "return", 0, Value(q)))
  BY <1>1, Brought DEF Return, At, Rest, rowVars, BInv
<1>3. GoodsTyped' /\ Len(grns) <= Len(grns')
  BY <1>2 DEF Booked, BInv, AInv, GoodsTyped
<1>4. CASE invoices' = invoices
  BY <1>2, <1>3, <1>4, SparesOthers
<1>5. CASE /\ Value(q) > 0
           /\ invoices' = Append(invoices, NewInvoice("credit", NextNumber("credit"), "return", 0, Value(q)))
  <2>1. PICK total : total = Value(q)
    OBVIOUS
  <2>2. PICK kind \in {"invoice", "credit"} : kind = "credit"
    OBVIOUS
  <2>3. PICK v : v = NewInvoice(kind, NextNumber(kind), "return", 0, total)
    OBVIOUS
  <2>4. total \in Nat \ {0}
    BY <1>2, <1>5, <2>1, ValueTyped
  <2>5. v \in Inv /\ RowRight(v) /\ v.paid = 0 /\ v.grn = 0 /\ v.kind = kind /\ v.source = "return"
    <3>1. NextNumber(kind) \in DocumentNumbers
      BY NumberTyped DEF BInv, Payable
    <3> QED BY <2>3, <2>4, <3>1, NewTyped
  <2>6. v.kind # "invoice" /\ v.grn <= Len(grns) /\ invoices' = Append(invoices, v)
    BY <1>5, <2>1, <2>2, <2>3, <2>5 DEF BInv, AInv, Booked, GoodsTyped
  <2> QED BY <1>2, <2>5, <2>6, AddedPays
<1> QED BY <1>2, <1>4, <1>5

LEMMA PayPays ==
  ASSUME BInv, NEW h \in Handlers, Pay(h)
  PROVE  Payable' /\ Spares(h)
<1>0. Payable /\ PayTyped /\ GoodsTyped
  BY DEF BInv, Payable, AInv, Booked
<1>1. PICK s : s = handler[h]
  OBVIOUS
<1>2. /\ s.pc = "pay" /\ MayPay(s) /\ raced' = raced /\ UNCHANGED <<grns, limitVars>>
      /\ payments' = Append(payments, [invoice |-> s.invoice, amount |-> s.amount])
      /\ invoices' = [invoices EXCEPT ![s.invoice] = Paid(s.row, s.row.paid + s.amount)]
  BY <1>1 DEF Pay, At, Rest, BInv, HandlersPay, PayOK
<1>3. PICK i, m, row : i = s.invoice /\ m = s.amount /\ row = s.row
  OBVIOUS
<1>4. /\ i \in DOMAIN invoices /\ row \in Inv /\ RowRight(row) /\ m \in Nat \ {0} /\ m <= row.total - row.paid
      /\ row.kind = invoices[i].kind /\ row.grn = invoices[i].grn /\ row.total = invoices[i].total
      /\ row.source = invoices[i].source /\ row.paid <= PaidFor(i)
      /\ Invoice(i) \notin raced => row = invoices[i]
      /\ Invoice(i) \in handler[h].on
      /\ payments' = Append(payments, [invoice |-> i, amount |-> m])
      /\ invoices' = [invoices EXCEPT ![i] = Paid(row, row.paid + m)]
  BY <1>1, <1>2, <1>3 DEF MayPay
<1>5. /\ PayTyped'
      /\ DOMAIN invoices' = DOMAIN invoices
      /\ \A j \in DOMAIN invoices : j # i => invoices'[j] = invoices[j]
      /\ invoices'[i].kind = row.kind /\ invoices'[i].grn = row.grn /\ invoices'[i].total = row.total
      /\ invoices'[i].paid = row.paid + m /\ invoices'[i].source = row.source
      /\ PaidFor(i)' = PaidFor(i) + m
      /\ \A j : j # i => PaidFor(j)' = PaidFor(j)
      /\ \A n : InvoicesOf(n)' = InvoicesOf(n)
      /\ row = invoices[i] => OwedInv' <= OwedInv
  BY <1>0, <1>2, <1>4, InvoicePaid
<1>6. Calm' => Calm
  BY <1>2, <1>5, CalmWas DEF limitVars
<1>7. Calm' => OwedInv' <= OwedInv
  BY <1>4, <1>5, <1>6 DEF Calm
<1>8. PaidAgree'
  <2>1. \A j \in DOMAIN invoices :
          invoices[j].paid <= PaidFor(j) /\ (Invoice(j) \notin raced => invoices[j].paid = PaidFor(j))
    BY <1>0 DEF Payable, PaidAgree
  <2>2. row.paid \in Nat /\ PaidFor(i) \in Int
    BY <1>0, <1>4, PaidForTyped DEF Inv
  <2>3. invoices'[i].paid <= PaidFor(i)' /\ (Invoice(i) \notin raced => invoices'[i].paid = PaidFor(i)')
    BY <1>4, <1>5, <2>1, <2>2
  <2>4. \A j \in DOMAIN invoices :
          j # i => /\ invoices'[j].paid <= PaidFor(j)'
                   /\ Invoice(j) \notin raced => invoices'[j].paid = PaidFor(j)'
    BY <1>5, <2>1
  <2> QED BY <1>2, <1>5, <2>3, <2>4 DEF PaidAgree, Invoice
<1>9. InvoicedFirst'
  <2>1. \A j \in DOMAIN invoices : invoices'[j].source = invoices[j].source /\ invoices'[j].grn = invoices[j].grn
    BY <1>4, <1>5
  <2> QED BY <1>0, <1>2, <1>5, <2>1 DEF Payable, InvoicedFirst, FromReceipt, Receipt
<1>10. LimitKept' /\ LimitTyped'
  <2>1. (Calm => OwedInv <= limit \/ OwedInv <= carried) /\ LimitTyped
    BY <1>0 DEF Payable, LimitKept
  <2>2. OwedInv \in Int /\ OwedInv' \in Int /\ limit \in Int /\ carried \in Int
    BY <1>0, <1>5, <2>1, OwedTyped DEF LimitTyped
  <2> QED BY <1>2, <1>6, <1>7, <2>1, <2>2 DEF LimitKept, LimitTyped, limitVars
<1>11. Spares(h)
  <2>1. Len(grns) \in Nat
    BY <1>0 DEF GoodsTyped
  <2>2. \A j \in DOMAIN invoices :
          /\ invoices'[j].kind = invoices[j].kind /\ invoices'[j].grn = invoices[j].grn
          /\ invoices'[j].total = invoices[j].total /\ invoices'[j].source = invoices[j].source
          /\ Invoice(j) \in handler[h].on \/ invoices'[j] = invoices[j]
    BY <1>4, <1>5
  <2>3. \A j \in DOMAIN invoices : PaidFor(j) <= PaidFor(j)' /\ PaidFor(j) \in Int /\ PaidFor(j)' \in Int
    BY <1>0, <1>4, <1>5, PaidForTyped
  <2> QED BY <1>2, <1>5, <1>7, <2>1, <2>2, <2>3 DEF Spares, limitVars
<1> QED BY <1>5, <1>8, <1>9, <1>10, <1>11 DEF Payable

LEMMA ReceivePays ==
  ASSUME BInv, Booked', NEW h \in Handlers, Receive(h)
  PROVE  Payable' /\ Spares(h)
<1>1. raced' = raced /\ UNCHANGED <<invoices, payments, limitVars>> /\ GoodsTyped'
  BY DEF Receive, Rest, rowVars, Booked
<1>2. Len(grns) <= Len(grns')
  <2>1. GoodsTyped
    BY DEF BInv, AInv, Booked
  <2>2. \/ grns' = grns
        \/ \E g : grns' = Append(grns, g)
    BY DEF Receive, rowVars
  <2> QED BY <2>1, <2>2 DEF GoodsTyped
<1> QED BY <1>1, <1>2, SparesOthers

(* The limit is changed; what is owed then is what may be owed later.        *)
LEMMA LimitPays ==
  ASSUME BInv, GoodsTyped', NEW h \in Handlers, SetLimit(h)
  PROVE  Payable' /\ Spares(h)
<1>1. Payable /\ PayTyped /\ GoodsTyped
  BY DEF BInv, Payable, AInv, Booked
<1>2. PICK s : s = handler[h]
  OBVIOUS
<1>3. /\ s.limit \in Nat /\ Supplier \in s.on /\ limit' = s.limit /\ carried' = Owed
      /\ UNCHANGED <<invoices, payments, grns, raced>>
  BY <1>2 DEF SetLimit, At, BInv, HandlersPay, PayOK, rowVars
<1>4. /\ OwedInv' = OwedInv /\ (\A n : InvoicesOf(n)' = InvoicesOf(n))
      /\ \A i : PaidFor(i)' = PaidFor(i) /\ PaidFor(i) \in Int
  BY <1>1, <1>3, PaidForTyped DEF OwedInv, Unpaid, InvoicesOf, PaidFor
<1>5. OwedInv <= Owed /\ OwedInv \in Int /\ Owed \in Int
  BY <1>1, OwedCounts
<1>6. LimitKept' /\ LimitTyped'
  BY <1>3, <1>4, <1>5 DEF LimitKept, LimitTyped
<1>7. PayTyped' /\ PaidAgree' /\ InvoicedFirst'
  BY <1>1, <1>3, <1>4 DEF Payable, PayTyped, RowRight, PaidAgree, InvoicedFirst, FromReceipt, Receipt, Invoice
<1>8. Spares(h)
  BY <1>1, <1>2, <1>3, <1>4 DEF Spares, GoodsTyped
<1> QED BY <1>6, <1>7, <1>8 DEF Payable

-----------------------------------------------------------------------------

LEMMA InitPays == Init => BInv
<1> SUFFICES ASSUME Init PROVE BInv
  OBVIOUS
<1>1. invoices = <<>> /\ payments = <<>> /\ grns = <<>>
  BY DEF Init
<1>2. PayTyped /\ PaidAgree /\ InvoicedFirst
  BY <1>1 DEF PayTyped, PaidAgree, InvoicedFirst
<1>3. OwedInv = 0
  <2> DEFINE f == [i \in Unpaid |-> invoices[i].total - invoices[i].paid]
  <2>1. DOMAIN f = {} /\ IsFiniteSet({})
    BY <1>1, FS_EmptySet DEF Unpaid
  <2>2. SumFunction(f) = 0
    <3> HIDE DEF f
    <3> QED BY <2>1, SumNothing
  <2> QED BY <2>2 DEF OwedInv
<1>4. LimitKept /\ LimitTyped
  BY <1>3, PurchasingAssumption DEF LimitKept, LimitTyped, Init
<1>5. HandlersPay
  BY DEF Init, HandlersPay, PayOK, Idle
<1> QED BY <1>2, <1>4, <1>5, InitBooked DEF BInv, Payable

LEMMA NextPays == BInv /\ [Next]_vars => BInv'
<1> SUFFICES ASSUME BInv, [Next]_vars PROVE BInv'
  OBVIOUS
<1>0. AInv' /\ Booked' /\ GoodsTyped'
  BY NextBooked DEF BInv, AInv, Booked
<1>1. ASSUME NEW h \in Handlers, Call(h) PROVE BInv'
  BY <1>0, <1>1, CallPays DEF BInv
<1>2. ASSUME NEW h \in Handlers, Done(h), raced' = raced, Payable', Spares(h) PROVE BInv'
  BY <1>0, <1>2, PayDone DEF BInv
<1>3. ASSUME NEW h \in Handlers, Work(h) \/ Crash(h) PROVE BInv'
  <2>1. CASE WriteStatus(h) \/ Crash(h)
    <3>1. Done(h) /\ raced' = raced /\ UNCHANGED <<invoices, payments, grns, limitVars>>
      BY <2>1 DEF WriteStatus, Crash, rowVars, Rest
    <3>2. Len(grns) <= Len(grns')
      BY <1>0, <3>1 DEF GoodsTyped
    <3> QED BY <1>0, <1>2, <3>1, <3>2, SparesOthers
  <2>2. CASE Receive(h)
    BY <1>0, <1>2, <2>2, ReceivePays DEF Receive, Rest
  <2>3. CASE Return(h)
    BY <1>0, <1>2, <2>3, ReturnPays DEF Return, Rest
  <2>4. CASE CreateInvoice(h)
    BY <1>2, <2>4, CreatePays DEF CreateInvoice, Rest
  <2>5. CASE Pay(h)
    BY <1>2, <2>5, PayPays DEF Pay, Rest
  <2>6. CASE SetLimit(h)
    BY <1>0, <1>2, <2>6, LimitPays DEF SetLimit
  <2> QED BY <1>3, <2>1, <2>2, <2>3, <2>4, <2>5, <2>6 DEF Work
<1>4. ASSUME raced' = raced, UNCHANGED <<invoices, payments, grns, handler, limitVars>> PROVE BInv'
  <2>1. raced \subseteq raced' /\ Len(grns) <= Len(grns') /\ Payable /\ GoodsTyped
    BY <1>0, <1>4 DEF GoodsTyped, BInv, AInv, Booked
  <2>2. /\ Payable' /\ OwedInv' = OwedInv /\ \A n : InvoicesOf(n)' = InvoicesOf(n)
        /\ \A i : PaidFor(i)' = PaidFor(i)
    BY <1>0, <1>4, <2>1, PayableStays
  <2>3. Calm' => Calm
    BY <1>4 DEF Calm, Supplier, Invoice, limitVars
  <2>4. ASSUME NEW t, PayOK(t) PROVE PayOK(t)'
    <3>1. MayInvoice(t) => MayInvoice(t)'
      BY <1>4, <2>2, <2>3 DEF MayInvoice, RowRight, Supplier, Receipt, limitVars
    <3>2. MayPay(t) => MayPay(t)'
      BY <1>4, <2>2 DEF MayPay, RowRight, Invoice
    <3> QED BY <2>4, <3>1, <3>2 DEF PayOK, Supplier
  <2>5. ASSUME NEW o \in Handlers PROVE PayOK(handler[o])'
    <3>1. PICK t : t = handler[o]
      OBVIOUS
    <3>2. PayOK(t)' /\ t = handler'[o]
      BY <1>4, <2>4, <3>1 DEF BInv, HandlersPay
    <3> QED BY <3>2
  <2> QED BY <1>0, <2>2, <2>5 DEF BInv, HandlersPay
<1>5. ASSUME NEW l \in Levels, Sell(l) PROVE BInv'
  BY <1>4, <1>5 DEF Sell, Rest
<1>6. CASE UNCHANGED vars
  BY <1>4, <1>6 DEF vars, rowVars
<1> QED BY <1>1, <1>3, <1>5, <1>6 DEF Next

(* However requests interleave: no invoice or credit note shows more paid    *)
(* than it amounts to or than payments were made, and its status says what   *)
(* was paid; unless requests raced on the rows these are read from, all      *)
(* payments are shown, what createInvoiceFromGrn makes is the first invoice  *)
(* of its receipt, and what is owed is within the limit or within what was   *)
(* owed when the limit was changed last.                                     *)
THEOREM PayablesReconciled == Spec => []PayablesAgree
<1>1. BInv => PayablesAgree
  BY PayablesAre DEF BInv
<1> QED BY <1>1, InitPays, NextPays, PTL DEF Spec

=============================================================================
