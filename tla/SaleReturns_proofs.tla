------------------------- MODULE SaleReturns_proofs -------------------------
(* Proofs about SaleReturns, for any sale, requests, keys and handlers.      *)
EXTENDS SaleReturns, SumTheorems, TLAPS

Pcs == {"find", "quantity", "amount", "request", "complete", "swap", "exchange",
        "approve", "mark", "finish", "reject"}

Event(s, lines, replace, amount) ==
  [status |-> s, lines |-> lines, replace |-> replace, amount |-> amount]
Busy(pc, r, refunded) == [pc |-> pc, req |-> r, refunded |-> refunded]

(* The rows have their columns, the handlers a request. *)
EventsOK ==
  /\ event = [k \in Keys |-> event[k]] /\ refund = [k \in Keys |-> refund[k]]
  /\ \A k \in Keys : \E s, lines, replace, amount : event[k] = Event(s, lines, replace, amount)
HandlersOK ==
  /\ handler = [h \in Handlers |-> handler[h]]
  /\ \A h \in Handlers :
       \/ handler[h] = Idle
       \/ \E pc \in Pcs, r \in Requests : \E refunded : handler[h] = Busy(pc, r, refunded)

(* While requests come one at a time, a handler finds the event as it was    *)
(* when it decided.                                                          *)
Expects(h) ==
  LET status == event[handler[h].req.key].status IN
  /\ handler[h].pc \in {"approve", "mark", "reject"} => status = "requested"
  /\ handler[h].pc = "finish" => status = "approved"
Sequential ==
  overlap \/ /\ \A h, o \in Handlers : h # o => At(h, "idle") \/ At(o, "idle")
             /\ \A h \in Handlers : Expects(h)

(* The inductive invariant. *)
IInv == EventsOK /\ HandlersOK /\ Sequential /\ CompletedIsRefunded

LEMMA KeyTyped == ASSUME NEW r \in Requests PROVE r.key \in Keys
  BY ReturnsAssumption DEF ReturnsAssumption, RequestType

LEMMA InitOK == Init => IInv
<1> SUFFICES ASSUME Init PROVE IInv
  OBVIOUS
<1>1. EventsOK
  BY DEF Init, EventsOK, NoEvent, Event
<1>2. HandlersOK /\ Sequential
  BY DEF Init, HandlersOK, Sequential, Expects, At, Idle
<1>3. CompletedIsRefunded
  BY DEF Init, CompletedIsRefunded, NoEvent
<1> QED
  BY <1>1, <1>2, <1>3 DEF IInv

-----------------------------------------------------------------------------
(* How the handlers move. *)

Others(h) == \A o \in Handlers \ {h} : handler'[o] = handler[o]

LEMMA IdleOrBusy ==
  ASSUME HandlersOK, NEW h \in Handlers, ~At(h, "idle")
  PROVE  handler[h].req \in Requests
         /\ \E pc \in Pcs : \E refunded : handler[h] = Busy(pc, handler[h].req, refunded)
<1>1. handler[h] # Idle
  BY DEF At, Idle
<1>2. PICK pc, r, refunded : pc \in Pcs /\ r \in Requests /\ handler[h] = Busy(pc, r, refunded)
  BY <1>1 DEF HandlersOK
<1>3. handler[h].req = r
  BY <1>2 DEF Busy
<1> QED
  BY <1>2, <1>3

LEMMA BecomeBusy ==
  ASSUME HandlersOK, NEW h \in Handlers, NEW pc \in Pcs, NEW r \in Requests, NEW refunded,
         Become(h, Busy(pc, r, refunded))
  PROVE  HandlersOK' /\ Others(h) /\ handler'[h].pc = pc /\ handler'[h].req = r
         /\ handler'[h].refunded = refunded
  BY DEF HandlersOK, Become, Others, Busy

LEMMA DoneIdle ==
  ASSUME HandlersOK, NEW h \in Handlers, Done(h)
  PROVE  HandlersOK' /\ Others(h) /\ handler'[h].pc = "idle"
  BY DEF HandlersOK, Done, Become, Others, Idle

LEMMA GotoBusy ==
  ASSUME HandlersOK, NEW h \in Handlers, ~At(h, "idle"), NEW pc \in Pcs, Goto(h, pc)
  PROVE  HandlersOK' /\ Others(h) /\ handler'[h].pc = pc /\ handler'[h].req = handler[h].req
         /\ handler'[h].refunded = handler[h].refunded
<1> DEFINE r == handler[h].req
<1>1. PICK old, refunded : old \in Pcs /\ handler[h] = Busy(old, r, refunded)
  BY IdleOrBusy
<1>2. [handler[h] EXCEPT !.pc = pc] = Busy(pc, r, refunded)
  BY <1>1 DEF Busy
<1>3. Become(h, Busy(pc, r, refunded))
  BY <1>2 DEF HandlersOK, Goto, Become
<1>4. handler[h].refunded = refunded
  BY <1>1 DEF Busy
<1> QED
  BY <1>3, <1>4, IdleOrBusy, BecomeBusy

(* A busy handler that moves alone keeps the requests sequential. *)
LEMMA SoloStep ==
  ASSUME Sequential, NEW h \in Handlers, ~At(h, "idle"), Others(h), overlap' = overlap,
         overlap \/ Expects(h)'
  PROVE  Sequential'
<1>1. CASE overlap
  BY <1>1 DEF Sequential
<1>2. CASE ~overlap
  <2>1. \A o \in Handlers \ {h} : handler'[o].pc = "idle"
    BY <1>2 DEF Sequential, Others, At
  <2>2. \A o \in Handlers : Expects(o)'
    BY <1>2, <2>1 DEF Expects
  <2> QED
    BY <2>1, <2>2 DEF Sequential, At
<1> QED
  BY <1>1, <1>2

-----------------------------------------------------------------------------
(* How the rows change. *)

RowsOK == EventsOK /\ CompletedIsRefunded

LEMMA RowsStay ==
  ASSUME RowsOK, UNCHANGED <<event, refund>>, overlap => overlap'
  PROVE  RowsOK'
  BY DEF RowsOK, EventsOK, CompletedIsRefunded

LEMMA EventSet ==
  ASSUME RowsOK, NEW k \in Keys, NEW s, NEW lines, NEW replace, NEW amount, s # "completed",
         event' = [event EXCEPT ![k] = Event(s, lines, replace, amount)],
         UNCHANGED refund, overlap' = overlap, overlap \/ ~(refund[k] > 0)
  PROVE  RowsOK' /\ event'[k].status = s
<1>1. event'[k] = Event(s, lines, replace, amount) /\ \A j \in Keys \ {k} : event'[j] = event[j]
  BY DEF RowsOK, EventsOK
<1>2. EventsOK'
  BY <1>1 DEF RowsOK, EventsOK
<1>3. event'[k].status = s
  BY <1>1 DEF Event
<1>4. CompletedIsRefunded'
  BY <1>1, <1>3 DEF RowsOK, CompletedIsRefunded
<1> QED
  BY <1>2, <1>3, <1>4 DEF RowsOK

LEMMA StatusSet ==
  ASSUME RowsOK, NEW k \in Keys, NEW s, s # "completed", SetStatus(k, s),
         UNCHANGED refund, overlap' = overlap, overlap \/ ~(refund[k] > 0)
  PROVE  RowsOK' /\ event'[k].status = s
<1>1. PICK old, lines, replace, amount : event[k] = Event(old, lines, replace, amount)
  BY DEF RowsOK, EventsOK
<1>2. [event[k] EXCEPT !.status = s] = Event(s, lines, replace, amount)
  BY <1>1 DEF Event
<1>3. event' = [event EXCEPT ![k] = Event(s, lines, replace, amount)]
  BY <1>2 DEF SetStatus
<1> QED
  BY <1>3, EventSet

(* The transaction closes the event and writes the refund, or neither. *)
LEMMA FinishRows ==
  ASSUME RowsOK, NEW k \in Keys, NEW s, NEW lines, NEW replace, NEW amount, NEW fresh,
         Finish(k, Event(s, lines, replace, amount), fresh), overlap' = overlap
  PROVE  RowsOK'
<1> DEFINE ev == Event(s, lines, replace, amount)
           aborts == (fresh /\ event[k] # NoEvent) \/ refund[k] > 0
<1>1. CASE aborts
  BY <1>1, RowsStay DEF Finish, rowVars
<1>2. CASE ~aborts
  <2>1. [ev EXCEPT !.status = "completed"] = Event("completed", lines, replace, amount) /\ ev.amount = amount
    BY DEF Event
  <2>2. /\ event' = [event EXCEPT ![k] = Event("completed", lines, replace, amount)]
        /\ refund' = [refund EXCEPT ![k] = amount]
    BY <1>2, <2>1 DEF Finish, Settle
  <2>3. /\ event'[k] = Event("completed", lines, replace, amount) /\ refund'[k] = amount
        /\ \A j \in Keys \ {k} : event'[j] = event[j] /\ refund'[j] = refund[j]
    BY <2>2 DEF RowsOK, EventsOK
  <2>4. EventsOK'
    <3>1. event' = [j \in Keys |-> event'[j]]
      BY <2>2 DEF RowsOK, EventsOK
    <3>2. refund' = [j \in Keys |-> refund'[j]]
      BY <2>2 DEF RowsOK, EventsOK
    <3> QED
      BY <2>3, <3>1, <3>2 DEF RowsOK, EventsOK
  <2>5. event'[k].status = "completed" /\ event'[k].amount = amount
    BY <2>3 DEF Event
  <2>6. CompletedIsRefunded'
    BY <2>3, <2>5 DEF RowsOK, CompletedIsRefunded
  <2> QED
    BY <2>4, <2>6 DEF RowsOK
<1> QED
  BY <1>1, <1>2

-----------------------------------------------------------------------------
(* One lemma for every kind of step. *)

LEMMA CallKept ==
  ASSUME IInv, NEW h \in Handlers, CallReturn(h) \/ CallDecide(h)
  PROVE  IInv'
<1>1. ASSUME NEW pc \in {"find", "approve", "reject"}, NEW r \in Requests, NEW refunded,
             Call(h, Busy(pc, r, refunded)),
             pc \in {"approve", "reject"} => event[r.key].status = "requested"
      PROVE  IInv'
  <2>1. HandlersOK' /\ Others(h) /\ handler'[h].pc = pc /\ handler'[h].req = r
    BY <1>1, BecomeBusy DEF Call, IInv, Pcs
  <2>2. RowsOK'
    BY <1>1, RowsStay DEF Call, rowVars, IInv, RowsOK
  <2>3. Sequential'
    <3>1. CASE overlap'
      BY <3>1 DEF Sequential
    <3>2. CASE ~overlap'
      <4>1. \A o \in Handlers \ {h} : handler'[o].pc = "idle"
        BY <1>1, <2>1, <3>2 DEF Call, At, Others
      <4>2. Expects(h)'
        BY <1>1, <2>1 DEF Call, rowVars, Expects
      <4>3. \A o \in Handlers : Expects(o)'
        BY <4>1, <4>2 DEF Expects
      <4> QED
        BY <4>1, <4>3 DEF Sequential, At
    <3> QED
      BY <3>1, <3>2
  <2> QED
    BY <2>1, <2>2, <2>3 DEF IInv, RowsOK
<1>2. CASE CallReturn(h)
  <2>1. PICK r \in Requests : Call(h, Busy("find", r, Refunded))
    BY <1>2 DEF CallReturn, Asked, Busy
  <2> QED
    BY <1>1, <2>1
<1>3. CASE CallDecide(h)
  <2>1. PICK r \in Requests :
          /\ r.op \in {"approve", "reject"} /\ event[r.key].status = "requested"
          /\ Call(h, Busy(r.op, r, Refunded))
    BY <1>3 DEF CallDecide, Asked, Busy
  <2> QED
    BY <1>1, <2>1
<1> QED
  BY <1>2, <1>3

(* A step that only reads. *)
LEMMA LocalKept ==
  ASSUME IInv, NEW h \in Handlers, ~At(h, "idle"), Local,
         \/ Done(h)
         \/ Become(h, Busy("quantity", handler[h].req, Refunded))
         \/ \E pc \in {"quantity", "amount", "request", "complete", "swap", "exchange"} : Goto(h, pc)
         \/ At(h, "approve") /\ Goto(h, "mark")
  PROVE  IInv'
<1>1. HandlersOK /\ RowsOK /\ Sequential /\ overlap' = overlap /\ UNCHANGED <<event, refund>>
  BY DEF IInv, RowsOK, Local, rowVars
<1>2. handler[h].req \in Requests
  BY <1>1, IdleOrBusy
<1>3. RowsOK'
  BY <1>1, RowsStay
<1>4. HandlersOK' /\ Others(h)
      /\ \/ handler'[h].pc \notin {"approve", "mark", "reject", "finish"}
         \/ At(h, "approve") /\ handler'[h].pc = "mark" /\ handler'[h].req = handler[h].req
  <2>1. CASE Done(h)
    BY <1>1, <2>1, DoneIdle
  <2>2. CASE Become(h, Busy("quantity", handler[h].req, Refunded))
    BY <1>1, <1>2, <2>2, BecomeBusy DEF Pcs
  <2>3. ASSUME NEW pc \in {"quantity", "amount", "request", "complete", "swap", "exchange"}, Goto(h, pc)
        PROVE  HandlersOK' /\ Others(h) /\ handler'[h].pc = pc
    BY <1>1, <2>3, GotoBusy DEF Pcs
  <2>4. CASE At(h, "approve") /\ Goto(h, "mark")
    BY <1>1, <2>4, GotoBusy DEF Pcs
  <2> QED
    BY <2>1, <2>2, <2>3, <2>4
<1>5. overlap \/ Expects(h)'
  BY <1>1, <1>4 DEF Sequential, Expects, At
<1>6. Sequential'
  BY <1>1, <1>4, <1>5, SoloStep
<1> QED
  BY <1>3, <1>4, <1>6 DEF IInv, RowsOK

(* A handler whose last step leaves the rows right. *)
LEMMA LastStep ==
  ASSUME IInv, NEW h \in Handlers, ~At(h, "idle"), Done(h), overlap' = overlap, RowsOK'
  PROVE  IInv'
<1>1. HandlersOK /\ Sequential
  BY DEF IInv
<1>2. HandlersOK' /\ Others(h) /\ handler'[h].pc = "idle"
  BY <1>1, DoneIdle
<1>3. Expects(h)'
  BY <1>2 DEF Expects
<1>4. Sequential'
  BY <1>1, <1>2, <1>3, SoloStep
<1> QED
  BY <1>2, <1>4 DEF IInv, RowsOK

LEMMA ReadKept ==
  ASSUME IInv, NEW h \in Handlers,
         \/ FindReturn(h) \/ CheckQuantity(h) \/ CheckAmount(h) \/ CheckSwap(h) \/ CheckApproval(h)
  PROVE  IInv'
<1>1. CASE FindReturn(h)
  <2>1. Goto(h, "quantity") \/ Done(h) \/ Become(h, Busy("quantity", handler[h].req, Refunded))
    BY <1>1 DEF FindReturn, Busy
  <2> QED
    BY <1>1, <2>1, LocalKept DEF FindReturn, At
<1>2. CASE CheckQuantity(h)
  BY <1>2, LocalKept DEF CheckQuantity, At
<1>3. CASE CheckAmount(h)
  <2>1. Route(handler[h].req) \in {"swap", "complete", "request"}
    BY DEF Route
  <2> QED
    BY <1>3, <2>1, LocalKept DEF CheckAmount, At
<1>4. CASE CheckSwap(h)
  BY <1>4, LocalKept DEF CheckSwap, At
<1>5. CASE CheckApproval(h)
  BY <1>5, LocalKept DEF CheckApproval, At
<1> QED
  BY <1>1, <1>2, <1>3, <1>4, <1>5

LEMMA NewEventIs ==
  ASSUME NEW r, NEW s, NEW replace
  PROVE  NewEvent(r, s, replace) = Event(s, r.lines, replace, AmountOf(r))
  BY DEF NewEvent, Event

LEMMA InsertKept ==
  ASSUME IInv, NEW h \in Handlers, InsertRequest(h)
  PROVE  IInv'
<1> DEFINE r == handler[h].req
<1>1. RowsOK /\ HandlersOK /\ ~At(h, "idle") /\ Done(h) /\ overlap' = overlap /\ UNCHANGED refund
  BY DEF IInv, RowsOK, InsertRequest, At
<1>2. r.key \in Keys
  BY <1>1, IdleOrBusy, KeyTyped
<1>3. CASE event[r.key] = NoEvent
  <2>1. event' = [event EXCEPT ![r.key] = Event("requested", r.lines, <<>>, AmountOf(r))]
    BY <1>3, NewEventIs DEF InsertRequest
  <2>2. overlap \/ ~(refund[r.key] > 0)
    BY <1>1, <1>2, <1>3 DEF RowsOK, CompletedIsRefunded, NoEvent
  <2>3. RowsOK'
    BY <1>1, <1>2, <2>1, <2>2, EventSet
  <2> QED
    BY <1>1, <2>3, LastStep
<1>4. CASE event[r.key] # NoEvent
  <2>1. RowsOK'
    BY <1>1, <1>4, RowsStay DEF InsertRequest
  <2> QED
    BY <1>1, <2>1, LastStep
<1> QED
  BY <1>3, <1>4

LEMMA CompleteKept ==
  ASSUME IInv, NEW h \in Handlers, CompleteReturn(h) \/ CompleteExchange(h) \/ FinishApproved(h)
  PROVE  IInv'
<1> DEFINE r == handler[h].req
<1>1. RowsOK /\ HandlersOK /\ ~At(h, "idle") /\ Done(h) /\ overlap' = overlap
  BY DEF IInv, RowsOK, CompleteReturn, CompleteExchange, FinishApproved, At
<1>2. r.key \in Keys
  BY <1>1, IdleOrBusy, KeyTyped
<1>3. RowsOK'
  <2>1. CASE CompleteReturn(h)
    BY <1>1, <1>2, <2>1, NewEventIs, FinishRows DEF CompleteReturn
  <2>2. CASE CompleteExchange(h)
    BY <1>1, <1>2, <2>2, NewEventIs, FinishRows DEF CompleteExchange
  <2>3. CASE FinishApproved(h)
    <3>1. PICK s, lines, replace, amount : event[r.key] = Event(s, lines, replace, amount)
      BY <1>1, <1>2 DEF RowsOK, EventsOK
    <3> QED
      BY <1>1, <1>2, <2>3, <3>1, FinishRows DEF FinishApproved
  <2> QED
    BY <2>1, <2>2, <2>3
<1> QED
  BY <1>1, <1>3, LastStep

LEMMA DecideKept ==
  ASSUME IInv, NEW h \in Handlers, MarkApproved(h) \/ RejectReturn(h)
  PROVE  IInv'
<1> DEFINE k == handler[h].req.key
<1>1. /\ RowsOK /\ HandlersOK /\ Sequential /\ ~At(h, "idle")
      /\ overlap' = overlap /\ UNCHANGED refund
  BY DEF IInv, RowsOK, MarkApproved, RejectReturn, At
<1>2. k \in Keys
  BY <1>1, IdleOrBusy, KeyTyped
<1>3. overlap \/ ~(refund[k] > 0)
  BY <1>1, <1>2 DEF MarkApproved, RejectReturn, At, Sequential, Expects, RowsOK, CompletedIsRefunded
<1>4. CASE MarkApproved(h)
  <2>1. RowsOK' /\ event'[k].status = "approved"
    BY <1>1, <1>2, <1>3, <1>4, StatusSet DEF MarkApproved
  <2>2. HandlersOK' /\ Others(h) /\ handler'[h].pc = "finish" /\ handler'[h].req = handler[h].req
    BY <1>1, <1>4, GotoBusy DEF MarkApproved, Pcs
  <2>3. Expects(h)'
    BY <2>1, <2>2 DEF Expects
  <2>4. Sequential'
    BY <1>1, <2>2, <2>3, SoloStep
  <2> QED
    BY <2>1, <2>2, <2>4 DEF IInv, RowsOK
<1>5. CASE RejectReturn(h)
  <2>1. RowsOK'
    BY <1>1, <1>2, <1>3, <1>5, StatusSet DEF RejectReturn
  <2> QED
    BY <1>1, <1>5, <2>1, LastStep DEF RejectReturn
<1> QED
  BY <1>4, <1>5

LEMMA CrashKept ==
  ASSUME IInv, NEW h \in Handlers, Crash(h)
  PROVE  IInv'
<1>1. RowsOK'
  BY RowsStay DEF IInv, RowsOK, Crash, rowVars
<1> QED
  BY <1>1, LastStep DEF Crash

LEMMA StepKept == IInv /\ [Next]_vars => IInv'
<1> SUFFICES ASSUME IInv, [Next]_vars PROVE IInv'
  OBVIOUS
<1>1. CASE UNCHANGED vars
  <2>1. RowsOK'
    BY <1>1, RowsStay DEF IInv, RowsOK, vars, rowVars
  <2>2. HandlersOK' /\ Sequential'
    BY <1>1 DEF IInv, HandlersOK, Sequential, Expects, At, vars, rowVars
  <2> QED
    BY <2>1, <2>2 DEF IInv, RowsOK
<1>2. ASSUME NEW h \in Handlers, CallReturn(h) \/ CallDecide(h) PROVE IInv'
  BY <1>2, CallKept
<1>3. ASSUME NEW h \in Handlers, Work(h) PROVE IInv'
  BY <1>3, ReadKept, InsertKept, CompleteKept, DecideKept DEF Work
<1>4. ASSUME NEW h \in Handlers, Crash(h) PROVE IInv'
  BY <1>4, CrashKept
<1> QED
  BY <1>1, <1>2, <1>3, <1>4 DEF Next

(* A return is completed only together with its refund, in full, for any     *)
(* number of requests at once and any crash; and while requests come one at  *)
(* a time, what was refunded stays completed.                                *)
THEOREM CompletedOnlyRefunded == Spec => []CompletedIsRefunded
<1>1. IInv => CompletedIsRefunded
  BY DEF IInv
<1> QED
  BY <1>1, InitOK, StepKept, PTL DEF Spec

-----------------------------------------------------------------------------
(* Pieces and amounts of a list of lines.                                    *)

Pieces(lines) == \A i \in DOMAIN lines : lines[i].lv \in Levels /\ lines[i].qty \in Nat
NoLevelTwice(lines) == \A i, j \in DOMAIN lines : lines[i].lv = lines[j].lv => i = j

LEMMA SomeLines ==
  ASSUME NEW lines, lines \in Seq(Line) \/ lines \in Seq(Swap)
  PROVE  IsFiniteSet(DOMAIN lines) /\ Pieces(lines)
<1>1. DOMAIN lines = 1 .. Len(lines) /\ Len(lines) \in Nat
  OBVIOUS
<1>2. IsFiniteSet(DOMAIN lines)
  BY <1>1, FS_Interval
<1>3. CASE lines \in Seq(Line)
  <2>1. \A i \in DOMAIN lines : lines[i] \in Line
    BY <1>3
  <2> QED
    BY <1>2, <2>1 DEF Pieces, Line
<1>4. CASE lines \in Seq(Swap)
  <2>1. \A i \in DOMAIN lines : lines[i] \in Swap
    BY <1>4
  <2> QED
    BY <1>2, <2>1 DEF Pieces, Swap
<1> QED
  BY <1>3, <1>4

LEMMA QtyTyped ==
  ASSUME NEW lines, lines \in Seq(Line) \/ lines \in Seq(Swap), NEW l \in Levels
  PROVE  QtyOf(lines, l) \in Nat
<1> DEFINE q == [i \in DOMAIN lines |-> IF lines[i].lv = l THEN lines[i].qty ELSE 0]
<1>1. IsFiniteSet(DOMAIN lines) /\ q \in [DOMAIN lines -> Nat]
  BY SomeLines DEF Pieces
<1>2. SumFunction(q) \in Nat
  <2> HIDE DEF q
  <2> QED
    BY <1>1, SumNat
<1> QED
  BY <1>2 DEF QtyOf, Total

LEMMA GoodTyped ==
  ASSUME NEW lines \in Seq(Line), NEW l \in Levels
  PROVE  GoodOf(lines, l) \in Nat
<1> DEFINE q == [i \in DOMAIN lines |-> IF lines[i].lv = l /\ lines[i].good THEN lines[i].qty ELSE 0]
<1>1. IsFiniteSet(DOMAIN lines) /\ q \in [DOMAIN lines -> Nat]
  BY SomeLines DEF Pieces
<1>2. SumFunction(q) \in Nat
  <2> HIDE DEF q
  <2> QED
    BY <1>1, SumNat
<1> QED
  BY <1>2 DEF GoodOf, Total

LEMMA ValueTyped ==
  ASSUME NEW lines \in Seq(Line)
  PROVE  ValueOf(lines) \in Nat
<1> DEFINE q == [i \in DOMAIN lines |-> lines[i].qty * Price[lines[i].lv]]
<1>1. IsFiniteSet(DOMAIN lines) /\ q \in [DOMAIN lines -> Nat]
  <2>1. \A i \in DOMAIN lines : lines[i].qty \in Nat /\ Price[lines[i].lv] \in Nat
    BY SomeLines, ReturnsAssumption DEF Pieces, ReturnsAssumption
  <2>2. \A m, n \in Nat : m * n \in Nat
    OBVIOUS
  <2> QED
    BY <2>1, <2>2, SomeLines
<1>2. SumFunction(q) \in Nat
  <2> HIDE DEF q
  <2> QED
    BY <1>1, SumNat
<1> QED
  BY <1>2 DEF ValueOf, Total

LEMMA PaidTyped == Paid \in Nat
<1> DEFINE q == [l \in Levels |-> Sold[l] * Price[l]]
<1>1. IsFiniteSet(Levels) /\ q \in [Levels -> Nat]
  <2>1. \A l \in Levels : Sold[l] \in Nat /\ Price[l] \in Nat
    BY ReturnsAssumption DEF ReturnsAssumption
  <2>2. \A m, n \in Nat : m * n \in Nat
    OBVIOUS
  <2> QED
    BY <2>1, <2>2, ReturnsAssumption DEF ReturnsAssumption
<1>2. SumFunction(q) \in Nat
  <2> HIDE DEF q
  <2> QED
    BY <1>1, SumNat
<1> QED
  BY <1>2 DEF Paid, SumOver

(* What a list without repeated levels takes of one level is what its line   *)
(* says, or nothing.                                                         *)
LEMMA QtyOfLine ==
  ASSUME NEW lines, lines \in Seq(Line) \/ lines \in Seq(Swap), NoLevelTwice(lines), NEW l \in Levels
  PROVE  \/ QtyOf(lines, l) = 0
         \/ \E i \in DOMAIN lines : lines[i].lv = l /\ QtyOf(lines, l) = lines[i].qty
<1> DEFINE q == [i \in DOMAIN lines |-> IF lines[i].lv = l THEN lines[i].qty ELSE 0]
           z == [i \in DOMAIN lines |-> 0]
<1>1. QtyOf(lines, l) = SumFunction(q)
  BY DEF QtyOf, Total
<1>2. IsFiniteSet(DOMAIN lines) /\ q \in [DOMAIN lines -> Int] /\ Pieces(lines)
  BY SomeLines DEF Pieces
<1>3. CASE \A i \in DOMAIN lines : lines[i].lv # l
  <2>1. DOMAIN q = DOMAIN lines /\ \A i \in DOMAIN lines : q[i] = 0
    BY <1>3
  <2>2. SumFunction(q) = 0
    <3> HIDE DEF q
    <3> QED
      BY <1>2, <2>1, SumNothing
  <2> QED
    BY <1>1, <2>2
<1>4. ASSUME NEW i \in DOMAIN lines, lines[i].lv = l
      PROVE  QtyOf(lines, l) = lines[i].qty
  <2>1. /\ z \in [DOMAIN lines -> Int] /\ DOMAIN z = DOMAIN lines /\ \A j \in DOMAIN lines : z[j] = 0
        /\ q[i] = lines[i].qty /\ q[i] \in Int
    BY <1>2, <1>4 DEF Pieces
  <2>2. \A j \in DOMAIN lines \ {i} : q[j] = z[j]
    BY <1>4 DEF NoLevelTwice
  <2>3. SumFunction(z) = 0
    <3> HIDE DEF z
    <3> QED
      BY <1>2, <2>1, SumNothing
  <2>4. SumFunction(q) = SumFunction(z) - z[i] + q[i]
    <3> HIDE DEF q, z
    <3> QED
      BY <1>2, <2>1, <2>2, SumChanged
  <2>5. SumFunction(q) = q[i]
    <3> HIDE DEF q, z
    <3> QED
      BY <2>1, <2>3, <2>4
  <2> QED
    BY <1>1, <2>1, <2>5
<1> QED
  BY <1>3, <1>4

LEMMA NoLines == ASSUME NEW l \in Levels PROVE QtyOf(<<>>, l) = 0
<1>1. <<>> \in Seq(Swap) /\ NoLevelTwice(<<>>)
  BY DEF NoLevelTwice
<1>2. ~\E i \in DOMAIN <<>> : TRUE
  OBVIOUS
<1> QED
  BY <1>1, <1>2, QtyOfLine

-----------------------------------------------------------------------------
(* A second layer: what is kept, what was refunded and what is on the shelf. *)
(* A handler that is alone still sees what it has compared.                  *)

Deciding == {"approve", "mark", "finish", "reject"}
Checked == {"request", "complete", "swap", "exchange"}

(* Whatever runs at once. *)
Facts(h) ==
  LET r == handler[h].req IN
  /\ handler[h].pc \in {"find", "quantity", "amount"} => r.op \in {"return", "exchange"}
  /\ handler[h].pc \in {"request", "complete"} => r.op = "return" /\ 0 < AmountOf(r)
  /\ handler[h].pc \in {"swap", "exchange"} => r.op = "exchange" /\ 0 < AmountOf(r)
  /\ handler[h].pc \in Deciding => event[r.key].status # "none"

(* While requests come one at a time. *)
Fresh(h) ==
  LET r == handler[h].req IN
  /\ ~At(h, "idle") => handler[h].refunded = Refunded
  /\ handler[h].pc \in Checked \cup {"amount"} => QtyLeft(r.lines)
  /\ handler[h].pc \in Checked => AmountLeft(r, Refunded)
  /\ At(h, "exchange") => \A i \in DOMAIN r.replace : stock[r.replace[i].lv] >= r.replace[i].qty
WaitingPlain == \A k \in Keys : event[k].status \in OpenStatuses => event[k].replace = <<>>

Recorded ==
  \A k \in Keys : IF event[k].status = "none" THEN refund[k] = 0 ELSE event[k].amount > 0

LedgerOK ==
  /\ TypeOK /\ Recorded /\ (overlap \/ WaitingPlain)
  /\ NeverOverReturned /\ StockExplained
CInv ==
  /\ IInv /\ LedgerOK
  /\ \A h \in Handlers : Facts(h)
  /\ overlap \/ \A h \in Handlers : Fresh(h)

(* The sums by name. *)
Kept == {k \in Keys : event[k].status \notin {"none", "rejected"}}
KeptQty(l) == SumFunction([k \in Kept |-> QtyOf(event[k].lines, l)])
KeptAmount == SumFunction([k \in Kept |-> event[k].amount])
Returned(l) == SumFunction([k \in Settled |-> GoodOf(event[k].lines, l) - QtyOf(event[k].replace, l)])
Lost(l) == SumFunction([k \in Settled |-> QtyOf(event[k].lines, l) - GoodOf(event[k].lines, l)])

HeldQty(k, l) == IF k \in Kept THEN QtyOf(event[k].lines, l) ELSE 0
HeldAmount(k) == IF k \in Kept THEN event[k].amount ELSE 0
ReturnedBy(k, l) == IF k \in Settled THEN GoodOf(event[k].lines, l) - QtyOf(event[k].replace, l) ELSE 0
LostBy(k, l) == IF k \in Settled THEN QtyOf(event[k].lines, l) - GoodOf(event[k].lines, l) ELSE 0

KeptFits == (\A l \in Levels : KeptQty(l) <= Sold[l]) /\ KeptAmount <= Paid
ShelfIs ==
  \A l \in Levels : /\ stock[l] = Opening[l] + Returned(l)
                    /\ damaged[l] = Lost(l)
                    /\ overlap \/ stock[l] >= 0

LEMMA NeverIs ==
  /\ NeverOverReturned <=> overlap \/ KeptFits
  /\ NeverOverReturned' <=> overlap' \/ KeptFits'
BY DEF KeptFits, NeverOverReturned, KeptQty, KeptAmount, Kept, SumOver

LEMMA StockIs == (StockExplained <=> ShelfIs) /\ (StockExplained' <=> ShelfIs')
BY DEF ShelfIs, StockExplained, Returned, Lost, SumOver

LEMMA EventTyped ==
  ASSUME TypeOK, NEW k \in Keys
  PROVE  /\ event[k] \in EventType /\ refund[k] \in Nat
         /\ event[k].status \in Statuses /\ event[k].amount \in Nat
         /\ event[k].lines \in Seq(Line) /\ event[k].replace \in Seq(Swap)
         /\ \A l \in Levels : /\ QtyOf(event[k].lines, l) \in Nat /\ GoodOf(event[k].lines, l) \in Nat
                              /\ QtyOf(event[k].replace, l) \in Nat
<1>1. event[k] \in EventType /\ refund[k] \in Nat
  BY DEF TypeOK
<1>2. /\ event[k].status \in Statuses /\ event[k].amount \in Nat
      /\ event[k].lines \in Seq(Line) /\ event[k].replace \in Seq(Swap)
  BY <1>1 DEF EventType
<1> QED
  BY <1>1, <1>2, QtyTyped, GoodTyped

LEMMA FiniteKeys == IsFiniteSet(Keys)
  BY ReturnsAssumption DEF ReturnsAssumption

LEMMA SumsTyped ==
  ASSUME TypeOK, NEW l \in Levels
  PROVE  KeptQty(l) \in Int /\ Returned(l) \in Int /\ Lost(l) \in Int
<1> DEFINE q == [k \in Kept |-> QtyOf(event[k].lines, l)]
           b == [k \in Settled |-> GoodOf(event[k].lines, l) - QtyOf(event[k].replace, l)]
           c == [k \in Settled |-> QtyOf(event[k].lines, l) - GoodOf(event[k].lines, l)]
<1>1. Kept \subseteq Keys /\ Settled \subseteq Keys
  BY DEF Kept, Settled
<1>2. IsFiniteSet(Kept) /\ IsFiniteSet(Settled)
  BY <1>1, FiniteKeys, FS_Subset
<1>3. /\ q \in [Kept -> Int]
      /\ b \in [Settled -> Int] /\ c \in [Settled -> Int]
  BY <1>1, EventTyped
<1>4. SumFunction(q) \in Int /\ SumFunction(b) \in Int /\ SumFunction(c) \in Int
  <2> HIDE DEF q, b, c
  <2> QED
    BY <1>2, <1>3, SumInt
<1> QED
  BY <1>4 DEF KeptQty, Returned, Lost

LEMMA AmountTyped == ASSUME TypeOK PROVE KeptAmount \in Int
<1> DEFINE a == [k \in Kept |-> event[k].amount]
<1>1. IsFiniteSet(Kept) /\ a \in [Kept -> Int]
  <2>1. Kept \subseteq Keys
    BY DEF Kept
  <2> QED
    BY <2>1, FiniteKeys, FS_Subset, EventTyped
<1>2. SumFunction(a) \in Int
  <2> HIDE DEF a
  <2> QED
    BY <1>1, SumInt
<1> QED
  BY <1>2 DEF KeptAmount

OthersKeep(k) ==
  \A j \in Keys \ {k} : event'[j] = event[j] /\ refund'[j] = refund[j]

(* One event changes. *)
LEMMA KeptChanges ==
  ASSUME TypeOK, TypeOK', NEW k \in Keys, OthersKeep(k), NEW l \in Levels
  PROVE  KeptQty(l)' = KeptQty(l) - HeldQty(k, l) + HeldQty(k, l)'
<1> DEFINE f == [j \in Kept |-> QtyOf(event[j].lines, l)]
           g == [j \in Kept' |-> QtyOf(event'[j].lines, l)]
<1>1. Kept \in SUBSET Keys /\ Kept' \in SUBSET Keys
  BY DEF Kept
<1>2. f \in [Kept -> Int]
  BY <1>1, EventTyped
<1>3. g \in [Kept' -> Int]
  <2>1. \A j \in Kept' : event'[j] \in EventType
    BY <1>1 DEF TypeOK
  <2>2. \A j \in Kept' : event'[j].lines \in Seq(Line)
    BY <2>1 DEF EventType
  <2> QED
    BY <2>2, QtyTyped
<1>4. \A j \in Keys \ {k} : (j \in Kept' <=> j \in Kept) /\ (j \in Kept => g[j] = f[j])
  BY DEF Kept, OthersKeep
<1>5. SumFunction(g) = SumFunction(f) - ValueAt(f, k) + ValueAt(g, k)
  <2>1. Numbers(f, Keys) /\ Numbers(g, Keys)
    BY <1>1, <1>2, <1>3 DEF Numbers
  <2>2. SameBut(f, g, Keys, k)
    BY <1>1, <1>4 DEF SameBut
  <2> HIDE DEF g, f
  <2> QED
    BY <2>1, <2>2, FiniteKeys, SumOneRow
<1> QED
  BY <1>5 DEF KeptQty, HeldQty, ValueAt

LEMMA AmountChanges ==
  ASSUME TypeOK, TypeOK', NEW k \in Keys, OthersKeep(k)
  PROVE  KeptAmount' = KeptAmount - HeldAmount(k) + HeldAmount(k)'
<1> DEFINE f == [j \in Kept |-> event[j].amount]
           g == [j \in Kept' |-> event'[j].amount]
<1>1. Kept \in SUBSET Keys /\ Kept' \in SUBSET Keys
  BY DEF Kept
<1>2. f \in [Kept -> Int]
  BY <1>1, EventTyped
<1>3. g \in [Kept' -> Int]
  <2>1. \A j \in Kept' : event'[j] \in EventType
    BY <1>1 DEF TypeOK
  <2> QED
    BY <2>1 DEF EventType
<1>4. \A j \in Keys \ {k} : (j \in Kept' <=> j \in Kept) /\ (j \in Kept => g[j] = f[j])
  BY DEF Kept, OthersKeep
<1>5. SumFunction(g) = SumFunction(f) - ValueAt(f, k) + ValueAt(g, k)
  <2>1. Numbers(f, Keys) /\ Numbers(g, Keys)
    BY <1>1, <1>2, <1>3 DEF Numbers
  <2>2. SameBut(f, g, Keys, k)
    BY <1>1, <1>4 DEF SameBut
  <2> HIDE DEF g, f
  <2> QED
    BY <2>1, <2>2, FiniteKeys, SumOneRow
<1> QED
  BY <1>5 DEF KeptAmount, HeldAmount, ValueAt

LEMMA SettledChanges ==
  ASSUME TypeOK, TypeOK', NEW k \in Keys, OthersKeep(k), NEW l \in Levels
  PROVE  /\ Returned(l)' = Returned(l) - ReturnedBy(k, l) + ReturnedBy(k, l)'
         /\ Lost(l)' = Lost(l) - LostBy(k, l) + LostBy(k, l)'
<1> DEFINE f == [j \in Settled |-> GoodOf(event[j].lines, l) - QtyOf(event[j].replace, l)]
           g == [j \in Settled' |-> GoodOf(event'[j].lines, l) - QtyOf(event'[j].replace, l)]
           d == [j \in Settled |-> QtyOf(event[j].lines, l) - GoodOf(event[j].lines, l)]
           e == [j \in Settled' |-> QtyOf(event'[j].lines, l) - GoodOf(event'[j].lines, l)]
<1>1. Settled \in SUBSET Keys /\ Settled' \in SUBSET Keys
  BY DEF Settled
<1>2. f \in [Settled -> Int] /\ d \in [Settled -> Int]
  BY <1>1, EventTyped
<1>3. g \in [Settled' -> Int] /\ e \in [Settled' -> Int]
  <2>1. \A j \in Settled' : event'[j] \in EventType
    BY <1>1 DEF TypeOK
  <2>2. \A j \in Settled' : event'[j].lines \in Seq(Line) /\ event'[j].replace \in Seq(Swap)
    BY <2>1 DEF EventType
  <2>3. \A j \in Settled' : /\ QtyOf(event'[j].lines, l) \in Nat /\ QtyOf(event'[j].replace, l) \in Nat
                            /\ GoodOf(event'[j].lines, l) \in Nat
    BY <2>2, QtyTyped, GoodTyped
  <2> QED
    BY <2>3
<1>4. \A j \in Keys \ {k} : (j \in Settled' <=> j \in Settled) /\ (j \in Settled => g[j] = f[j] /\ e[j] = d[j])
  BY DEF Settled, OthersKeep
<1>5. SumFunction(g) = SumFunction(f) - ValueAt(f, k) + ValueAt(g, k)
  <2>1. Numbers(f, Keys) /\ Numbers(g, Keys)
    BY <1>1, <1>2, <1>3 DEF Numbers
  <2>2. SameBut(f, g, Keys, k)
    BY <1>1, <1>4 DEF SameBut
  <2> HIDE DEF g, f
  <2> QED
    BY <2>1, <2>2, FiniteKeys, SumOneRow
<1>6. SumFunction(e) = SumFunction(d) - ValueAt(d, k) + ValueAt(e, k)
  <2>1. Numbers(d, Keys) /\ Numbers(e, Keys)
    BY <1>1, <1>2, <1>3 DEF Numbers
  <2>2. SameBut(d, e, Keys, k)
    BY <1>1, <1>4 DEF SameBut
  <2> HIDE DEF e, d
  <2> QED
    BY <2>1, <2>2, FiniteKeys, SumOneRow
<1> QED
  BY <1>5, <1>6 DEF Returned, ReturnedBy, Lost, LostBy, ValueAt

(* The sums stay within the sale. *)
LEMMA NeverKept ==
  ASSUME TypeOK, TypeOK', NeverOverReturned, NEW k \in Keys, OthersKeep(k), overlap' = overlap,
         \/ overlap
         \/ /\ \A l \in Levels : KeptQty(l) - HeldQty(k, l) + HeldQty(k, l)' <= Sold[l]
            /\ KeptAmount - HeldAmount(k) + HeldAmount(k)' <= Paid
  PROVE  NeverOverReturned'
<1>1. CASE overlap
  BY <1>1, NeverIs
<1>2. CASE ~overlap
  <2>1. \A l \in Levels : KeptQty(l)' <= Sold[l]
    BY <1>2, KeptChanges
  <2>2. KeptAmount' <= Paid
    BY <1>2, AmountChanges
  <2> QED
    BY <2>1, <2>2, NeverIs DEF KeptFits
<1> QED
  BY <1>1, <1>2

(* The shelf takes what the event brings. *)
LEMMA StockKept ==
  ASSUME TypeOK, TypeOK', StockExplained, NEW k \in Keys, OthersKeep(k), overlap' = overlap,
         \A l \in Levels :
           /\ stock'[l] = stock[l] - ReturnedBy(k, l) + ReturnedBy(k, l)'
           /\ damaged'[l] = damaged[l] - LostBy(k, l) + LostBy(k, l)'
           /\ overlap \/ stock'[l] >= 0
  PROVE  StockExplained'
<1>1. ASSUME NEW l \in Levels
      PROVE  ReturnedBy(k, l) \in Int /\ ReturnedBy(k, l)' \in Int /\ LostBy(k, l) \in Int /\ LostBy(k, l)' \in Int
  <2>1. ReturnedBy(k, l) \in Int /\ LostBy(k, l) \in Int
    BY EventTyped DEF ReturnedBy, LostBy
  <2>2. event'[k] \in EventType
    BY DEF TypeOK
  <2>3. event'[k].lines \in Seq(Line) /\ event'[k].replace \in Seq(Swap)
    BY <2>2 DEF EventType
  <2>4. QtyOf(event'[k].lines, l) \in Nat /\ QtyOf(event'[k].replace, l) \in Nat /\ GoodOf(event'[k].lines, l) \in Nat
    BY <2>3, QtyTyped, GoodTyped
  <2>5. ReturnedBy(k, l)' \in Int /\ LostBy(k, l)' \in Int
    BY <2>4 DEF ReturnedBy, LostBy
  <2> QED
    BY <2>1, <2>5
<1>2. ASSUME NEW l \in Levels
      PROVE  /\ stock'[l] = Opening[l] + Returned(l)' /\ damaged'[l] = Lost(l)'
             /\ overlap \/ stock'[l] >= 0
  <2>1. stock[l] = Opening[l] + Returned(l) /\ damaged[l] = Lost(l)
    BY StockIs DEF ShelfIs
  <2>2. Returned(l) \in Int /\ Lost(l) \in Int /\ Opening[l] \in Int
    BY SumsTyped, ReturnsAssumption DEF ReturnsAssumption
  <2>3. /\ Returned(l)' = Returned(l) - ReturnedBy(k, l) + ReturnedBy(k, l)'
        /\ Lost(l)' = Lost(l) - LostBy(k, l) + LostBy(k, l)'
    BY SettledChanges
  <2> QED
    BY <1>1, <2>1, <2>2, <2>3
<1> QED
  BY <1>2, StockIs DEF ShelfIs

LEMMA LedgerStays ==
  ASSUME LedgerOK, UNCHANGED rowVars, overlap => overlap', overlap' \in BOOLEAN
  PROVE  LedgerOK'
<1>1. TypeOK' /\ Recorded' /\ (overlap' \/ WaitingPlain')
  BY DEF LedgerOK, TypeOK, Recorded, WaitingPlain, rowVars
<1>2. /\ KeptFits => KeptFits'
      /\ NeverOverReturned /\ StockExplained
  BY DEF LedgerOK, KeptFits, KeptQty, KeptAmount, Kept, rowVars
<1>3. NeverOverReturned'
  BY <1>2, NeverIs
<1>4. StockExplained'
  BY <1>2, StockIs DEF ShelfIs, Returned, Lost, Settled, rowVars
<1> QED
  BY <1>1, <1>3, <1>4 DEF LedgerOK

(* The row of one event is written. *)
EventWritten(k, s, lines, replace, amount) ==
  event' = [event EXCEPT ![k] = Event(s, lines, replace, amount)]

LEMMA EventIs ==
  ASSUME TypeOK, NEW k \in Keys, NEW s \in Statuses, NEW lines \in Seq(Line), NEW replace \in Seq(Swap),
         NEW amount \in Nat, EventWritten(k, s, lines, replace, amount)
  PROVE  /\ event' \in [Keys -> EventType]
         /\ event'[k] = Event(s, lines, replace, amount)
         /\ event'[k].status = s /\ event'[k].lines = lines
         /\ event'[k].replace = replace /\ event'[k].amount = amount
         /\ \A j \in Keys \ {k} : event'[j] = event[j]
<1>1. event'[k] = Event(s, lines, replace, amount) /\ \A j \in Keys \ {k} : event'[j] = event[j]
  BY DEF EventWritten, TypeOK
<1>2. Event(s, lines, replace, amount) \in EventType
  BY DEF Event, EventType
<1>3. event' \in [Keys -> EventType]
  BY <1>2 DEF EventWritten, TypeOK
<1> QED
  BY <1>1, <1>3 DEF Event

(* A return that waits. *)
LEMMA InsertLedger ==
  ASSUME LedgerOK, NEW k \in Keys, NEW lines \in Seq(Line), NEW amount \in Nat \ {0},
         event[k].status = "none", EventWritten(k, "requested", lines, <<>>, amount),
         UNCHANGED <<refund, stock, damaged>>, overlap' = overlap,
         \/ overlap
         \/ /\ \A l \in Levels : KeptQty(l) + QtyOf(lines, l) <= Sold[l]
            /\ KeptAmount + amount <= Paid
  PROVE  LedgerOK'
<1>1. /\ event' \in [Keys -> EventType]
      /\ event'[k].status = "requested" /\ event'[k].lines = lines
      /\ event'[k].replace = <<>> /\ event'[k].amount = amount
      /\ \A j \in Keys \ {k} : event'[j] = event[j]
  <2>1. <<>> \in Seq(Swap) /\ "requested" \in Statuses
    BY DEF Statuses
  <2>2. PICK s \in Statuses, replace \in Seq(Swap) : s = "requested" /\ replace = <<>>
    BY <2>1
  <2>3. TypeOK /\ EventWritten(k, s, lines, replace, amount) /\ amount \in Nat
    BY <2>2 DEF LedgerOK
  <2>4. /\ event' \in [Keys -> EventType]
        /\ event'[k].status = s /\ event'[k].lines = lines
        /\ event'[k].replace = replace /\ event'[k].amount = amount
        /\ \A j \in Keys \ {k} : event'[j] = event[j]
    BY <2>3, EventIs
  <2> QED
    BY <2>2, <2>4
<1>2. TypeOK /\ TypeOK' /\ OthersKeep(k)
  BY <1>1 DEF LedgerOK, TypeOK, OthersKeep
<1>3. refund[k] = 0 /\ refund'[k] = 0
  BY DEF LedgerOK, Recorded
<1>4. Recorded' /\ (overlap' \/ WaitingPlain')
  BY <1>1, <1>2 DEF LedgerOK, Recorded, WaitingPlain, OthersKeep
<1>5. NeverOverReturned'
  <2>1. \A l \in Levels : HeldQty(k, l) = 0 /\ HeldQty(k, l)' = QtyOf(lines, l)
    BY <1>1 DEF HeldQty, Kept
  <2>2. HeldAmount(k) = 0 /\ HeldAmount(k)' = amount
    BY <1>1 DEF HeldAmount, Kept
  <2>3. /\ KeptAmount \in Int
        /\ \A l \in Levels : KeptQty(l) \in Int /\ QtyOf(lines, l) \in Int
    BY <1>2, SumsTyped, AmountTyped, QtyTyped
  <2>4. NeverOverReturned
    BY DEF LedgerOK
  <2>5. \/ overlap
        \/ /\ \A l \in Levels : KeptQty(l) - HeldQty(k, l) + HeldQty(k, l)' <= Sold[l]
           /\ KeptAmount - HeldAmount(k) + HeldAmount(k)' <= Paid
    BY <2>1, <2>2, <2>3
  <2> QED
    BY <1>2, <2>4, <2>5, NeverKept
<1>6. StockExplained'
  <2>1. \A l \in Levels : /\ ReturnedBy(k, l) = 0 /\ ReturnedBy(k, l)' = 0
                          /\ LostBy(k, l) = 0 /\ LostBy(k, l)' = 0
    BY <1>3 DEF ReturnedBy, LostBy, Settled
  <2>2. StockExplained
    BY DEF LedgerOK
  <2>3. \A l \in Levels : /\ stock'[l] = stock[l] /\ damaged'[l] = damaged[l]
                          /\ stock[l] \in Int /\ damaged[l] \in Int
                          /\ overlap \/ stock[l] >= 0
    BY <1>2, <2>2, StockIs DEF ShelfIs, TypeOK
  <2>4. \A l \in Levels : /\ stock'[l] = stock[l] - ReturnedBy(k, l) + ReturnedBy(k, l)'
                          /\ damaged'[l] = damaged[l] - LostBy(k, l) + LostBy(k, l)'
                          /\ overlap \/ stock'[l] >= 0
    BY <2>1, <2>3
  <2> QED
    BY <1>2, <2>2, <2>4, StockKept
<1> QED
  BY <1>2, <1>4, <1>5, <1>6 DEF LedgerOK

(* A decision on a waiting return. *)
LEMMA StatusLedger ==
  ASSUME LedgerOK, NEW k \in Keys, NEW s \in {"approved", "rejected"}, SetStatus(k, s),
         event[k].status # "none", overlap \/ event[k].status = "requested",
         UNCHANGED <<refund, stock, damaged>>, overlap' = overlap
  PROVE  LedgerOK'
<1> DEFINE lines == event[k].lines
           replace == event[k].replace
           amount == event[k].amount
<1>1. /\ TypeOK /\ lines \in Seq(Line) /\ replace \in Seq(Swap) /\ amount \in Nat /\ s \in Statuses
      /\ \A l \in Levels : QtyOf(lines, l) \in Nat /\ QtyOf(replace, l) \in Nat /\ GoodOf(lines, l) \in Nat
  BY EventTyped DEF LedgerOK, Statuses
<1>2. EventWritten(k, s, lines, replace, amount)
  <2>1. event[k] \in EventType
    BY <1>1, EventTyped
  <2>2. [event[k] EXCEPT !.status = s] = Event(s, lines, replace, amount)
    BY <2>1 DEF EventType, Event
  <2> QED
    BY <2>2 DEF SetStatus, EventWritten
<1>3. /\ event' \in [Keys -> EventType]
      /\ event'[k].status = s /\ event'[k].lines = lines
      /\ event'[k].replace = replace /\ event'[k].amount = amount
      /\ \A j \in Keys \ {k} : event'[j] = event[j]
  <2> HIDE DEF lines, replace, amount
  <2> QED
    BY <1>1, <1>2, EventIs
<1>4. TypeOK' /\ OthersKeep(k)
  BY <1>1, <1>3 DEF TypeOK, OthersKeep
<1>5. Recorded'
  BY <1>3, <1>4 DEF LedgerOK, Recorded, OthersKeep
<1>6. overlap' \/ WaitingPlain'
  BY <1>3 DEF LedgerOK, WaitingPlain, OpenStatuses
<1>7. NeverOverReturned'
  <2>1. ASSUME ~overlap
        PROVE  /\ \A l \in Levels : KeptQty(l) - HeldQty(k, l) + HeldQty(k, l)' <= Sold[l]
               /\ KeptAmount - HeldAmount(k) + HeldAmount(k)' <= Paid
    <3>1. k \in Kept /\ (k \in Kept' <=> s # "rejected")
      BY <1>3, <2>1 DEF Kept
    <3>2. \A l \in Levels : HeldQty(k, l) = QtyOf(lines, l) /\ HeldQty(k, l)' \in {0, QtyOf(lines, l)}
      BY <1>3, <3>1 DEF HeldQty
    <3>3. HeldAmount(k) = amount /\ HeldAmount(k)' \in {0, amount}
      BY <1>3, <3>1 DEF HeldAmount
    <3>4. \A l \in Levels : KeptQty(l) \in Int /\ KeptQty(l) <= Sold[l] /\ Sold[l] \in Int
      BY <1>1, <2>1, SumsTyped, NeverIs, ReturnsAssumption DEF KeptFits, LedgerOK, ReturnsAssumption
    <3>5. KeptAmount \in Int /\ KeptAmount <= Paid /\ Paid \in Int
      BY <1>1, <2>1, AmountTyped, PaidTyped, NeverIs DEF KeptFits, LedgerOK
    <3>6. KeptAmount - HeldAmount(k) + HeldAmount(k)' <= Paid
      <4> HIDE DEF amount
      <4> QED
        BY <1>1, <3>3, <3>5
    <3>7. \A l \in Levels : KeptQty(l) - HeldQty(k, l) + HeldQty(k, l)' <= Sold[l]
      <4> HIDE DEF lines
      <4> QED
        BY <1>1, <3>2, <3>4
    <3> QED
      BY <3>6, <3>7
  <2>2. NeverOverReturned
    BY DEF LedgerOK
  <2> QED
    BY <1>1, <1>4, <2>1, <2>2, NeverKept
<1>8. StockExplained'
  <2>1. \A l \in Levels : /\ ReturnedBy(k, l) \in Int /\ ReturnedBy(k, l)' = ReturnedBy(k, l)
                          /\ LostBy(k, l) \in Int /\ LostBy(k, l)' = LostBy(k, l)
    BY <1>1, <1>3 DEF ReturnedBy, LostBy, Settled
  <2>2. StockExplained
    BY DEF LedgerOK
  <2>3. \A l \in Levels : /\ stock'[l] = stock[l] /\ damaged'[l] = damaged[l]
                          /\ stock[l] \in Int /\ damaged[l] \in Int
                          /\ overlap \/ stock[l] >= 0
    BY <1>1, <2>2, StockIs DEF ShelfIs, TypeOK
  <2>4. \A l \in Levels : /\ stock'[l] = stock[l] - ReturnedBy(k, l) + ReturnedBy(k, l)'
                          /\ damaged'[l] = damaged[l] - LostBy(k, l) + LostBy(k, l)'
                          /\ overlap \/ stock'[l] >= 0
    BY <2>1, <2>3
  <2> QED
    BY <1>1, <1>4, <2>2, <2>4, StockKept
<1> QED
  BY <1>4, <1>5, <1>6, <1>7, <1>8 DEF LedgerOK

(* The transaction closes the event, writes the refund and moves the goods. *)
LEMMA SettleLedger ==
  ASSUME LedgerOK, NEW k \in Keys, NEW s, NEW lines \in Seq(Line), NEW replace \in Seq(Swap),
         NEW amount \in Nat \ {0}, ~(refund[k] > 0),
         Settle(k, Event(s, lines, replace, amount)), overlap' = overlap,
         \/ overlap
         \/ /\ \A l \in Levels : /\ KeptQty(l) - HeldQty(k, l) + QtyOf(lines, l) <= Sold[l]
                                 /\ QtyOf(replace, l) <= stock[l]
            /\ KeptAmount - HeldAmount(k) + amount <= Paid
  PROVE  LedgerOK'
<1> DEFINE ev == Event(s, lines, replace, amount)
<1>1. /\ [ev EXCEPT !.status = "completed"] = Event("completed", lines, replace, amount)
      /\ ev.amount = amount /\ ev.lines = lines /\ ev.replace = replace
  BY DEF Event
<1>2. /\ EventWritten(k, "completed", lines, replace, amount)
      /\ refund' = [refund EXCEPT ![k] = amount]
      /\ Restock(lines, replace)
  BY <1>1 DEF Settle, EventWritten
<1>3. /\ event' \in [Keys -> EventType]
      /\ event'[k].status = "completed" /\ event'[k].lines = lines
      /\ event'[k].replace = replace /\ event'[k].amount = amount
      /\ \A j \in Keys \ {k} : event'[j] = event[j]
  <2>1. "completed" \in Statuses /\ TypeOK
    BY DEF Statuses, LedgerOK
  <2> QED
    BY <1>2, <2>1, EventIs
<1>4. /\ refund' \in [Keys -> Nat] /\ refund'[k] = amount
      /\ \A j \in Keys \ {k} : refund'[j] = refund[j]
  BY <1>2 DEF LedgerOK, TypeOK
<1>5. \A l \in Levels : /\ QtyOf(lines, l) \in Nat /\ QtyOf(replace, l) \in Nat /\ GoodOf(lines, l) \in Nat
                        /\ stock[l] \in Int /\ damaged[l] \in Int
  BY QtyTyped, GoodTyped DEF LedgerOK, TypeOK
<1>6. /\ stock' \in [Levels -> Int] /\ damaged' \in [Levels -> Int]
      /\ \A l \in Levels : /\ stock'[l] = stock[l] + GoodOf(lines, l) - QtyOf(replace, l)
                           /\ damaged'[l] = damaged[l] + QtyOf(lines, l) - GoodOf(lines, l)
  BY <1>2, <1>5 DEF Restock
<1>7. TypeOK /\ TypeOK' /\ OthersKeep(k)
  BY <1>3, <1>4, <1>6 DEF LedgerOK, TypeOK, OthersKeep
<1>8. Recorded' /\ (overlap' \/ WaitingPlain')
  BY <1>3, <1>4 DEF LedgerOK, Recorded, WaitingPlain, OpenStatuses
<1>9. NeverOverReturned'
  <2>1. \A l \in Levels : HeldQty(k, l)' = QtyOf(lines, l)
    BY <1>3 DEF HeldQty, Kept
  <2>2. HeldAmount(k)' = amount
    BY <1>3 DEF HeldAmount, Kept
  <2>3. NeverOverReturned
    BY DEF LedgerOK
  <2>4. \/ overlap
        \/ /\ \A l \in Levels : KeptQty(l) - HeldQty(k, l) + HeldQty(k, l)' <= Sold[l]
           /\ KeptAmount - HeldAmount(k) + HeldAmount(k)' <= Paid
    BY <2>1, <2>2
  <2> QED
    BY <1>7, <2>3, <2>4, NeverKept
<1>10. StockExplained'
  <2>1. k \notin Settled /\ k \in Settled'
    BY <1>4 DEF Settled
  <2>2. \A l \in Levels : /\ ReturnedBy(k, l) = 0 /\ LostBy(k, l) = 0
                          /\ ReturnedBy(k, l)' = GoodOf(lines, l) - QtyOf(replace, l)
                          /\ LostBy(k, l)' = QtyOf(lines, l) - GoodOf(lines, l)
    BY <1>3, <2>1 DEF ReturnedBy, LostBy
  <2>3. \A l \in Levels : /\ stock'[l] = stock[l] - ReturnedBy(k, l) + ReturnedBy(k, l)'
                          /\ damaged'[l] = damaged[l] - LostBy(k, l) + LostBy(k, l)'
                          /\ overlap \/ stock'[l] >= 0
    BY <1>5, <1>6, <2>2
  <2>4. StockExplained
    BY DEF LedgerOK
  <2> QED
    BY <1>7, <2>3, <2>4, StockKept
<1> QED
  BY <1>7, <1>8, <1>9, <1>10 DEF LedgerOK

-----------------------------------------------------------------------------
(* What a request that passed the tests adds still fits.                     *)

LEMMA RequestTyped ==
  ASSUME NEW r \in Requests, r.op \in {"return", "exchange"}
  PROVE  /\ r.lines \in Seq(Line) /\ NoLevelTwice(r.lines) /\ AmountOf(r) \in Nat
         /\ r.op = "exchange" => r.replace \in Seq(Swap) /\ NoLevelTwice(r.replace)
<1>1. r \in RequestType
  BY ReturnsAssumption DEF ReturnsAssumption
<1>2. /\ r.lines \in Seq(Line) /\ (r.op = "return" => r.amount \in Nat)
      /\ (r.op = "exchange" => r.replace \in Seq(Swap))
  BY <1>1 DEF RequestType
<1>3. NoLevelTwice(r.lines) /\ (r.op = "exchange" => NoLevelTwice(r.replace))
  BY ReturnsAssumption DEF ReturnsAssumption, NoLevelTwice
<1>4. AmountOf(r) \in Nat
  BY <1>2, ValueTyped DEF AmountOf
<1> QED
  BY <1>2, <1>3, <1>4

LEMMA ReservedIsKept == ASSUME TypeOK, NEW l \in Levels PROVE ReturnedQty(l) = KeptQty(l)
<1>1. {k \in Keys : event[k].status \in Reserving} = Kept
  BY EventTyped DEF Kept, Reserving, OpenStatuses, Statuses
<1> QED
  BY <1>1 DEF ReturnedQty, KeptQty, SumOver

OpenAmount == SumFunction([k \in {j \in Keys : event[j].status \in OpenStatuses} |-> event[k].amount])

(* What is kept was refunded or waits. *)
LEMMA KeptIsRefundedOrOpen ==
  ASSUME TypeOK, Recorded, CompletedIsRefunded, ~overlap
  PROVE  KeptAmount = Refunded + OpenAmount /\ Refunded \in Int /\ OpenAmount \in Int
<1> DEFINE open == {j \in Keys : event[j].status \in OpenStatuses}
           a == [k \in Kept |-> event[k].amount]
           o == [k \in open |-> event[k].amount]
           r == [k \in Keys |-> refund[k]]
           w == [k \in Keys |-> IF k \in open THEN event[k].amount ELSE 0]
           t == [k \in Keys |-> IF k \in Kept THEN event[k].amount ELSE 0]
<1>1. open \in SUBSET Keys /\ Kept \in SUBSET Keys /\ DOMAIN a = Kept /\ DOMAIN o = open /\ DOMAIN t = Keys
  BY DEF Kept
<1>2. r \in [Keys -> Int] /\ w \in [Keys -> Int] /\ t \in [Keys -> Int]
  BY EventTyped
<1>3. /\ \A k \in Kept : a[k] = t[k]
      /\ \A k \in Keys \ Kept : t[k] = 0
      /\ \A k \in open : o[k] = w[k]
      /\ \A k \in Keys \ open : w[k] = 0
  BY <1>1
<1>4. \A k \in Keys : t[k] = r[k] + w[k]
  <2>1. ASSUME NEW k \in Keys PROVE t[k] = r[k] + w[k]
    <3>1. /\ event[k].status \in Statuses /\ event[k].amount \in Nat /\ refund[k] \in Nat
          /\ event[k].status = "completed" => refund[k] = event[k].amount
          /\ event[k].status # "completed" => ~(refund[k] > 0)
      BY EventTyped DEF CompletedIsRefunded
    <3>2. CASE event[k].status = "completed"
      BY <3>1, <3>2 DEF Kept, OpenStatuses
    <3>3. CASE event[k].status \in OpenStatuses
      BY <3>1, <3>3 DEF Kept, OpenStatuses
    <3>4. CASE event[k].status \in {"none", "rejected"}
      BY <3>1, <3>4 DEF Kept, OpenStatuses
    <3> QED
      BY <3>1, <3>2, <3>3, <3>4 DEF Statuses, OpenStatuses
  <2> QED
    BY <2>1
<1>5. SumFunction(t) = SumFunction(r) + SumFunction(w) /\ SumFunction(r) \in Int /\ SumFunction(w) \in Int
  <2> HIDE DEF t, r, w
  <2> QED
    BY <1>1, <1>2, <1>4, FiniteKeys, SumPlus, SumInt
<1>6. SumFunction(a) = SumFunction(t)
  <2> HIDE DEF a, t
  <2> QED
    BY <1>1, <1>2, <1>3, FiniteKeys, SumFiltered
<1>7. SumFunction(o) = SumFunction(w)
  <2> HIDE DEF o, w, open
  <2> QED
    BY <1>1, <1>2, <1>3, FiniteKeys, SumFiltered
<1>8. KeptAmount = SumFunction(a) /\ Refunded = SumFunction(r) /\ OpenAmount = SumFunction(o)
  BY DEF KeptAmount, Refunded, SumOver, OpenAmount
<1> QED
  <2> HIDE DEF a, o, r, w, t
  <2> QED
    BY <1>5, <1>6, <1>7, <1>8

LEMMA StillFits ==
  ASSUME LedgerOK, CompletedIsRefunded, ~overlap, NEW r \in Requests, r.op \in {"return", "exchange"},
         QtyLeft(r.lines), AmountLeft(r, Refunded)
  PROVE  /\ \A l \in Levels : KeptQty(l) + QtyOf(r.lines, l) <= Sold[l]
         /\ KeptAmount + AmountOf(r) <= Paid
<1>1. /\ TypeOK /\ Recorded /\ r.lines \in Seq(Line) /\ NoLevelTwice(r.lines) /\ AmountOf(r) \in Nat
      /\ \A l \in Levels : KeptQty(l) <= Sold[l]
  BY RequestTyped, NeverIs DEF LedgerOK, KeptFits
<1>2. ASSUME NEW l \in Levels PROVE KeptQty(l) + QtyOf(r.lines, l) <= Sold[l]
  <2>1. KeptQty(l) \in Int /\ ReturnedQty(l) = KeptQty(l) /\ Sold[l] \in Int
    BY <1>1, SumsTyped, ReservedIsKept, ReturnsAssumption DEF ReturnsAssumption
  <2>2. CASE QtyOf(r.lines, l) = 0
    BY <1>1, <2>1, <2>2
  <2>3. ASSUME NEW i \in DOMAIN r.lines, r.lines[i].lv = l, QtyOf(r.lines, l) = r.lines[i].qty
        PROVE  KeptQty(l) + QtyOf(r.lines, l) <= Sold[l]
    <3>1. r.lines[i].qty <= Sold[l] - ReturnedQty(l)
      BY <2>3 DEF QtyLeft
    <3>2. QtyOf(r.lines, l) \in Int
      BY <1>1, QtyTyped
    <3> QED
      BY <2>1, <2>3, <3>1, <3>2
  <2> QED
    BY <1>1, <2>2, <2>3, QtyOfLine
<1>3. KeptAmount + AmountOf(r) <= Paid
  <2>1. AmountOf(r) <= Paid - Refunded - OpenAmount
    BY DEF AmountLeft, Refundable, SumOver, OpenAmount
  <2>2. KeptAmount = Refunded + OpenAmount /\ Refunded \in Int /\ OpenAmount \in Int /\ Paid \in Int
    BY <1>1, KeptIsRefundedOrOpen, PaidTyped
  <2> QED
    BY <1>1, <2>1, <2>2
<1> QED
  BY <1>2, <1>3

-----------------------------------------------------------------------------
(* The steps of the second layer. *)

EventsLast == \A k \in Keys : event[k].status # "none" => event'[k].status # "none"

(* The other handlers keep their facts; when requests come one at a time,    *)
(* they are idle.                                                            *)
LEMMA Joined ==
  ASSUME CInv, IInv', LedgerOK', NEW h \in Handlers, Others(h), EventsLast, overlap => overlap',
         ~At(h, "idle") \/ ~At(h, "idle")', Facts(h)', overlap' \/ Fresh(h)'
  PROVE  CInv'
<1>1. \A o \in Handlers \ {h} : Facts(o)'
  <2>1. ASSUME NEW o \in Handlers \ {h} PROVE Facts(o)'
    <3>1. handler'[o] = handler[o] /\ Facts(o)
      BY DEF Others, CInv
    <3>2. handler[o].pc \in Deciding => handler[o].req.key \in Keys
      BY IdleOrBusy, KeyTyped DEF CInv, IInv, At, Deciding
    <3>3. handler[o].pc \in Deciding => event'[handler[o].req.key].status # "none"
      BY <3>1, <3>2 DEF Facts, EventsLast
    <3> QED
      BY <3>1, <3>3 DEF Facts
  <2> QED
    BY <2>1
<1>2. overlap' \/ \A o \in Handlers \ {h} : Fresh(o)'
  <2>1. ASSUME ~overlap', NEW o \in Handlers \ {h} PROVE Fresh(o)'
    <3>1. handler'[o].pc = "idle"
      BY <2>1 DEF CInv, IInv, Sequential, Others, At
    <3> QED
      BY <3>1 DEF Fresh, At, Checked
  <2> QED
    BY <2>1
<1> QED
  BY <1>1, <1>2 DEF CInv

LEMMA InitLedger == Init => CInv
<1> SUFFICES ASSUME Init PROVE CInv
  OBVIOUS
<1>1. TypeOK
  <2>1. NoEvent \in EventType
    <3>1. <<>> \in Seq(Line) /\ <<>> \in Seq(Swap)
      OBVIOUS
    <3> QED
      BY <3>1 DEF NoEvent, EventType, Statuses
  <2>2. stock \in [Levels -> Int]
    BY ReturnsAssumption DEF Init, ReturnsAssumption
  <2>3. event \in [Keys -> EventType] /\ refund \in [Keys -> Nat]
    BY <2>1 DEF Init
  <2>4. damaged \in [Levels -> Int]
    BY DEF Init
  <2>5. overlap \in BOOLEAN
    BY DEF Init
  <2> QED
    BY <2>2, <2>3, <2>4, <2>5 DEF TypeOK
<1>2. Recorded /\ WaitingPlain /\ Kept = {} /\ Settled = {}
  BY DEF Init, Recorded, WaitingPlain, OpenStatuses, NoEvent, Kept, Settled
<1>3. \A f : DOMAIN f = {} => SumFunction(f) = 0
  BY SumNothing, FS_EmptySet
<1>4. NeverOverReturned
  <2>1. \A l \in Levels : KeptQty(l) = 0
    BY <1>2, <1>3 DEF KeptQty
  <2>2. KeptAmount = 0
    BY <1>2, <1>3 DEF KeptAmount
  <2> QED
    BY <2>1, <2>2, NeverIs, PaidTyped, ReturnsAssumption DEF KeptFits, ReturnsAssumption
<1>5. StockExplained
  <2>1. \A l \in Levels : Returned(l) = 0 /\ Lost(l) = 0
    BY <1>2, <1>3 DEF Returned, Lost
  <2> QED
    BY <2>1, StockIs, ReturnsAssumption DEF ShelfIs, Init, ReturnsAssumption
<1>6. \A h \in Handlers : Facts(h) /\ Fresh(h)
  BY DEF Init, Facts, Fresh, At, Idle, Deciding, Checked
<1> QED
  BY <1>1, <1>2, <1>4, <1>5, <1>6, InitOK DEF CInv, LedgerOK

LEMMA CallLedger ==
  ASSUME CInv, IInv', NEW h \in Handlers, CallReturn(h) \/ CallDecide(h)
  PROVE  CInv'
<1>1. ASSUME NEW pc \in {"find", "approve", "reject"}, NEW r \in Requests,
             Call(h, Busy(pc, r, Refunded)),
             \/ pc = "find" /\ r.op \in {"return", "exchange"}
             \/ pc # "find" /\ event[r.key].status = "requested"
      PROVE  CInv'
  <2>1. Others(h) /\ handler'[h].pc = pc /\ handler'[h].req = r /\ handler'[h].refunded = Refunded
    BY <1>1, BecomeBusy DEF Call, CInv, IInv, Pcs
  <2>2. UNCHANGED rowVars /\ (overlap => overlap') /\ overlap' \in BOOLEAN
    BY <1>1 DEF Call, CInv, LedgerOK, TypeOK
  <2>3. LedgerOK'
    BY <2>2, LedgerStays DEF CInv
  <2>4. Refunded' = Refunded /\ EventsLast
    BY <2>2 DEF Refunded, SumOver, EventsLast, rowVars
  <2>5. Facts(h)'
    BY <1>1, <2>1, <2>2 DEF Facts, Deciding, rowVars
  <2>6. Fresh(h)'
    BY <1>1, <2>1, <2>4 DEF Fresh, At, Checked
  <2>7. ~At(h, "idle")'
    BY <1>1, <2>1 DEF At
  <2> QED
    BY <2>1, <2>2, <2>3, <2>4, <2>5, <2>6, <2>7, Joined
<1>2. CASE CallReturn(h)
  <2>1. PICK r \in Requests : r.op \in {"return", "exchange"} /\ Call(h, Busy("find", r, Refunded))
    BY <1>2 DEF CallReturn, Asked, Busy
  <2> QED
    BY <1>1, <2>1
<1>3. CASE CallDecide(h)
  <2>1. PICK r \in Requests :
          /\ r.op \in {"approve", "reject"} /\ event[r.key].status = "requested"
          /\ Call(h, Busy(r.op, r, Refunded))
    BY <1>3 DEF CallDecide, Asked, Busy
  <2> QED
    BY <1>1, <2>1
<1> QED
  BY <1>2, <1>3

(* A handler that ends. *)
LEMMA Ended ==
  ASSUME CInv, IInv', LedgerOK', NEW h \in Handlers, Done(h), ~At(h, "idle"), EventsLast, overlap' = overlap
  PROVE  CInv'
<1>1. Others(h) /\ handler'[h].pc = "idle"
  BY DoneIdle DEF CInv, IInv
<1>2. Facts(h)' /\ Fresh(h)'
  BY <1>1 DEF Facts, Fresh, At, Deciding, Checked
<1> QED
  BY <1>1, <1>2, Joined

(* A handler that has only read. *)
LEMMA LocalLedger ==
  ASSUME CInv, IInv', NEW h \in Handlers, ~At(h, "idle"), Local, Others(h), Facts(h)', overlap \/ Fresh(h)'
  PROVE  CInv'
<1>1. UNCHANGED rowVars /\ overlap' = overlap /\ overlap' \in BOOLEAN
  BY DEF Local, CInv, LedgerOK, TypeOK
<1>2. LedgerOK' /\ EventsLast
  BY <1>1, LedgerStays DEF CInv, EventsLast, rowVars
<1> QED
  BY <1>1, <1>2, Joined

LEMMA LocalEnds ==
  ASSUME CInv, IInv', NEW h \in Handlers, ~At(h, "idle"), Local, Done(h)
  PROVE  CInv'
<1>1. Others(h) /\ handler'[h].pc = "idle"
  BY DoneIdle DEF CInv, IInv
<1>2. Facts(h)' /\ Fresh(h)'
  BY <1>1 DEF Facts, Fresh, At, Deciding, Checked
<1> QED
  BY <1>1, <1>2, LocalLedger

(* The tests read what does not change with them. *)
LEMMA SameRows ==
  ASSUME Local
  PROVE  /\ Refunded' = Refunded /\ stock' = stock /\ event' = event
         /\ \A lines : QtyLeft(lines) => QtyLeft(lines)'
         /\ \A r : AmountLeft(r, Refunded) => AmountLeft(r, Refunded)'
<1>1. Refunded' = Refunded /\ stock' = stock /\ event' = event
  BY DEF Local, rowVars, Refunded, SumOver
<1>2. \A lines : QtyLeft(lines) => QtyLeft(lines)'
  BY <1>1 DEF QtyLeft, ReturnedQty, SumOver
<1>3. \A r : AmountLeft(r, Refunded) => AmountLeft(r, Refunded)'
  BY <1>1 DEF AmountLeft, Refundable, SumOver
<1> QED
  BY <1>1, <1>2, <1>3

LEMMA ReadLedger ==
  ASSUME CInv, IInv', NEW h \in Handlers,
         \/ FindReturn(h) \/ CheckQuantity(h) \/ CheckAmount(h) \/ CheckSwap(h) \/ CheckApproval(h)
  PROVE  CInv'
<1>1. ~At(h, "idle") /\ Local /\ HandlersOK /\ Facts(h) /\ (overlap \/ Fresh(h))
  BY DEF FindReturn, CheckQuantity, CheckAmount, CheckSwap, CheckApproval, At, CInv, IInv
<1>2. ASSUME Done(h) PROVE CInv'
  BY <1>1, <1>2, LocalEnds
<1>3. PICK r \in Requests : r = handler[h].req
  BY <1>1, IdleOrBusy
<1>4. CASE FindReturn(h) /\ ~Done(h)
  <2>1. /\ Others(h) /\ handler'[h].pc = "quantity" /\ handler'[h].req = r
        /\ overlap \/ handler'[h].refunded = Refunded
    <3>1. CASE Become(h, Busy("quantity", r, Refunded))
      BY <1>1, <1>3, <3>1, BecomeBusy DEF Pcs
    <3>2. CASE Goto(h, "quantity")
      BY <1>1, <1>3, <3>2, GotoBusy DEF Pcs, Fresh
    <3> QED
      BY <1>3, <1>4, <3>1, <3>2 DEF FindReturn, Busy
  <2>2. r.op \in {"return", "exchange"}
    BY <1>1, <1>3, <1>4 DEF FindReturn, At, Facts
  <2>3. Facts(h)'
    BY <2>1, <2>2 DEF Facts, Deciding
  <2>4. overlap \/ Fresh(h)'
    BY <1>1, <1>3, <2>1, SameRows DEF Fresh, At, Checked
  <2> QED
    BY <1>1, <1>3, <2>1, <2>3, <2>4, LocalLedger
<1>5. CASE CheckQuantity(h) /\ ~Done(h)
  <2>1. Goto(h, "amount") /\ QtyLeft(r.lines)
    BY <1>3, <1>5 DEF CheckQuantity
  <2>2. /\ Others(h) /\ handler'[h].pc = "amount" /\ handler'[h].req = r
        /\ handler'[h].refunded = handler[h].refunded
    BY <1>1, <1>3, <2>1, GotoBusy DEF Pcs
  <2>3. Facts(h)'
    BY <1>1, <1>3, <1>5, <2>2 DEF CheckQuantity, At, Facts, Deciding
  <2>4. overlap \/ Fresh(h)'
    <3>1. QtyLeft(r.lines)'
      BY <1>1, <1>3, <2>1, SameRows
    <3> QED
      BY <1>1, <1>3, <2>2, <3>1, SameRows DEF Fresh, At, Checked
  <2> QED
    BY <1>1, <1>3, <2>2, <2>3, <2>4, LocalLedger
<1>6. CASE CheckAmount(h) /\ ~Done(h)
  <2>1. Goto(h, Route(r)) /\ AmountLeft(r, handler[h].refunded)
    BY <1>3, <1>6 DEF CheckAmount
  <2>2. r.op \in {"return", "exchange"}
    BY <1>1, <1>3, <1>6 DEF CheckAmount, At, Facts
  <2>3. Route(r) \in Checked \ {"exchange"} /\ (IF r.op = "exchange" THEN Route(r) = "swap" ELSE Route(r) # "swap")
    BY <2>2 DEF Route, Checked
  <2>4. /\ Others(h) /\ handler'[h].pc = Route(r) /\ handler'[h].req = r
        /\ handler'[h].refunded = handler[h].refunded
    BY <1>1, <1>3, <2>1, <2>3, GotoBusy DEF Pcs, Checked
  <2>5. Facts(h)'
    BY <2>1, <2>2, <2>3, <2>4 DEF Facts, Deciding, Checked, AmountLeft
  <2>6. overlap \/ Fresh(h)'
    <3>1. ASSUME ~overlap
          PROVE  QtyLeft(r.lines)' /\ AmountLeft(r, Refunded)'
      <4>1. handler[h].refunded = Refunded /\ QtyLeft(r.lines)
        BY <1>1, <1>3, <1>6, <3>1 DEF Fresh, CheckAmount, At
      <4> QED
        BY <1>1, <1>3, <2>1, <4>1, SameRows
    <3> QED
      BY <1>1, <1>3, <2>3, <2>4, <3>1, SameRows DEF Fresh, At, Checked
  <2> QED
    BY <1>1, <1>3, <2>4, <2>5, <2>6, LocalLedger
<1>7. CASE CheckSwap(h) /\ ~Done(h)
  <2>1. Goto(h, "exchange") /\ \A i \in DOMAIN r.replace : stock[r.replace[i].lv] >= r.replace[i].qty
    BY <1>3, <1>7 DEF CheckSwap
  <2>2. /\ Others(h) /\ handler'[h].pc = "exchange" /\ handler'[h].req = r
        /\ handler'[h].refunded = handler[h].refunded
    BY <1>1, <1>3, <2>1, GotoBusy DEF Pcs
  <2>3. Facts(h)'
    BY <1>1, <1>3, <1>7, <2>2 DEF CheckSwap, At, Facts, Deciding
  <2>4. overlap \/ Fresh(h)'
    <3>1. ASSUME ~overlap
          PROVE  QtyLeft(r.lines)' /\ AmountLeft(r, Refunded)'
      BY <1>1, <1>3, <1>7, <3>1, SameRows DEF Fresh, CheckSwap, At, Checked
    <3> QED
      BY <1>1, <1>3, <2>1, <2>2, <3>1, SameRows DEF Fresh, At, Checked
  <2> QED
    BY <1>1, <1>3, <2>2, <2>3, <2>4, LocalLedger
<1>8. CASE CheckApproval(h) /\ ~Done(h)
  <2>1. Goto(h, "mark")
    BY <1>3, <1>8 DEF CheckApproval
  <2>2. /\ Others(h) /\ handler'[h].pc = "mark" /\ handler'[h].req = r
        /\ handler'[h].refunded = handler[h].refunded
    BY <1>1, <1>3, <2>1, GotoBusy DEF Pcs
  <2>3. Facts(h)'
    BY <1>1, <1>3, <1>8, <2>2, SameRows DEF CheckApproval, At, Facts, Deciding
  <2>4. overlap \/ Fresh(h)'
    BY <1>1, <1>3, <2>2, SameRows DEF Fresh, At, Checked
  <2> QED
    BY <1>1, <1>3, <2>2, <2>3, <2>4, LocalLedger
<1> QED
  BY <1>2, <1>4, <1>5, <1>6, <1>7, <1>8

LEMMA InsertRequestLedger ==
  ASSUME CInv, IInv', NEW h \in Handlers, InsertRequest(h)
  PROVE  CInv'
<1>1. ~At(h, "idle") /\ HandlersOK /\ Facts(h) /\ (overlap \/ Fresh(h)) /\ LedgerOK /\ CompletedIsRefunded
  BY DEF InsertRequest, At, CInv, IInv
<1>2. PICK r \in Requests : r = handler[h].req
  BY <1>1, IdleOrBusy
<1>3. /\ r.key \in Keys /\ r.op = "return" /\ AmountOf(r) \in Nat \ {0} /\ r.lines \in Seq(Line)
      /\ Done(h) /\ overlap' = overlap /\ UNCHANGED <<refund, stock, damaged>>
  <2>1. r.op = "return" /\ 0 < AmountOf(r)
    BY <1>1, <1>2 DEF InsertRequest, At, Facts
  <2> QED
    BY <1>2, <2>1, KeyTyped, RequestTyped DEF InsertRequest
<1>4. CASE event[r.key] = NoEvent
  <2>1. EventWritten(r.key, "requested", r.lines, <<>>, AmountOf(r))
    BY <1>2, <1>4, NewEventIs DEF InsertRequest, EventWritten
  <2>2. event[r.key].status = "none"
    BY <1>4 DEF NoEvent
  <2>3. \/ overlap
        \/ /\ \A l \in Levels : KeptQty(l) + QtyOf(r.lines, l) <= Sold[l]
           /\ KeptAmount + AmountOf(r) <= Paid
    <3>1. overlap \/ (QtyLeft(r.lines) /\ AmountLeft(r, Refunded))
      BY <1>1, <1>2 DEF InsertRequest, At, Fresh, Checked
    <3> QED
      BY <1>1, <1>3, <3>1, StillFits
  <2>4. LedgerOK'
    BY <1>1, <1>3, <2>1, <2>2, <2>3, InsertLedger
  <2>5. EventsLast
    BY <2>1, <2>2 DEF EventsLast, EventWritten
  <2> QED
    BY <1>1, <1>3, <2>4, <2>5, Ended
<1>5. CASE event[r.key] # NoEvent
  <2>1. UNCHANGED rowVars /\ overlap' \in BOOLEAN
    BY <1>1, <1>2, <1>3, <1>5 DEF InsertRequest, rowVars, LedgerOK, TypeOK
  <2>2. LedgerOK' /\ EventsLast
    BY <1>1, <1>3, <2>1, LedgerStays DEF EventsLast, rowVars
  <2> QED
    BY <1>1, <1>3, <2>2, Ended
<1> QED
  BY <1>4, <1>5

(* The transaction of a return or an exchange. *)
LEMMA FinishLedger ==
  ASSUME LedgerOK, NEW k \in Keys, NEW s, NEW lines \in Seq(Line), NEW replace \in Seq(Swap),
         NEW amount \in Nat \ {0}, NEW fresh \in BOOLEAN,
         Finish(k, Event(s, lines, replace, amount), fresh), overlap' = overlap,
         \/ overlap
         \/ fresh /\ event[k] # NoEvent
         \/ /\ \A l \in Levels : /\ KeptQty(l) - HeldQty(k, l) + QtyOf(lines, l) <= Sold[l]
                                 /\ QtyOf(replace, l) <= stock[l]
            /\ KeptAmount - HeldAmount(k) + amount <= Paid
  PROVE  LedgerOK' /\ EventsLast
<1> DEFINE aborts == (fresh /\ event[k] # NoEvent) \/ refund[k] > 0
<1>1. CASE aborts
  <2>1. UNCHANGED rowVars /\ overlap' \in BOOLEAN
    BY <1>1 DEF Finish, LedgerOK, TypeOK
  <2> QED
    BY <2>1, LedgerStays DEF EventsLast, rowVars
<1>2. CASE ~aborts
  <2>1. Settle(k, Event(s, lines, replace, amount)) /\ ~(refund[k] > 0)
    BY <1>2 DEF Finish
  <2>2. LedgerOK'
    BY <1>2, <2>1, SettleLedger
  <2>3. event' = [event EXCEPT ![k] = [Event(s, lines, replace, amount) EXCEPT !.status = "completed"]]
    BY <2>1 DEF Settle
  <2>4. EventsLast
    BY <2>3 DEF EventsLast, Event
  <2> QED
    BY <2>2, <2>4
<1> QED
  BY <1>1, <1>2

LEMMA CompleteLedger ==
  ASSUME CInv, IInv', NEW h \in Handlers, CompleteReturn(h) \/ CompleteExchange(h)
  PROVE  CInv'
<1>1. /\ ~At(h, "idle") /\ HandlersOK /\ Facts(h) /\ (overlap \/ Fresh(h)) /\ LedgerOK /\ CompletedIsRefunded
      /\ TypeOK /\ Done(h) /\ overlap' = overlap
  BY DEF CompleteReturn, CompleteExchange, At, CInv, IInv, LedgerOK
<1>2. PICK r \in Requests : r = handler[h].req
  BY <1>1, IdleOrBusy
<1>3. PICK replace \in Seq(Swap) :
        /\ Finish(r.key, NewEvent(r, "completed", replace), TRUE)
        /\ r.op \in {"return", "exchange"} /\ 0 < AmountOf(r)
        /\ overlap \/ \A l \in Levels : QtyOf(replace, l) <= stock[l]
  <2>1. CASE CompleteReturn(h)
    <3>1. r.op = "return" /\ 0 < AmountOf(r) /\ <<>> \in Seq(Swap)
      BY <1>1, <1>2, <2>1 DEF CompleteReturn, At, Facts
    <3>2. overlap \/ \A l \in Levels : QtyOf(<<>>, l) <= stock[l]
      BY <1>1, NoLines, StockIs DEF LedgerOK, ShelfIs
    <3> QED
      BY <1>2, <2>1, <3>1, <3>2 DEF CompleteReturn
  <2>2. CASE CompleteExchange(h)
    <3>1. r.op = "exchange" /\ 0 < AmountOf(r) /\ r.replace \in Seq(Swap) /\ NoLevelTwice(r.replace)
      BY <1>1, <1>2, <2>2, RequestTyped DEF CompleteExchange, At, Facts
    <3>2. ASSUME ~overlap, NEW l \in Levels PROVE QtyOf(r.replace, l) <= stock[l]
      <4>1. \A i \in DOMAIN r.replace : stock[r.replace[i].lv] >= r.replace[i].qty
        BY <1>1, <1>2, <2>2, <3>2 DEF CompleteExchange, At, Fresh
      <4>2. stock[l] >= 0 /\ stock[l] \in Int /\ QtyOf(r.replace, l) \in Int
        BY <1>1, <3>1, <3>2, StockIs, QtyTyped DEF LedgerOK, ShelfIs, TypeOK
      <4>3. CASE QtyOf(r.replace, l) = 0
        BY <4>2, <4>3
      <4>4. ASSUME NEW i \in DOMAIN r.replace, r.replace[i].lv = l, QtyOf(r.replace, l) = r.replace[i].qty
            PROVE  QtyOf(r.replace, l) <= stock[l]
        BY <4>1, <4>2, <4>4
      <4> QED
        BY <3>1, <4>3, <4>4, QtyOfLine
    <3> QED
      BY <1>2, <2>2, <3>1, <3>2 DEF CompleteExchange
  <2> QED
    BY <2>1, <2>2
<1>4. r.key \in Keys /\ r.lines \in Seq(Line) /\ AmountOf(r) \in Nat \ {0}
  BY <1>3, KeyTyped, RequestTyped
<1>5. Finish(r.key, Event("completed", r.lines, replace, AmountOf(r)), TRUE)
  BY <1>3, NewEventIs
<1>6. \/ overlap
      \/ event[r.key] # NoEvent
      \/ /\ \A l \in Levels : /\ KeptQty(l) - HeldQty(r.key, l) + QtyOf(r.lines, l) <= Sold[l]
                              /\ QtyOf(replace, l) <= stock[l]
         /\ KeptAmount - HeldAmount(r.key) + AmountOf(r) <= Paid
  <2>1. ASSUME ~overlap, event[r.key] = NoEvent
        PROVE  /\ \A l \in Levels : /\ KeptQty(l) - HeldQty(r.key, l) + QtyOf(r.lines, l) <= Sold[l]
                                    /\ QtyOf(replace, l) <= stock[l]
               /\ KeptAmount - HeldAmount(r.key) + AmountOf(r) <= Paid
    <3>1. QtyLeft(r.lines) /\ AmountLeft(r, Refunded)
      BY <1>1, <1>2, <2>1 DEF CompleteReturn, CompleteExchange, At, Fresh, Checked
    <3>2. /\ \A l \in Levels : KeptQty(l) + QtyOf(r.lines, l) <= Sold[l]
          /\ KeptAmount + AmountOf(r) <= Paid
      BY <1>1, <1>3, <2>1, <3>1, StillFits
    <3>3. HeldAmount(r.key) = 0 /\ \A l \in Levels : HeldQty(r.key, l) = 0
      BY <2>1 DEF HeldAmount, HeldQty, Kept, NoEvent
    <3>4. KeptAmount \in Int /\ \A l \in Levels : KeptQty(l) \in Int
      BY <1>1, SumsTyped, AmountTyped
    <3> QED
      BY <1>3, <2>1, <3>2, <3>3, <3>4
  <2> QED
    BY <2>1
<1>7. LedgerOK' /\ EventsLast
  BY <1>1, <1>4, <1>5, <1>6, FinishLedger
<1> QED
  BY <1>1, <1>7, Ended

LEMMA FinishApprovedLedger ==
  ASSUME CInv, IInv', NEW h \in Handlers, FinishApproved(h)
  PROVE  CInv'
<1>1. /\ ~At(h, "idle") /\ HandlersOK /\ Facts(h) /\ LedgerOK /\ Sequential
      /\ TypeOK /\ Recorded /\ Done(h) /\ overlap' = overlap
  BY DEF FinishApproved, At, CInv, IInv, LedgerOK
<1>2. PICK k \in Keys : k = handler[h].req.key
  BY <1>1, IdleOrBusy, KeyTyped
<1>3. PICK s, lines, replace, amount :
        /\ s = event[k].status /\ lines = event[k].lines
        /\ replace = event[k].replace /\ amount = event[k].amount
  OBVIOUS
<1>4. /\ lines \in Seq(Line) /\ replace \in Seq(Swap) /\ amount \in Nat \ {0}
      /\ event[k] = Event(s, lines, replace, amount)
  <2>1. event[k] \in EventType /\ event[k].status # "none"
    BY <1>1, <1>2, EventTyped DEF FinishApproved, At, Facts, Deciding
  <2>2. event[k].amount \in Nat \ {0}
    BY <1>1, <2>1, EventTyped DEF Recorded
  <2> QED
    BY <1>3, <2>1, <2>2 DEF EventType, Event
<1>5. Finish(k, Event(s, lines, replace, amount), FALSE)
  BY <1>2, <1>4 DEF FinishApproved
<1>6. ASSUME ~overlap
      PROVE  /\ \A l \in Levels : /\ KeptQty(l) - HeldQty(k, l) + QtyOf(lines, l) <= Sold[l]
                                  /\ QtyOf(replace, l) <= stock[l]
             /\ KeptAmount - HeldAmount(k) + amount <= Paid
  <2>1. event[k].status = "approved"
    BY <1>1, <1>2, <1>6 DEF FinishApproved, At, Sequential, Expects
  <2>2. k \in Kept /\ replace = <<>>
    BY <1>1, <1>3, <1>6, <2>1 DEF Kept, LedgerOK, WaitingPlain, OpenStatuses
  <2>3. HeldAmount(k) = amount /\ \A l \in Levels : HeldQty(k, l) = QtyOf(lines, l)
    BY <1>3, <2>2 DEF HeldAmount, HeldQty
  <2>4. /\ KeptAmount \in Int /\ KeptAmount <= Paid
        /\ \A l \in Levels : KeptQty(l) \in Int /\ KeptQty(l) <= Sold[l] /\ QtyOf(lines, l) \in Int
    BY <1>1, <1>4, <1>6, SumsTyped, AmountTyped, QtyTyped, NeverIs DEF KeptFits, LedgerOK
  <2>5. \A l \in Levels : QtyOf(replace, l) <= stock[l]
    BY <1>1, <1>6, <2>2, NoLines, StockIs DEF LedgerOK, ShelfIs
  <2> QED
    BY <1>4, <2>3, <2>4, <2>5
<1>7. LedgerOK' /\ EventsLast
  BY <1>1, <1>4, <1>5, <1>6, FinishLedger
<1> QED
  BY <1>1, <1>7, Ended

LEMMA DecideLedger ==
  ASSUME CInv, IInv', NEW h \in Handlers, MarkApproved(h) \/ RejectReturn(h)
  PROVE  CInv'
<1>1. /\ ~At(h, "idle") /\ HandlersOK /\ Facts(h) /\ LedgerOK /\ Sequential /\ (overlap \/ Fresh(h))
      /\ overlap' = overlap /\ UNCHANGED <<refund, stock, damaged>>
  BY DEF MarkApproved, RejectReturn, At, CInv, IInv, LedgerOK
<1>2. PICK r \in Requests : r = handler[h].req
  BY <1>1, IdleOrBusy
<1>3. r.key \in Keys /\ event[r.key].status # "none" /\ (overlap \/ event[r.key].status = "requested")
  BY <1>1, <1>2, KeyTyped DEF MarkApproved, RejectReturn, At, Facts, Deciding, Sequential, Expects
<1>4. ASSUME NEW s \in {"approved", "rejected"}, SetStatus(r.key, s) PROVE LedgerOK' /\ EventsLast
  <2>1. LedgerOK'
    BY <1>1, <1>3, <1>4, StatusLedger
  <2>2. event \in [Keys -> EventType]
    BY <1>1 DEF LedgerOK, TypeOK
  <2>3. [event[r.key] EXCEPT !.status = s].status = s
    BY <1>3, <2>2 DEF EventType
  <2>4. EventsLast
    BY <1>3, <1>4, <2>2, <2>3 DEF SetStatus, EventsLast
  <2> QED
    BY <2>1, <2>4
<1>5. CASE MarkApproved(h)
  <2>1. LedgerOK' /\ EventsLast
    BY <1>2, <1>4, <1>5 DEF MarkApproved
  <2>2. /\ Others(h) /\ handler'[h].pc = "finish" /\ handler'[h].req = r
        /\ handler'[h].refunded = handler[h].refunded
    BY <1>1, <1>2, <1>5, GotoBusy DEF MarkApproved, Pcs
  <2>3. Facts(h)'
    BY <1>3, <2>1, <2>2 DEF Facts, Deciding, EventsLast
  <2>4. Refunded' = Refunded
    BY <1>1 DEF Refunded, SumOver
  <2>5. overlap \/ Fresh(h)'
    BY <1>1, <2>2, <2>4 DEF Fresh, At, Checked
  <2> QED
    BY <1>1, <2>1, <2>2, <2>3, <2>5, Joined
<1>6. CASE RejectReturn(h)
  <2>1. LedgerOK' /\ EventsLast /\ Done(h)
    BY <1>2, <1>4, <1>6 DEF RejectReturn
  <2> QED
    BY <1>1, <2>1, Ended
<1> QED
  BY <1>5, <1>6

LEMMA CrashLedger ==
  ASSUME CInv, IInv', NEW h \in Handlers, Crash(h)
  PROVE  CInv'
<1>1. /\ ~At(h, "idle") /\ Done(h) /\ overlap' = overlap /\ overlap' \in BOOLEAN
      /\ UNCHANGED rowVars
  BY DEF Crash, CInv, LedgerOK, TypeOK
<1>2. LedgerOK' /\ EventsLast
  BY <1>1, LedgerStays DEF CInv, EventsLast, rowVars
<1> QED
  BY <1>1, <1>2, Ended

LEMMA LedgerStep == CInv /\ [Next]_vars => CInv'
<1> SUFFICES ASSUME CInv, [Next]_vars PROVE CInv'
  OBVIOUS
<1>1. IInv'
  BY StepKept DEF CInv
<1>2. CASE UNCHANGED vars
  <2>1. UNCHANGED rowVars /\ overlap' = overlap /\ overlap' \in BOOLEAN /\ handler' = handler
    BY <1>2 DEF vars, CInv, LedgerOK, TypeOK
  <2>2. LedgerOK'
    BY <2>1, LedgerStays DEF CInv
  <2>3. ASSUME NEW h \in Handlers PROVE Facts(h)'
    BY <2>1 DEF CInv, Facts, rowVars
  <2>4. ASSUME NEW h \in Handlers, ~overlap PROVE Fresh(h)'
    <3>1. Fresh(h)
      BY <2>4 DEF CInv
    <3> QED
      BY <2>1, <3>1 DEF Fresh, At, rowVars, Refunded, QtyLeft, ReturnedQty, AmountLeft, Refundable, SumOver
  <2> QED
    BY <1>1, <2>1, <2>2, <2>3, <2>4 DEF CInv
<1>3. ASSUME NEW h \in Handlers, CallReturn(h) \/ CallDecide(h) PROVE CInv'
  BY <1>1, <1>3, CallLedger
<1>4. ASSUME NEW h \in Handlers, Work(h) PROVE CInv'
  BY <1>1, <1>4, ReadLedger, InsertRequestLedger, CompleteLedger, FinishApprovedLedger, DecideLedger DEF Work
<1>5. ASSUME NEW h \in Handlers, Crash(h) PROVE CInv'
  BY <1>1, <1>5, CrashLedger
<1> QED
  BY <1>2, <1>3, <1>4, <1>5 DEF Next

(* The second layer is kept: the rows are typed, and every handler holds     *)
(* what it has compared.                                                     *)
THEOREM LedgerInvariance == Spec => []CInv
  BY InitLedger, LedgerStep, PTL DEF Spec

(* While requests come one at a time, no piece is taken back twice and no    *)
(* more is refunded than was paid, for any sale and any requests.            *)
THEOREM NothingReturnedTwice == Spec => []NeverOverReturned
<1>1. CInv => NeverOverReturned
  BY DEF CInv, LedgerOK
<1> QED
  BY <1>1, LedgerInvariance, PTL

(* Whatever runs at once and crashes, the shelf is what the refunded returns *)
(* and exchanges explain.                                                    *)
THEOREM ShelfExplained == Spec => []StockExplained
<1>1. CInv => StockExplained
  BY DEF CInv, LedgerOK
<1> QED
  BY <1>1, LedgerInvariance, PTL

=============================================================================
