------------------------------ MODULE RentalUnits ------------------------------
(***************************************************************************)
(* Rental orders, the units on their lines and the reservations of those   *)
(* units (orders/orders.service.ts, pos/rental-pos.service.ts,             *)
(* returns/returns.service.ts, inventory/inventory.service.ts).            *)
(*                                                                         *)
(* A handler reads the order, decides and writes in one transaction.  A    *)
(* transaction is one step, except where an order or the counter reserves: *)
(* there the test for overlapping dates and the insert are two steps.      *)
(* Fees, deposits, cleaning jobs and damage records are left out, and the  *)
(* lines of an order are units only.                                       *)
(***************************************************************************)
EXTENDS Integers, SequencesExt

CONSTANTS
  Orders, Items, Units, Handlers,
  None,
  OrderOf, Unit0,       \* the order of each line, the unit on it at the start
  Booked,               \* the orders that are reserved at the start
  Windows, Window0,     \* date ranges <<first, last>>; the one each order starts with
  Today,
  Outcomes,             \* bound: statuses a unit comes back with
  HandStatuses,         \* bound: statuses that are set by hand
  CoreStatuses,         \* bound: statuses changeStatus is asked for
  MaxHolds,             \* bound: reservation rows
  MaxCalls,             \* bound: requests
  MaxTogether           \* bound: requests that begin while another one is running

UnitStatuses ==
  {"available", "reserved", "checked_out", "in_service", "cleaning", "repair", "retired",
   "sold", "lost"}

ASSUME RentalAssumption ==
  /\ IsFiniteSet(Items) /\ OrderOf \in [Items -> Orders]
  /\ None \notin Items \cup Units /\ Items \cap Units = {}
  /\ Unit0 \in [Items -> Units \cup {None}]
  /\ Booked \subseteq Orders
  /\ \A i, j \in Items : OrderOf[i] \in Booked /\ OrderOf[j] \in Booked
                           /\ Unit0[i] = Unit0[j] /\ Unit0[i] # None => i = j
  /\ Windows \subseteq Int \X Int /\ Window0 \in [Orders -> Windows]
  /\ Today \in Int
  /\ Outcomes \subseteq {"available", "cleaning", "repair", "lost"}
  /\ HandStatuses \subseteq UnitStatuses \ {"reserved"}
  /\ MaxHolds \in Nat /\ MaxCalls \in Nat /\ MaxTogether \in Nat

VARIABLES
  unit,      \* stock_units: status
  order,     \* orders and mod_rental_orders: lifecycle, core status, dates
  itemUnit,  \* order_items: the unit of a line; None for a line that does not exist
  holds,     \* stock_reservations, oldest first; by is history: what made the row live
  returned,  \* return_events: order and unit
  handler,   \* what each handler is doing
  raced,     \* history: orders and units two requests worked on at once
  loose,     \* history: lines added without a reservation, or whose reservation
             \*   somebody else let go, or that were handed over with another unit;
             \*   and the units that were on those lines before
  calls, together

rowVars == <<unit, order, itemUnit, holds, returned>>
vars == <<rowVars, handler, raced, loose, calls, together>>

Idle == [pc |-> "idle", on |-> {}]

(* RENTAL_TRANSITIONS *)
Allowed ==
  [quote       |-> {"reserved", "cancelled"},
   reserved    |-> {"fitted", "ready", "checked_out", "cancelled"},
   fitted      |-> {"ready", "checked_out", "cancelled"},
   ready       |-> {"checked_out", "cancelled"},
   checked_out |-> {"returned"},
   returned    |-> {"inspected", "closed"},
   inspected   |-> {"closed"},
   closed      |-> {},
   cancelled   |-> {}]

(* LIFECYCLE_TO_CORE *)
CoreOf ==
  [reserved |-> "confirmed", fitted |-> "in_progress", ready |-> "ready",
   checked_out |-> "fulfilled", returned |-> "fulfilled", inspected |-> "fulfilled",
   closed |-> "closed", cancelled |-> "cancelled"]

(* TRANSITIONS and MUTABLE: the core status of an order. *)
Transitions ==
  [draft       |-> {"quoted", "confirmed", "cancelled"},
   quoted      |-> {"confirmed", "cancelled"},
   confirmed   |-> {"in_progress", "ready", "cancelled"},
   in_progress |-> {"ready", "fulfilled", "cancelled"},
   ready       |-> {"fulfilled", "cancelled"},
   fulfilled   |-> {"closed"},
   closed      |-> {},
   cancelled   |-> {}]

Mutable == {"draft", "quoted", "confirmed", "in_progress"}

Hold(u, i, from, to, status, by) ==
  [unit |-> u, item |-> i, from |-> from, to |-> to, status |-> status, by |-> by]

Booked0 == {i \in Items : OrderOf[i] \in Booked /\ Unit0[i] # None}

Init ==
  /\ unit = [u \in Units |-> IF \E i \in Booked0 : Unit0[i] = u THEN "reserved" ELSE "available"]
  /\ order = [o \in Orders |->
       [life |-> IF o \in Booked THEN "reserved" ELSE "quote",
        status |-> IF o \in Booked THEN "confirmed" ELSE "draft",
        from |-> Window0[o][1], to |-> Window0[o][2]]]
  /\ itemUnit = Unit0
  /\ holds = SetToSeq({Hold(Unit0[i], i, Window0[OrderOf[i]][1], Window0[OrderOf[i]][2],
                           "held", "order") : i \in Booked0})
  /\ returned = {}
  /\ handler = [h \in Handlers |-> Idle]
  /\ raced = {} /\ loose = {}
  /\ calls = 0 /\ together = 0

-----------------------------------------------------------------------------
(* Rows.                                                                     *)

ItemsOf(o) == {i \in Items : OrderOf[i] = o /\ itemUnit[i] # None}
UnitsOf(o) == {itemUnit[i] : i \in ItemsOf(o)}

(* ACTIVE_RESERVATION *)
Live(hold) == hold.status \in {"held", "checked_out"}
Overlaps(hold, from, to) == hold.from <= to /\ hold.to >= from

(* updateMany: the rows of S get a new status. *)
Updated(S, status) ==
  [n \in DOMAIN holds |->
     IF n \in S THEN [holds[n] EXCEPT !.status = status] ELSE holds[n]]

Held(lines) == {n \in DOMAIN holds : holds[n].item \in lines /\ holds[n].status = "held"}
LiveOn(units) == {n \in DOMAIN holds : holds[n].unit \in units /\ Live(holds[n])}
Active(u) == LiveOn({u})

SetUnit(u, status) == unit' = [unit EXCEPT ![u] = status]
SetUnits(S, status) == unit' = [u \in Units |-> IF u \in S THEN status ELSE unit[u]]

(* Handlers. *)
Become(h, state) == handler' = [handler EXCEPT ![h] = state]
Done(h) == Become(h, Idle)
At(h, pc) == handler[h].pc = pc
Rest == UNCHANGED <<raced, calls, together>>

(* Something starts that works on the rows of on, besides those busy. *)
Starts(on, busy) ==
  LET met == {h \in busy : handler[h].on \cap on # {}} IN
  /\ calls < MaxCalls /\ calls' = calls + 1
  /\ raced' = raced \cup (IF met = {} THEN {} ELSE on \cup UNION {handler[h].on : h \in met})
  /\ IF \A h \in busy : At(h, "idle")
       THEN UNCHANGED together
       ELSE together < MaxTogether /\ together' = together + 1

(* A handler begins: state is what it has read, state.on what it works on. *)
Begin(h, state) ==
  /\ At(h, "idle")
  /\ Starts(state.on, Handlers \ {h})
  /\ Become(h, state)
  /\ UNCHANGED <<rowVars, loose>>

(* The lines a transaction writes to are still there; if not, it fails. *)
Stands(s) == \A i \in s.writes : itemUnit[i] # None

Fail(h) ==
  /\ handler[h].pc \in {"advance", "exchange", "pickup"} /\ ~ Stands(handler[h])
  /\ Done(h)
  /\ UNCHANGED <<rowVars, loose>> /\ Rest

(* A handler of a single step. *)
AtOnce(on) == Starts(on, Handlers) /\ UNCHANGED handler

-----------------------------------------------------------------------------
(* orders.service.ts: changeRentalLifecycle.                                 *)

BeginAdvance(h, o, to) ==
  /\ to \in Allowed[order[o].life]
  /\ Begin(h, [pc |-> IF to = "reserved" THEN "judge" ELSE "advance",
               on |-> {o} \cup UnitsOf(o), order |-> o, to |-> to, read |-> order[o],
               items |-> [i \in ItemsOf(o) |-> itemUnit[i]],
               writes |-> {}, free |-> {}])

(* A reservation of another line in the way.  A reservation without a line  *)
(* is not seen: SQL's <> is not true of NULL.                               *)
InTheWay(i, u, from, to) ==
  \E n \in Active(u) : holds[n].item \notin {None, i} /\ Overlaps(holds[n], from, to)

(* reserveRentalUnits, its tests *)
Judge(h) ==
  LET s == handler[h]
      lines == DOMAIN s.items
      from == s.read.from
      to == s.read.to
      passes ==
        /\ from <= to /\ lines # {}
        /\ \A i \in lines :
             /\ unit[s.items[i]] \in {"available", "reserved"}
             /\ ~ InTheWay(i, s.items[i], from, to)
             /\ \A j \in lines : s.items[i] = s.items[j] => i = j
      fresh == {i \in lines : \A n \in DOMAIN holds : holds[n].item = i => holds[n].status # "held"}
      free == {u \in {s.items[i] : i \in lines} : unit[u] = "available"}
  IN
  /\ At(h, "judge")
  /\ IF passes
       THEN Become(h, [s EXCEPT !.pc = "advance", !.writes = fresh, !.free = free])
       ELSE Done(h)
  /\ UNCHANGED <<rowVars, loose>> /\ Rest

(* reserveRentalUnits, its writes *)
ReserveUnits(s) ==
  LET rows == SetToSeq({Hold(s.items[i], i, s.read.from, s.read.to, "held", "order") : i \in s.writes}) IN
  /\ Len(holds) + Len(rows) <= MaxHolds
  /\ holds' = holds \o rows
  /\ SetUnits(s.free, "reserved")

(* checkoutRentalUnits *)
CheckoutUnits(s) ==
  /\ holds' = Updated(Held(DOMAIN s.items), "checked_out")
  /\ SetUnits({s.items[i] : i \in DOMAIN s.items}, "checked_out")

(* Fault: the holds of the units are released, not those of the lines. *)
ReleaseOfUnits(s) ==
  LET units == {s.items[i] : i \in DOMAIN s.items} IN
  /\ holds' = Updated({n \in LiveOn(units) : holds[n].status = "held"}, "cancelled")
  /\ SetUnits({u \in units : unit[u] = "reserved"}, "available")

(* releaseRentalHolds *)
ReleaseHolds(s) ==
  LET own == Held(DOMAIN s.items)
      last == {u \in {s.items[i] : i \in DOMAIN s.items} :
                 unit[u] = "reserved" /\ Active(u) \subseteq own}
  IN
  /\ holds' = Updated(own, "cancelled")
  /\ SetUnits(last, "available")

Advance(h) ==
  LET s == handler[h]
      core == CoreOf[s.to]
  IN
  /\ At(h, "advance") /\ Stands(s)
  /\ \/ s.to = "reserved" /\ ReserveUnits(s)
     \/ s.to = "checked_out" /\ CheckoutUnits(s)
     \/ s.to = "cancelled" /\ ReleaseHolds(s)
     \/ s.to \notin {"reserved", "checked_out", "cancelled"} /\ UNCHANGED <<unit, holds>>
  /\ order' = [order EXCEPT ![s.order].life = s.to,
                            ![s.order].status = IF core # s.read.status THEN core ELSE @]
  /\ Done(h)
  /\ UNCHANGED <<itemUnit, returned, loose>> /\ Rest

(* changeStatus *)
BeginStatus(h, o, to) ==
  /\ to \in Transitions[order[o].status]
  /\ Begin(h, [pc |-> "status", on |-> {o}, order |-> o, to |-> to])

WriteStatus(h) ==
  /\ At(h, "status")
  /\ order' = [order EXCEPT ![handler[h].order].status = handler[h].to]
  /\ Done(h)
  /\ UNCHANGED <<unit, itemUnit, holds, returned, loose>> /\ Rest

-----------------------------------------------------------------------------
(* orders.service.ts: update, addItem and removeItem test the core status.   *)

(* update: the dates of the order; its reservations keep theirs. *)
Reschedule(o, w) ==
  /\ order[o].status \in Mutable /\ w # <<order[o].from, order[o].to>>
  /\ AtOnce({o})
  /\ order' = [order EXCEPT ![o].from = w[1], ![o].to = w[2]]
  /\ UNCHANGED <<unit, itemUnit, holds, returned, loose>>

AddItem(i, u) ==
  /\ order[OrderOf[i]].status \in Mutable /\ itemUnit[i] = None
  /\ AtOnce({OrderOf[i], u})
  /\ itemUnit' = [itemUnit EXCEPT ![i] = u]
  /\ loose' = loose \cup {i}
  /\ UNCHANGED <<unit, order, holds, returned>>

(* The reservations of the line stay and lose their line (ON DELETE SET NULL). *)
RemoveItem(i) ==
  /\ order[OrderOf[i]].status \in Mutable /\ itemUnit[i] # None
  /\ AtOnce({OrderOf[i], itemUnit[i]})
  /\ itemUnit' = [itemUnit EXCEPT ![i] = None]
  /\ holds' = [n \in DOMAIN holds |->
                 IF holds[n].item = i THEN [holds[n] EXCEPT !.item = None] ELSE holds[n]]
  /\ UNCHANGED <<unit, order, returned, loose>>

-----------------------------------------------------------------------------
(* inventory.service.ts: reservations and statuses by hand.                  *)

(* reserveUnit runs SERIALIZABLE: it reads its snapshot here. *)
BeginReserve(h, u, w) ==
  /\ unit[u] \notin {"checked_out", "cleaning", "repair", "retired", "sold", "lost"}
  /\ \A n \in Active(u) : ~ Overlaps(holds[n], w[1], w[2])
  /\ Begin(h, [pc |-> "reserve", on |-> {u}, unit |-> u, from |-> w[1], to |-> w[2],
               read |-> unit[u], seen |-> Len(holds)])

(* Fault: READ COMMITTED, as for the reservations of orders. *)
SerializesRow(s) == s.read = "available" => unit[s.unit] = "available"

(* The commit fails if another SERIALIZABLE transaction inserted what the    *)
(* test would have seen, or if the row it has to update was changed.         *)
Serializes(s) ==
  /\ \A n \in s.seen + 1 .. Len(holds) :
       holds[n].by = "counter" /\ holds[n].unit = s.unit => ~ Overlaps(holds[n], s.from, s.to)
  /\ s.read = "available" => unit[s.unit] = "available"

Reserve(h) ==
  LET s == handler[h] IN
  /\ At(h, "reserve")
  /\ IF Serializes(s)
       THEN /\ Len(holds) < MaxHolds
            /\ holds' = Append(holds, Hold(s.unit, None, s.from, s.to, "held", "counter"))
            /\ IF s.read = "available" THEN SetUnit(s.unit, "reserved") ELSE UNCHANGED unit
       ELSE UNCHANGED <<holds, unit>>
  /\ Done(h)
  /\ UNCHANGED <<order, itemUnit, returned, loose>> /\ Rest

(* Fault: the unit stays reserved when its reservation is released. *)
ReleaseOnly(n) ==
  /\ holds[n].status \notin {"cancelled", "checked_out"}
  /\ AtOnce({holds[n].unit} \cup
            IF holds[n].item = None THEN {} ELSE {OrderOf[holds[n].item]})
  /\ holds' = [holds EXCEPT ![n].status = "cancelled"]
  /\ loose' = loose \cup ({holds[n].item} \ {None})
  /\ UNCHANGED <<unit, order, itemUnit, returned>>

(* releaseReservation *)
Release(n) ==
  LET u == holds[n].unit IN
  /\ holds[n].status \notin {"cancelled", "checked_out"}
  /\ AtOnce({u} \cup IF holds[n].item = None THEN {} ELSE {OrderOf[holds[n].item]})
  /\ holds' = [holds EXCEPT ![n].status = "cancelled"]
  /\ IF Active(u) \subseteq {n} /\ unit[u] = "reserved"
       THEN SetUnit(u, "available")
       ELSE UNCHANGED unit
  /\ loose' = loose \cup ({holds[n].item} \ {None})
  /\ UNCHANGED <<order, itemUnit, returned>>

(* updateUnitStatus; nobody is assumed to set reserved by hand. *)
SetStatus(u, status) ==
  /\ status # unit[u]
  /\ ~ (status = "available" /\ unit[u] = "checked_out")
  /\ AtOnce({u})
  /\ SetUnit(u, status)
  /\ UNCHANGED <<order, itemUnit, holds, returned, loose>>

-----------------------------------------------------------------------------
(* pos/rental-pos.service.ts.                                                *)

(* exchange: a line gets another unit. *)
BeginExchange(h, i, u) ==
  LET o == OrderOf[i] IN
  /\ itemUnit[i] \notin {None, u}
  /\ order[o].life \in {"checked_out", "reserved", "fitted"}
  /\ unit[u] = "available"
  /\ Begin(h, [pc |-> "exchange", on |-> {o, itemUnit[i], u}, item |-> i,
               from |-> itemUnit[i], to |-> u, read |-> order[o], writes |-> {i}])

Exchange(h) ==
  LET s == handler[h]
      out == s.read.life = "checked_out"
      left == {n \in LiveOn({s.from}) : holds[n].item = s.item}
  IN
  /\ At(h, "exchange") /\ Stands(s) /\ Len(holds) < MaxHolds
  /\ itemUnit' = [itemUnit EXCEPT ![s.item] = s.to]
  /\ holds' = Append(Updated(left, "released"),
                Hold(s.to, s.item, s.read.from, s.read.to,
                     IF out THEN "checked_out" ELSE "held", "exchange"))
  /\ unit' = [unit EXCEPT ![s.from] = "available",
                          ![s.to] = IF out THEN "checked_out" ELSE "reserved"]
  /\ Done(h)
  /\ UNCHANGED <<order, returned, loose>> /\ Rest

(* extend: a later due date; its reservations keep theirs. *)
BeginExtend(h, o, due) ==
  /\ order[o].life \in {"checked_out", "ready", "reserved"}
  /\ due > order[o].to
  /\ Begin(h, [pc |-> "extend", on |-> {o}, order |-> o, due |-> due])

Extend(h) ==
  /\ At(h, "extend")
  /\ order' = [order EXCEPT ![handler[h].order].to = handler[h].due]
  /\ Done(h)
  /\ UNCHANGED <<unit, itemUnit, holds, returned, loose>> /\ Rest

(* pickup: lines may get other units (swap), whatever the units' statuses. *)
BeginPickup(h, o, swap) ==
  /\ order[o].life \notin {"checked_out", "returned", "closed", "cancelled"}
  /\ DOMAIN swap \subseteq ItemsOf(o)
  /\ Begin(h, [pc |-> "pickup",
               on |-> {o} \cup UnitsOf(o) \cup {swap[i] : i \in DOMAIN swap},
               order |-> o, swap |-> swap, read |-> order[o], writes |-> DOMAIN swap])

(* The row findFirst may return for a line and its unit; 0 if there is none. *)
Candidates(i, u) ==
  LET rows == {n \in DOMAIN holds : holds[n].item = i /\ holds[n].unit = u} IN
  IF rows = {} THEN {0} ELSE rows

Pickup(h) ==
  LET s == handler[h]
      lines == ItemsOf(s.order)
      unitOf(i) == IF i \in DOMAIN s.swap THEN s.swap[i] ELSE itemUnit[i]
  IN
  /\ At(h, "pickup") /\ Stands(s)
  /\ itemUnit' = [i \in Items |-> IF i \in lines THEN unitOf(i) ELSE itemUnit[i]]
  /\ \E row \in [lines -> 0 .. Len(holds)] :
       LET new == {Hold(unitOf(i), i, s.read.from, s.read.to, "checked_out", "pickup") :
                     i \in {j \in lines : row[j] = 0}}
       IN
       /\ \A i \in lines : row[i] \in Candidates(i, unitOf(i))
       /\ Len(holds) + Cardinality(new) <= MaxHolds
       /\ holds' = [n \in DOMAIN holds |->
                      IF \E i \in lines : row[i] = n
                        THEN [holds[n] EXCEPT !.status = "checked_out",
                                              !.by = IF Live(holds[n]) THEN @ ELSE "revived"]
                        ELSE holds[n]] \o SetToSeq(new)
  /\ SetUnits({unitOf(i) : i \in lines}, "checked_out")
  /\ order' = [order EXCEPT ![s.order] =
                 [@ EXCEPT !.life = "checked_out", !.status = "fulfilled", !.from = Today]]
  /\ LET swapped == {i \in DOMAIN s.swap : s.swap[i] # itemUnit[i]} IN
       loose' = loose \cup swapped \cup {itemUnit[i] : i \in swapped}
  /\ Done(h)
  /\ UNCHANGED returned /\ Rest

(* The lines of other orders whose live reservations of these units end. *)
OthersOn(o, S) ==
  {holds[n].item : n \in {k \in LiveOn(S) : holds[k].item # None /\ OrderOf[holds[k].item] # o}}

(* returnSettle: whatever the life cycle, every reservation of the units that *)
(* come back, which are units of the order here.                             *)
BeginSettle(h, o, S, status) ==
  /\ S \subseteq UnitsOf(o)
  /\ Begin(h, [pc |-> "settle", on |-> {o} \cup S, order |-> o, units |-> S, to |-> status])

Settle(h) ==
  LET s == handler[h] IN
  /\ At(h, "settle")
  /\ holds' = Updated(LiveOn(s.units), "released")
  /\ SetUnits(s.units, s.to)
  /\ returned' = returned \cup {<<s.order, u>> : u \in s.units}
  /\ order' = [order EXCEPT ![s.order].life = "returned"]
  /\ loose' = loose \cup OthersOn(s.order, s.units)
  /\ Done(h)
  /\ UNCHANGED itemUnit /\ Rest

(* cancel: every reservation of the units on the order. *)
BeginCancel(h, o) ==
  /\ order[o].life \notin {"checked_out", "cancelled"}
  /\ order[o].status # "cancelled"
  /\ Begin(h, [pc |-> "cancel", on |-> {o} \cup UnitsOf(o), order |-> o, units |-> UnitsOf(o)])

Cancel(h) ==
  LET s == handler[h] IN
  /\ At(h, "cancel")
  /\ holds' = Updated(LiveOn(s.units), "released")
  /\ SetUnits(s.units, "available")
  /\ order' = [order EXCEPT ![s.order] = [@ EXCEPT !.life = "cancelled", !.status = "cancelled"]]
  /\ loose' = loose \cup OthersOn(s.order, s.units)
  /\ Done(h)
  /\ UNCHANGED <<itemUnit, returned>> /\ Rest

-----------------------------------------------------------------------------
(* returns/returns.service.ts.                                               *)

(* create: one unit comes back. *)
BeginReturn(h, i, status) ==
  LET o == OrderOf[i] IN
  /\ itemUnit[i] # None /\ <<o, itemUnit[i]>> \notin returned
  /\ \/ order[o].life \in {"checked_out", "returned"}
     \/ order[o].status \in {"fulfilled", "ready", "closed"}
  /\ Begin(h, [pc |-> "return", on |-> {o, itemUnit[i]}, item |-> i, unit |-> itemUnit[i],
               to |-> status, read |-> order[o]])

Return(h) ==
  LET s == handler[h]
      o == OrderOf[s.item]
      out == {n \in DOMAIN holds : holds[n].item = s.item /\ holds[n].status = "checked_out"}
      allBack == \A u \in UnitsOf(o) : <<o, u>> \in returned'
  IN
  /\ At(h, "return")
  /\ returned' = returned \cup {<<o, s.unit>>}
  /\ holds' = Updated(out, "released")
  /\ SetUnit(s.unit, s.to)
  /\ order' = IF s.read.life = "checked_out" /\ allBack
                THEN [order EXCEPT ![o].life = "returned"]
                ELSE order
  /\ Done(h)
  /\ UNCHANGED <<itemUnit, loose>> /\ Rest

(* inspect *)
BeginInspect(h, event, status) ==
  Begin(h, [pc |-> "inspect", on |-> {event[1], event[2]}, event |-> event, to |-> status,
            read |-> order[event[1]]])

Inspect(h) ==
  LET s == handler[h] IN
  /\ At(h, "inspect")
  /\ SetUnit(s.event[2], s.to)
  /\ order' = IF s.read.life \in {"returned", "checked_out"}
                THEN [order EXCEPT ![s.event[1]].life = "inspected"]
                ELSE order
  /\ Done(h)
  /\ UNCHANGED <<itemUnit, holds, returned, loose>> /\ Rest

(* completeCleaning, whatever the unit is doing by now. *)
CompleteCleaning(event) ==
  /\ AtOnce({event[2]})
  /\ SetUnit(event[2], "available")
  /\ UNCHANGED <<order, itemUnit, holds, returned, loose>>

-----------------------------------------------------------------------------
BeginOrder(h) ==
  \E o \in Orders :
    \/ \E to \in DOMAIN Allowed : BeginAdvance(h, o, to)
    \/ \E to \in CoreStatuses : BeginStatus(h, o, to)

BeginRental(h) ==
  \/ \E i \in Items, u \in Units : BeginExchange(h, i, u)
  \/ \E o \in Orders, w \in Windows : BeginExtend(h, o, w[2])
  \/ \E o \in Orders :
       \/ BeginPickup(h, o, <<>>)
       \/ \E i \in ItemsOf(o) : \E u \in Units \ {itemUnit[i]} :
            BeginPickup(h, o, [x \in {i} |-> u])
       \/ \E S \in SUBSET UnitsOf(o), s \in Outcomes :
            BeginSettle(h, o, S, s)
       \/ BeginCancel(h, o)

BeginBack(h) ==
  \/ \E i \in Items, s \in Outcomes \cap {"available", "cleaning"} : BeginReturn(h, i, s)
  \/ \E event \in returned, s \in Outcomes \ {"lost"} : BeginInspect(h, event, s)

ByHand ==
  \/ \E o \in Orders, w \in Windows : Reschedule(o, w)
  \/ \E i \in Items, u \in Units : AddItem(i, u)
  \/ \E i \in Items : RemoveItem(i)
  \/ \E n \in DOMAIN holds : Release(n)
  \/ \E u \in Units, s \in HandStatuses : SetStatus(u, s)
  \/ \E event \in returned : CompleteCleaning(event)

Work(h) ==
  \/ Fail(h) \/ Judge(h) \/ Advance(h) \/ WriteStatus(h) \/ Reserve(h)
  \/ Exchange(h) \/ Extend(h) \/ Pickup(h) \/ Settle(h) \/ Cancel(h)
  \/ Return(h) \/ Inspect(h)

Next ==
  \/ ByHand
  \/ \E h \in Handlers :
       \/ BeginOrder(h) \/ BeginRental(h) \/ BeginBack(h)
       \/ \E u \in Units, w \in Windows : BeginReserve(h, u, w)
       \/ Work(h)

Spec == Init /\ [][Next]_vars

-----------------------------------------------------------------------------
(* Properties.                                                               *)

(* No two live reservations of a unit overlap, as the tests of               *)
(* reserveRentalUnits and reserveUnit mean to ensure: two reservations at    *)
(* the counter never do, even made at once; an order's and another one do    *)
(* only if the requests ran at once, if the earlier one has no line, or if   *)
(* one of them was made or brought back by exchange or pickup, which do not  *)
(* test.                                                                     *)
BookedApart ==
  \A m \in DOMAIN holds : \A n \in 1 .. m - 1 :
    LET a == holds[n]
        b == holds[m]
    IN a.unit = b.unit /\ Live(a) /\ Live(b) /\ Overlaps(a, b.from, b.to) =>
         \/ a.by = "revived" \/ b.by \in {"exchange", "pickup", "revived"}
         \/ b.by = "order" /\ a.item = None
         \/ a.unit \in raced /\ ~ (a.by = "counter" /\ b.by = "counter")

(* A unit is shown as reserved only while somebody has a live reservation of *)
(* it: whatever releases the last one, order, counter, exchange or return,   *)
(* gives the unit free.  For units no two requests worked on at once and     *)
(* that pickup took off no line: the reservation of such a line stays on the *)
(* old unit, and what ends it later looks at the new one only.               *)
ReservedIsHeld ==
  \A u \in Units \ (raced \cup loose) : unit[u] = "reserved" => Active(u) # {}

(* Order, line, unit and reservation agree: a line of an order that is       *)
(* reserved, fitted or ready has its own held reservation of its unit, one   *)
(* of an order handed over has it checked out until the unit is back, and a  *)
(* cancelled order keeps no reservation.  For orders and units that two      *)
(* requests did not work on at once, and lines that are not loose.           *)
OwnHold(i, status) ==
  \E n \in DOMAIN holds :
    holds[n].item = i /\ holds[n].unit = itemUnit[i] /\ holds[n].status = status

HoldsAgree ==
  \A o \in Orders \ raced : \A i \in ItemsOf(o) \ loose :
    itemUnit[i] \notin raced =>
      /\ order[o].life \in {"reserved", "fitted", "ready"} => OwnHold(i, "held")
      /\ order[o].life = "checked_out" /\ <<o, itemUnit[i]>> \notin returned
           => OwnHold(i, "checked_out")
      /\ order[o].life = "cancelled"
           => \A n \in DOMAIN holds : holds[n].item = i => ~ Live(holds[n])
=============================================================================
