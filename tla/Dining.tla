-------------------------------- MODULE Dining --------------------------------
(***************************************************************************)
(* Tables, dining orders and kitchen tickets of a restaurant               *)
(* (restaurant/restaurant.service.ts, restaurant-guest.service.ts and      *)
(* restaurant-policy.ts), with the requests of the counter that touch      *)
(* them (pos/pos.service.ts: saleCheckout, checkout, discardParkedSale;    *)
(* orders/orders.service.ts: addItem).                                     *)
(*                                                                         *)
(* A handler reads tables, orders and tickets without a lock, decides, and *)
(* writes in one transaction, which is one step here; several do more      *)
(* after their transaction.  Prices, courses, priorities, the status of    *)
(* single ticket lines and the kitchen phase of an order are left out.     *)
(***************************************************************************)
EXTENDS Integers, FiniteSets

CONSTANTS
  Tables, Orders, Items,
  Stations, StationOf,      \* the kitchen station an item is routed to
  Bookings, BookingAt,      \* reservations of overlapping times, and their tables
  Handlers,                 \* concurrent requests
  None,
  OpenAt, Bill0,            \* the order open at each table at the start, the items on it
  MaxCalls,                 \* bound: requests
  MaxTogether               \* bound: requests that begin while another one is running

ASSUME DiningAssumption ==
  /\ StationOf \in [Items -> Stations]
  /\ BookingAt \in [Bookings -> Tables]
  /\ None \notin Tables \cup Orders \cup Items \cup Stations
  /\ Tables \cap Orders = {} /\ (Tables \cup Orders) \cap Items = {}
  /\ OpenAt \in [Tables -> Orders \cup {None}] /\ Bill0 \in [Items -> Orders \cup {None}]
  /\ \A t, u \in Tables : OpenAt[t] = OpenAt[u] /\ OpenAt[t] # None => t = u
  /\ \A i \in Items : \E t \in Tables : Bill0[i] # None => Bill0[i] = OpenAt[t]
  /\ MaxCalls \in Nat /\ MaxTogether \in Nat

VARIABLES
  table,     \* restaurant_tables: status and current order
  order,     \* orders and restaurant_orders
  itemOf,    \* the order of an order item
  tickets,   \* kitchen_tickets with their lines
  booking,   \* dining_reservations: status
  handler,   \* what each handler is doing
  screen,    \* the floor screen that tidies up tables: what it is about to write
  raced,     \* history: tables, orders and items two requests worked on at once
  calls, together

rowVars == <<table, order, itemOf, tickets, booking>>
diningVars == <<rowVars, handler, screen, raced, calls, together>>

Resting == [pc |-> "idle", on |-> {}]
NoOrder == [status |-> "none", ext |-> FALSE, at |-> None, parked |-> FALSE, paid |-> FALSE]

(* openDiningOrder and placeOrder open an order like this one, parked. *)
NewOrder(t) ==
  [status |-> "draft", ext |-> TRUE, at |-> t, parked |-> TRUE, paid |-> FALSE]

DiningInit ==
  /\ table = [t \in Tables |->
       [status |-> IF OpenAt[t] = None THEN "available" ELSE "occupied", order |-> OpenAt[t]]]
  /\ order = [o \in Orders |->
       IF \E t \in Tables : OpenAt[t] = o THEN NewOrder(CHOOSE t \in Tables : OpenAt[t] = o) ELSE NoOrder]
  /\ itemOf = Bill0
  /\ tickets = {}
  /\ booking = [b \in Bookings |-> "none"]
  /\ handler = [h \in Handlers |-> Resting]
  /\ screen = <<>>
  /\ raced = {}
  /\ calls = 0 /\ together = 0

-----------------------------------------------------------------------------
(* Handlers.                                                                 *)

Become(h, state) == handler' = [handler EXCEPT ![h] = state]
Done(h) == Become(h, Resting)
At(h, pc) == handler[h].pc = pc

(* Something begins, alone or beside something else. *)
Begins(alone) ==
  IF alone
    THEN UNCHANGED together
    ELSE together < MaxTogether /\ together' = together + 1

(* What a handler that is about to work on these rows meets: rows that other *)
(* handlers work on.                                                         *)
Met(h, on) ==
  LET others == {o \in Handlers \ {h} : handler[o].on \cap on # {}} IN
  IF others = {} THEN {} ELSE on \cup UNION {handler[o].on : o \in others}

(* A handler starts: state is what it has read, state.on what it works on. *)
Start(h, state) ==
  /\ At(h, "idle")
  /\ calls < MaxCalls
  /\ calls' = calls + 1
  /\ Begins(screen = <<>> /\ \A o \in Handlers \ {h} : At(o, "idle"))
  /\ Become(h, state)
  /\ raced' = raced \cup Met(h, state.on) \cup (DOMAIN screen \cap state.on)
  /\ UNCHANGED <<rowVars, screen>>

Rest == UNCHANGED <<screen, raced, calls, together>>

FreshOrder == CHOOSE o \in Orders : order[o].status = "none"
HasFresh == \E o \in Orders : order[o].status = "none"
FreeItems == {i \in Items : itemOf[i] = None /\ \A k \in tickets : i \notin k.items}
ItemsOf(o) == {i \in Items : itemOf[i] = o}

SetTable(t, status, o) == table' = [table EXCEPT ![t] = [status |-> status, order |-> o]]
Place(t) == IF table[t].order = None THEN {t} ELSE {t, table[t].order}

HasBooking(t, status) == \E b \in Bookings : BookingAt[b] = t /\ booking[b] = status

-----------------------------------------------------------------------------
(* Opening an order: openTable, openDiningOrder, splitItems.                 *)

(* canAssignTable *)
CanAssign(t) ==
  LET seating == HasBooking(t, "seated")
      status == table[t].status
  IN /\ status \notin {"blocked", "cleaning"}
     /\ (status = "occupied" \/ table[t].order # None) => seating
     /\ (status = "reserved" \/ HasBooking(t, "booked")) => seating
     /\ status = "available" \/ seating

BeginOpen(h, t) ==
  /\ CanAssign(t)
  /\ Start(h, [pc |-> "open", on |-> {t}, at |-> t, from |-> None, items |-> {}])

(* The items of a bill that go to a bill of their own, at a table or not. *)
BeginSplit(h, o, t) ==
  /\ order[o].ext
  /\ t # None => CanAssign(t)
  /\ \E moved \in SUBSET ItemsOf(o) \ {{}, ItemsOf(o)} :
       Start(h, [pc |-> "open", on |-> {o} \cup moved \cup ({t} \ {None}),
                 at |-> t, from |-> o, items |-> moved])

Open(h) ==
  LET t == handler[h].at
      o == FreshOrder
  IN
  /\ At(h, "open") /\ HasFresh
  /\ order' = [order EXCEPT ![o] = NewOrder(t)]
  /\ IF t = None THEN UNCHANGED table ELSE SetTable(t, "occupied", o)
  /\ IF handler[h].from = None
       THEN Done(h)
       ELSE Become(h, [handler[h] EXCEPT !.pc = "split", !.on = @ \cup {o}, !.at = o])
  /\ UNCHANGED <<itemOf, tickets, booking>> /\ Rest

(* The second transaction of splitItems. *)
SplitItems(h) ==
  LET moved == handler[h].items \cap ItemsOf(handler[h].from) IN
  /\ At(h, "split")
  /\ itemOf' = [i \in Items |-> IF i \in moved THEN handler[h].at ELSE itemOf[i]]
  /\ Done(h)
  /\ UNCHANGED <<table, order, tickets, booking>> /\ Rest

(* addItem, for the statuses of MUTABLE. *)
BeginAdd(h, o) ==
  /\ order[o].status \in {"draft", "confirmed"}
  /\ Start(h, [pc |-> "add", on |-> {o}, from |-> o])

AddItem(h) ==
  /\ At(h, "add") /\ FreeItems # {}
  /\ itemOf' = [itemOf EXCEPT ![CHOOSE i \in FreeItems : TRUE] = handler[h].from]
  /\ Done(h)
  /\ UNCHANGED <<table, order, tickets, booking>> /\ Rest

-----------------------------------------------------------------------------
(* Kitchen tickets.  A ticket has a unique key and a unique number, the      *)
(* number of tickets counted before plus one.                                *)

Ticketed(i) == \E k \in tickets : k.status # "cancelled" /\ i \in k.items
PendingAll(o) == ItemsOf(o)   \* fault: items in the kitchen are sent again
Pending(o) == {i \in ItemsOf(o) : ~Ticketed(i)}

Counted == Cardinality(tickets)

(* sendKot: the items without an active ticket, all to one station or each   *)
(* to its own.                                                               *)
Sending(o, station) ==
  [pc |-> "count", on |-> {o} \cup Pending(o), from |-> o, items |-> Pending(o),
   draft |-> order[o].status = "draft", station |-> station, counted |-> 0]
BeginSend(h, o) ==
  /\ order[o].ext /\ Pending(o) # {}
  /\ \E station \in Stations \cup {None} : Start(h, Sending(o, station))

CountTickets(h) ==
  /\ At(h, "count")
  /\ Become(h, [handler[h] EXCEPT !.pc = "send", !.counted = Counted])
  /\ UNCHANGED rowVars /\ Rest

StationFor(h, i) == IF handler[h].station = None THEN StationOf[i] ELSE handler[h].station

(* A station whose key is known is skipped, but has taken a number; the      *)
(* stations come in some order.                                              *)
NewTickets(h) ==
  LET items == handler[h].items
      used == {StationFor(h, i) : i \in items}
      KeyAt(s) == <<handler[h].from, items, s>>
  IN {{[key |-> KeyAt(s), number |-> handler[h].counted + n[s], order |-> handler[h].from,
        items |-> {i \in items : StationFor(h, i) = s}, status |-> "open"] :
          s \in {s \in used : \A k \in tickets : k.key # KeyAt(s)}} :
      n \in {n \in [used -> 1..Cardinality(used)] : \A s, r \in used : n[s] = n[r] => s = r}}

Send(h) ==
  LET o == handler[h].from IN
  /\ At(h, "send")
  /\ \E new \in NewTickets(h) :
       IF ~order[o].ext \/ \E k \in new, l \in tickets : k.number = l.number
         THEN UNCHANGED rowVars
         ELSE /\ tickets' = tickets \cup new
              /\ order' = IF handler[h].draft THEN [order EXCEPT ![o].status = "confirmed"] ELSE order
              /\ UNCHANGED <<table, itemOf, booking>>
  /\ Done(h)
  /\ Rest

(* KOT_TRANSITIONS; "open" stands for new, accepted, preparing and ready. *)
KotTransitions(status) ==
  CASE status = "open" -> {"served", "cancelled"}
    [] status = "served" -> {"open"}
    [] status = "cancelled" -> {}

BeginKot(h) ==
  \E k \in tickets : \E s \in KotTransitions(k.status) :
    Start(h, [pc |-> "kot", on |-> {k.order} \cup k.items, key |-> k.key, status |-> s])

(* updateKotStatus: writes the status without looking again. *)
UpdateKot(h) ==
  /\ At(h, "kot")
  /\ tickets' = {IF k.key = handler[h].key THEN [k EXCEPT !.status = handler[h].status] ELSE k :
                   k \in tickets}
  /\ Done(h)
  /\ UNCHANGED <<table, order, itemOf, booking>> /\ Rest

(* placeOrder of a guest: an order of the table or a new one, an item and    *)
(* its ticket.                                                               *)
BeginGuest(h, t) ==
  /\ table[t].status # "blocked"
  /\ Start(h, [pc |-> "guest", on |-> Place(t), at |-> t, from |-> table[t].order])

GuestOrder(h) ==
  LET t == handler[h].at
      o == IF handler[h].from = None THEN FreshOrder ELSE handler[h].from
      i == CHOOSE i \in FreeItems : TRUE
      row == IF handler[h].from = None THEN NewOrder(t) ELSE order[o]
  IN
  /\ At(h, "guest") /\ HasFresh /\ FreeItems # {}
  /\ IF \E k \in tickets : k.number = Counted + 1
       THEN UNCHANGED rowVars
       ELSE /\ itemOf' = [itemOf EXCEPT ![i] = o]
            /\ order' = [order EXCEPT ![o] = [row EXCEPT !.status = "confirmed"]]
            /\ SetTable(t, "occupied", o)
            /\ tickets' = tickets \cup
                 {[key |-> <<o, {i}, None>>, number |-> Counted + 1, order |-> o,
                   items |-> {i}, status |-> "open"]}
            /\ UNCHANGED booking
  /\ Done(h)
  /\ Rest

-----------------------------------------------------------------------------
(* Moving and merging tables.                                                *)

BeginMove(h, t, u) ==
  /\ table[t].order # None
  /\ table[u].order \in {None, table[t].order}
  /\ table[u].status \notin {"blocked", "cleaning", "reserved"}
  /\ Start(h, [pc |-> "move", on |-> Place(t) \cup Place(u), at |-> t, to |-> u, from |-> table[t].order])

(* Fault: the table keeps the order that left. *)
MoveKeepingTable(h) ==
  LET H == handler[h] IN
  /\ At(h, "move")
  /\ SetTable(H.to, "occupied", H.from)
  /\ order' = [order EXCEPT ![H.from].at = IF @ = None /\ ~order[H.from].ext THEN None ELSE H.to]
  /\ Done(h)
  /\ UNCHANGED <<itemOf, tickets, booking>> /\ Rest

MoveTable(h) ==
  LET H == handler[h] IN
  /\ At(h, "move")
  /\ table' = [table EXCEPT ![H.at] = [status |-> "cleaning", order |-> None],
                            ![H.to] = [status |-> "occupied", order |-> H.from]]
  /\ order' = [order EXCEPT ![H.from].at = IF order[H.from].ext THEN H.to ELSE None]
  /\ Done(h)
  /\ UNCHANGED <<itemOf, tickets, booking>> /\ Rest

(* canMergeTables *)
BeginMerge(h, t, u) ==
  /\ "blocked" \notin {table[t].status, table[u].status}
  /\ table[t].order # None /\ table[t].order # table[u].order
  /\ Start(h, [pc |-> "merge", on |-> Place(t) \cup Place(u), at |-> t, to |-> u,
               from |-> table[t].order, into |-> table[u].order])

(* The bill at the target takes over the items and tickets of the source. *)
MovedItems(from, into) == itemOf' = [i \in Items |-> IF itemOf[i] = from THEN into ELSE itemOf[i]]
MovedTickets(from, into) ==
  tickets' = {IF k.order = from THEN [k EXCEPT !.order = into] ELSE k : k \in tickets}

MergeTables(h) ==
  LET H == handler[h]
      kept == IF H.into = None THEN H.from ELSE H.into
  IN
  /\ At(h, "merge")
  /\ table' = [table EXCEPT ![H.at] = [status |-> "cleaning", order |-> None],
                            ![H.to] = [status |-> "occupied", order |-> kept]]
  /\ IF H.into = None
       THEN /\ order' = [order EXCEPT ![H.from].at = IF order[H.from].ext THEN H.to ELSE None]
            /\ UNCHANGED <<itemOf, tickets>>
       ELSE /\ MovedItems(H.from, H.into)
            /\ MovedTickets(H.from, H.into)
            /\ order' = [order EXCEPT ![H.from] =
                 [@ EXCEPT !.status = "cancelled", !.ext = FALSE, !.at = None, !.parked = FALSE]]
  /\ Done(h)
  /\ UNCHANGED booking /\ Rest

-----------------------------------------------------------------------------
(* The end of an order.                                                      *)

(* syncTableHold: an empty table is available, or reserved when a booking    *)
(* is near; and the same for all empty tables in syncEmptyTables.            *)
Holdable(t) == table[t].order = None /\ table[t].status # "blocked" /\ ~HasBooking(t, "seated")
Holds(t) == {"available"} \cup (IF HasBooking(t, "booked") THEN {"reserved"} ELSE {})

(* releaseTablesAfterService: seated guests have left, then each table in turn. *)
Release(h) ==
  LET freed == handler[h].freed IN
  /\ At(h, "release")
  /\ booking' = [b \in Bookings |->
       IF BookingAt[b] \in freed /\ booking[b] = "seated" THEN "over" ELSE booking[b]]
  /\ Become(h, [handler[h] EXCEPT !.pc = "hold"])
  /\ UNCHANGED <<table, order, itemOf, tickets>> /\ Rest

ReadHold(h) ==
  /\ At(h, "hold")
  /\ \E t \in handler[h].freed :
       LET rest == [handler[h] EXCEPT !.freed = @ \ {t}] IN
       \E s \in Holds(t) :
         IF Holdable(t) /\ table[t].status # s
           THEN Become(h, [rest EXCEPT !.pc = "holdWrite", !.at = t, !.status = s])
           ELSE Become(h, rest)
  /\ UNCHANGED rowVars /\ Rest

(* When all tables are released, the items of a sale go to the kitchen       *)
(* (ensureKotAfterSale).                                                     *)
Released(h) ==
  LET o == handler[h].from
      unsent == o # None /\ order[o].ext /\ Pending(o) # {}
      next == IF unsent THEN Sending(o, None) ELSE Resting
  IN
  /\ At(h, "hold") /\ handler[h].freed = {}
  /\ Become(h, next)
  /\ raced' = raced \cup Met(h, next.on)
  /\ UNCHANGED <<rowVars, screen, calls, together>>

WriteHold(h) ==
  /\ At(h, "holdWrite")
  /\ table' = [table EXCEPT ![handler[h].at].status = handler[h].status]
  /\ Become(h, [handler[h] EXCEPT !.pc = "hold"])
  /\ UNCHANGED <<order, itemOf, tickets, booking>> /\ Rest

(* The last part of a handler: the tables to release, and the order whose    *)
(* items then go to the kitchen, if any.                                     *)
After(h, pc, freed, o) ==
  [pc |-> pc, on |-> handler[h].on, freed |-> freed, from |-> o, at |-> None, status |-> "available"]

TablesWith(o) == {t \in Tables : table[t].order = o}

(* voidDiningOrder: cancels the tickets it saw, frees the tables. *)
BeginVoid(h, o) ==
  /\ order[o].status \notin {"none", "closed"} /\ ~order[o].paid
  /\ Start(h, [pc |-> "void", on |-> {o} \cup TablesWith(o) \cup ItemsOf(o), from |-> o,
               keys |-> {k.key : k \in {k \in tickets : k.order = o /\ k.status # "cancelled"}}])

Void(h) ==
  LET o == handler[h].from IN
  /\ At(h, "void")
  /\ tickets' = {IF k.key \in handler[h].keys THEN [k EXCEPT !.status = "cancelled"] ELSE k : k \in tickets}
  /\ table' = [t \in Tables |->
       IF table[t].order = o THEN [status |-> "available", order |-> None] ELSE table[t]]
  /\ order' = [order EXCEPT ![o].status = "cancelled"]
  /\ Become(h, After(h, "release", TablesWith(o), None))
  /\ UNCHANGED <<itemOf, booking>> /\ Rest

(* discardParkedSale, which does not know of tables. *)
BeginDiscard(h, o) ==
  /\ order[o].status = "draft" /\ order[o].parked
  /\ Start(h, [pc |-> "discard", on |-> {o}, from |-> o])

Discard(h) ==
  /\ At(h, "discard")
  /\ order' = [order EXCEPT ![handler[h].from].status = "cancelled", ![handler[h].from].parked = FALSE]
  /\ Done(h)
  /\ UNCHANGED <<table, itemOf, tickets, booking>> /\ Rest

(* checkout of an order at the counter: the payment, then the status. *)
BeginCheckout(h, o) ==
  /\ order[o].status \in {"draft", "confirmed"} /\ ItemsOf(o) # {}
  /\ Start(h, [pc |-> "pay", on |-> {o}, from |-> o, open |-> FALSE])

Pay(h) ==
  LET o == handler[h].from IN
  /\ At(h, "pay")
  /\ order' = [order EXCEPT ![o].paid = TRUE]
  /\ Become(h, [handler[h] EXCEPT !.pc = "close", !.open = order[o].status \notin {"closed", "cancelled"}])
  /\ UNCHANGED <<table, itemOf, tickets, booking>> /\ Rest

Close(h) ==
  LET o == handler[h].from IN
  /\ At(h, "close")
  /\ order' = IF handler[h].open THEN [order EXCEPT ![o].status = "closed"] ELSE order
  /\ Done(h)
  /\ UNCHANGED <<table, itemOf, tickets, booking>> /\ Rest

(* saleCheckout at a table: a new order, paid and closed at once, takes the  *)
(* table only when it is free (attachCounterDining).                         *)
BeginSale(h, t) == Start(h, [pc |-> "sale", on |-> {t}, at |-> t])

Sale(h) ==
  LET t == handler[h].at
      o == FreshOrder
  IN
  /\ At(h, "sale") /\ HasFresh /\ FreeItems # {}
  /\ order' = [order EXCEPT ![o] = [NewOrder(t) EXCEPT !.status = "closed", !.parked = FALSE, !.paid = TRUE]]
  /\ itemOf' = [itemOf EXCEPT ![CHOOSE i \in FreeItems : TRUE] = o]
  /\ IF table[t].order = None THEN SetTable(t, "occupied", o) ELSE UNCHANGED table
  /\ Become(h, [pc |-> "bill", on |-> {t, o}, from |-> o])
  /\ UNCHANGED <<tickets, booking>> /\ Rest

(* onOrderFinalized: the tables let the order go; their status follows when  *)
(* they are released.                                                        *)
Bill(h) ==
  LET o == handler[h].from IN
  /\ At(h, "bill")
  /\ table' = [t \in Tables |-> IF table[t].order = o THEN [table[t] EXCEPT !.order = None] ELSE table[t]]
  /\ Become(h, After(h, "release", TablesWith(o), o))
  /\ UNCHANGED <<order, itemOf, tickets, booking>> /\ Rest

-----------------------------------------------------------------------------
(* Reservations and the status staff give a table.                           *)

(* createReservation, when no other one overlaps. *)
BeginBook(h, b) ==
  /\ booking[b] = "none"
  /\ \A c \in Bookings : BookingAt[c] = BookingAt[b] => booking[c] \notin {"booked", "seated"}
  /\ Start(h, [pc |-> "booking", on |-> {BookingAt[b]}, booking |-> b, status |-> "booked"])

(* updateReservation; "over" stands for cancelled, no_show and completed. *)
BeginBooking(h, b) ==
  \E s \in {"booked", "seated", "over"} :
    /\ booking[b] \notin {"none", s}
    /\ s = "seated" => booking[b] = "booked"
    /\ Start(h, [pc |-> "booking", on |-> {BookingAt[b]}, booking |-> b, status |-> s])

SetBooking(h) ==
  LET b == handler[h].booking
      back == handler[h].status = "booked" /\ booking[b] # "none"
  IN
  /\ At(h, "booking")
  /\ booking' = [booking EXCEPT ![b] = handler[h].status]
  /\ Become(h, IF handler[h].status = "seated"
                 THEN [After(h, "holdWrite", {}, None) EXCEPT !.at = BookingAt[b], !.status = "occupied"]
                 ELSE After(h, "hold", IF back THEN {} ELSE {BookingAt[b]}, None))
  /\ UNCHANGED <<table, order, itemOf, tickets>> /\ Rest

(* updateTable: a table with an order is not made available. *)
BeginStatus(h, t) ==
  \E s \in {"available", "cleaning", "blocked"} :
    /\ s = "available" => table[t].order = None
    /\ table[t].status # s
    /\ Start(h, [pc |-> "holdWrite", on |-> {t}, freed |-> {}, from |-> None, at |-> t, status |-> s])

(* Fault: only tables that are free or reserved. *)
UntidyFree(t) ==
  Holdable(t) /\ table[t].status # "occupied" /\ \E s \in Holds(t) : table[t].status # s

(* syncEmptyTables, each time the floor is shown: reads, then writes one     *)
(* table after the other.                                                    *)
Untidy(t) == Holdable(t) /\ \E s \in Holds(t) : table[t].status # s
ShowFloor ==
  LET seen == {t \in Tables : Untidy(t)} IN
  /\ screen = <<>> /\ seen # {}
  /\ \E plan \in [seen -> {"available", "reserved"}] :
       /\ \A t \in seen : plan[t] \in Holds(t) /\ plan[t] # table[t].status
       /\ screen' = plan
  /\ raced' = raced \cup (seen \cap UNION {handler[h].on : h \in Handlers})
  /\ Begins(\A h \in Handlers : At(h, "idle"))
  /\ UNCHANGED <<rowVars, handler, calls>>

TidyTable ==
  \E t \in DOMAIN screen :
    /\ table' = [table EXCEPT ![t].status = screen[t]]
    /\ screen' = [u \in DOMAIN screen \ {t} |-> screen[u]]
    /\ UNCHANGED <<order, itemOf, tickets, booking, handler, raced, calls, together>>

(* A request fails, or the server loses the rest of it. *)
Crash(h) ==
  /\ ~At(h, "idle")
  /\ Done(h)
  /\ UNCHANGED rowVars /\ Rest

-----------------------------------------------------------------------------
Request(h) ==
  \/ \E t \in Tables : BeginOpen(h, t) \/ BeginGuest(h, t) \/ BeginSale(h, t) \/ BeginStatus(h, t)
  \/ \E t, u \in Tables : BeginMove(h, t, u) \/ BeginMerge(h, t, u)
  \/ \E o \in Orders :
       \/ BeginAdd(h, o) \/ BeginSend(h, o) \/ BeginVoid(h, o)
       \/ BeginDiscard(h, o) \/ BeginCheckout(h, o)
       \/ \E t \in Tables \cup {None} : BeginSplit(h, o, t)
  \/ BeginKot(h)
  \/ \E b \in Bookings : BeginBook(h, b) \/ BeginBooking(h, b)

Work(h) ==
  \/ Open(h) \/ SplitItems(h) \/ AddItem(h)
  \/ CountTickets(h) \/ Send(h) \/ UpdateKot(h) \/ GuestOrder(h)
  \/ MoveTable(h) \/ MergeTables(h)
  \/ Void(h) \/ Discard(h) \/ Pay(h) \/ Close(h) \/ Sale(h) \/ Bill(h)
  \/ Release(h) \/ ReadHold(h) \/ Released(h) \/ WriteHold(h) \/ SetBooking(h)

DiningNext ==
  \/ \E h \in Handlers : Request(h) \/ Work(h) \/ Crash(h)
  \/ ShowFloor \/ TidyTable

(* Requests run on or fail; the floor is shown again and again. *)
Fairness ==
  /\ WF_diningVars(ShowFloor) /\ WF_diningVars(TidyTable)
  /\ \A h \in Handlers : WF_diningVars(Work(h) \/ Crash(h))

DiningSpec == DiningInit /\ [][DiningNext]_diningVars /\ Fairness

-----------------------------------------------------------------------------
TableStatuses == {"available", "occupied", "reserved", "cleaning", "blocked"}

(* Type correctness. *)
DiningTypes ==
  /\ table \in [Tables -> [status: TableStatuses, order: Orders \cup {None}]]
  /\ order \in [Orders -> [status: {"none", "draft", "confirmed", "closed", "cancelled"},
                           ext: BOOLEAN, at: Tables \cup {None}, parked: BOOLEAN, paid: BOOLEAN]]
  /\ itemOf \in [Items -> Orders \cup {None}]
  /\ booking \in [Bookings -> {"none", "booked", "seated", "over"}]
  /\ raced \subseteq Tables \cup Orders \cup Items

Clean(S) == S \cap raced = {}

(* A table and its order point at each other: the current order of a table   *)
(* is at that table, no table with an order is offered as available, and an  *)
(* open order at a table is its current order unless the table has           *)
(* reservations: guests seated with one may be given the table of another    *)
(* order (canAssignTable).  Unless two requests raced on the table or the    *)
(* order (openDiningOrder, moveTable, mergeTables, voidDiningOrder,          *)
(* syncTableHold).                                                           *)
TablesAgree ==
  /\ \A t \in Tables :
       LET o == table[t].order IN
       o # None /\ Clean({t, o}) =>
         /\ order[o].ext /\ order[o].at = t
         /\ table[t].status # "available"
  /\ \A o \in Orders :
       LET t == order[o].at IN
       order[o].status \in {"draft", "confirmed"} /\ t # None /\ Clean({t, o}) =>
         \/ table[t].order = o
         \/ \E b \in Bookings : BookingAt[b] = t /\ booking[b] # "none"

(* An item is cooked once: it is on one ticket that was not cancelled, at    *)
(* most, whatever items are added, sent, cancelled, sent again, split and    *)
(* merged; and a bill merged into another leaves nothing behind, neither     *)
(* items nor tickets.  Unless two requests raced on the item or the bill     *)
(* (sendKot, createGuestKots, updateKotStatus, splitItems, mergeTables).     *)
KitchenAgrees ==
  /\ \A i \in Items \ raced :
       Cardinality({k \in tickets : k.status # "cancelled" /\ i \in k.items}) <= 1
  /\ \A o \in Orders \ raced :
       order[o].status = "cancelled" /\ ~order[o].ext =>
         ItemsOf(o) = {} /\ \A k \in tickets : k.order # o

(* A table left without an order and without seated guests, for instance by  *)
(* a request that died after it was billed, is not occupied for good         *)
(* (onOrderFinalized, syncEmptyTables).                                      *)
TableReopens ==
  \A t \in Tables :
    (table[t].status = "occupied" /\ Holdable(t)) ~> (table[t].status # "occupied" \/ ~Holdable(t))
=============================================================================
