---------------------------- MODULE StockDocuments ----------------------------
(***************************************************************************)
(* The documents that move stock, and the levels they move:                *)
(*   transfers between locations, quantity reservations and production     *)
(*     (inventory/inventory-lifecycle.service.ts),                         *)
(*   transfers without a document (inventory/inventory.service.ts),        *)
(*   physical counts and damage (inventory/inventory-ops.service.ts),      *)
(*   adjustments (inventory/stock-adjustment.service.ts),                  *)
(*   intercompany transfers (enterprise/enterprise-inventory.service.ts).  *)
(*                                                                         *)
(* A handler reads its document without a lock and tests the status it     *)
(* read; its transaction then changes the levels, mostly by relative       *)
(* updates under their row locks, and writes the new status.  The          *)
(* transaction is one step, what the handler read before it is kept in     *)
(* handler.  A document has one line.  Batches, serial numbers and bundles *)
(* are left out (StockEngine has the components of a bundle).              *)
(***************************************************************************)
EXTENDS Integers, FiniteSets, Functions

CONSTANTS
  Levels,       \* a product at a location
  Transfers, TransferOf,    \* TransferOf[t]: from, to, qty, group (intercompany)
  Bookings, BookingOf,      \* BookingOf[b]: lv, qty
  Adjusts, AdjustAt, Deltas,   \* the level and the possible quantities of an adjustment
  Counts, CountAt, Counted, \* the level of a count and the quantities people count
  Parts,        \* Parts[l][p]: pieces of p that one piece of l is made of
  Opening,      \* pieces on hand at the start
  Handlers,     \* concurrent requests
  MaxCalls      \* bound: requests

ASSUME DocumentsAssumption ==
  /\ \A S \in {Levels, Transfers, Bookings, Adjusts, Counts} : IsFiniteSet(S)
  /\ TransferOf \in [Transfers -> [from: Levels, to: Levels, qty: Nat \ {0}, group: BOOLEAN]]
  /\ \A t \in Transfers : TransferOf[t].from # TransferOf[t].to
  /\ BookingOf \in [Bookings -> [lv: Levels, qty: Nat \ {0}]]
  /\ AdjustAt \in [Adjusts -> Levels] /\ Deltas \subseteq Int
  /\ CountAt \in [Counts -> Levels] /\ Counted \subseteq Nat
  /\ Parts \in [Levels -> [Levels -> Nat]]
  /\ \A l \in Levels : Parts[l][l] = 0
  /\ Opening \in [Levels -> Nat]
  /\ MaxCalls \in Nat

VARIABLES
  level,     \* stock_levels: on hand, reserved, in transit, damaged
  transfer,  \* stock_transfers and intercompany_transfers with their line
  booking,   \* qty_reservations: status
  adjust,    \* stock_adjustments; gen numbers the ids their line has had
  count,     \* stock_count_sessions with their line
  made,      \* production_orders completed, pieces by level
  loose,     \* ledger rows of transfers without a document, by level
  keys,      \* idempotency keys of committed ledger rows
  handler,   \* what each handler is doing
  raced,     \* history: documents two handlers worked on at once
  lost,      \* history: levels where an intercompany transfer overwrote a change
  calls

docVars == <<transfer, booking, adjust, count, made, loose, keys>>
vars == <<level, docVars, handler, raced, lost, calls>>

Idle == [op |-> "idle"]
NoTransfer == [status |-> "none", issued |-> FALSE, received |-> 0, damaged |-> 0]
NoAdjust == [status |-> "none", qty |-> 0, gen |-> 0]
NoCount == [status |-> "none", system |-> 0, variance |-> 0, applied |-> FALSE]

Init ==
  /\ level = [l \in Levels |-> [hand |-> Opening[l], reserved |-> 0, transit |-> 0, damaged |-> 0]]
  /\ transfer = [t \in Transfers |-> NoTransfer]
  /\ booking = [b \in Bookings |-> "none"]
  /\ adjust = [a \in Adjusts |-> NoAdjust]
  /\ count = [c \in Counts |-> NoCount]
  /\ made = [l \in Levels |-> 0]
  /\ loose = [l \in Levels |-> 0]
  /\ keys = {}
  /\ handler = [h \in Handlers |-> Idle]
  /\ raced = {} /\ lost = {}
  /\ calls = 0

-----------------------------------------------------------------------------
(* The guards of mutateInTx and adjustReserved.                              *)

CanMoveAll(row, q) == row.hand + q >= 0   \* fault: reserved pieces are sold
CanMove(row, q) == row.hand + q >= 0 /\ (q < 0 => row.hand - row.reserved + q >= 0)
CanReserve(row, q) == row.reserved + q >= 0 /\ row.hand - (row.reserved + q) >= 0

Hand(l, q) == level' = [level EXCEPT ![l].hand = @ + q]

(* A handler begins: it reads its document and keeps what it read. *)
Begin(h, op, id, seen, arg) ==
  /\ handler[h] = Idle
  /\ calls < MaxCalls
  /\ calls' = calls + 1
  /\ handler' = [handler EXCEPT ![h] = [op |-> op, id |-> id, seen |-> seen, arg |-> arg]]
  /\ raced' = IF \E o \in Handlers : /\ handler[o] # Idle
                                     /\ handler[o].id = id
                                     /\ {op, handler[o].op} # {"finalize"}
                THEN raced \cup {id}
                ELSE raced
  /\ UNCHANGED <<level, docVars, lost>>

(* The transaction of handler h on document id. *)
Commits(h, op, id) ==
  /\ handler[h] # Idle
  /\ handler[h].op = op /\ handler[h].id = id
  /\ handler' = [handler EXCEPT ![h] = Idle]
  /\ UNCHANGED <<raced, calls>>

Refused == UNCHANGED <<level, docVars, lost>>

(* A request of one transaction that reads no document. *)
Once ==
  /\ calls < MaxCalls
  /\ calls' = calls + 1
  /\ UNCHANGED <<handler, raced, lost>>

-----------------------------------------------------------------------------
(* Transfers between locations.                                              *)

OnlyTransfers == UNCHANGED <<booking, adjust, count, made, loose, keys>>
Local(t) == ~TransferOf[t].group
SetTransfer(t, row) == transfer' = [transfer EXCEPT ![t] = row]

(* createTransfer; the group's create asks no stock but may need an approval. *)
CreateTransfer(t) ==
  /\ Once
  /\ transfer[t].status = "none"
  /\ Local(t) => level[TransferOf[t].from].hand >= TransferOf[t].qty
  /\ \E s \in IF Local(t) THEN {"draft"} ELSE {"draft", "pending_approval"} :
       SetTransfer(t, [NoTransfer EXCEPT !.status = s])
  /\ OnlyTransfers /\ UNCHANGED level

BeginIssue(h, t) ==
  /\ transfer[t].status = "draft"
  /\ Begin(h, "issue", t, transfer[t], 0)

(* issueTransfer: out of the source, in transit at the destination. *)
Issue(h, t) ==
  LET T == TransferOf[t] IN
  /\ Local(t)
  /\ Commits(h, "issue", t)
  /\ IF CanMove(level[T.from], -T.qty)
       THEN /\ level' = [level EXCEPT ![T.from].hand = @ - T.qty,
                                      ![T.to].transit = @ + T.qty]
            /\ SetTransfer(t, [transfer[t] EXCEPT !.status = "in_transit", !.issued = TRUE])
            /\ OnlyTransfers /\ UNCHANGED lost
       ELSE Refused

(* Receipts: good and damaged pieces.  Damage is reported with the receipt   *)
(* that completes the transfer: the test below forgets earlier damage.       *)
Receipts(t) ==
  LET left == TransferOf[t].qty - transfer[t].received - transfer[t].damaged
  IN {r \in [take: 0..TransferOf[t].qty, damaged: 0..TransferOf[t].qty] :
        /\ r.take + r.damaged > 0
        /\ r.damaged > 0 => r.take + r.damaged = left}

BeginReceive(h, t) ==
  /\ transfer[t].status \in {"in_transit", "partially_received"}
  /\ IF Local(t)
       THEN \E r \in Receipts(t) :
              /\ r.take + r.damaged <= TransferOf[t].qty - transfer[t].received
              /\ Begin(h, "receive", t, transfer[t], r)
       ELSE Begin(h, "receive", t, transfer[t], 0)

Receive(h, t) ==
  LET T == TransferOf[t]
      r == handler[h].arg
      received == transfer[t].received + r.take
      damaged == transfer[t].damaged + r.damaged
      status == IF received + damaged >= T.qty THEN "received"
                ELSE IF received > 0 THEN "partially_received" ELSE "in_transit"
  IN
  /\ Local(t)
  /\ Commits(h, "receive", t)
  /\ level' = [level EXCEPT ![T.to].hand = @ + r.take,
                            ![T.to].transit = @ - (r.take + r.damaged),
                            ![T.to].damaged = @ + r.damaged]
  /\ SetTransfer(t, [transfer[t] EXCEPT !.status = status, !.received = received, !.damaged = damaged])
  /\ OnlyTransfers /\ UNCHANGED lost

BeginCancel(h, t) ==
  /\ Local(t)
  /\ transfer[t].status \notin {"none", "received"}
  /\ Begin(h, "cancel", t, transfer[t], 0)

(* What a cancelled transfer gives back: what was in transit when it was read. *)
InTransit(t, row) ==
  LET left == TransferOf[t].qty - row.received - row.damaged
  IN IF row.status \in {"in_transit", "partially_received"} /\ left > 0 THEN left ELSE 0

(* Fault: the pieces stay in transit. *)
CancelKeepsTransit(h, t) ==
  /\ Local(t)
  /\ Commits(h, "cancel", t)
  /\ Hand(TransferOf[t].from, InTransit(t, handler[h].seen))
  /\ SetTransfer(t, [transfer[t] EXCEPT !.status = "cancelled"])
  /\ OnlyTransfers /\ UNCHANGED lost

Cancel(h, t) ==
  LET T == TransferOf[t]
      left == InTransit(t, handler[h].seen)
  IN
  /\ Local(t)
  /\ Commits(h, "cancel", t)
  /\ level' = [level EXCEPT ![T.from].hand = @ + left, ![T.to].transit = @ - left]
  /\ SetTransfer(t, [transfer[t] EXCEPT !.status = "cancelled"])
  /\ OnlyTransfers /\ UNCHANGED lost

-----------------------------------------------------------------------------
(* Intercompany transfers: on hand is read in the transaction, without a     *)
(* lock, and the result written back as it was computed.                     *)

GroupLevel(h, t) ==
  IF handler[h].op = "issue" THEN TransferOf[t].from ELSE TransferOf[t].to

ReadLevel(h, t) ==
  /\ ~Local(t)
  /\ handler[h] # Idle
  /\ handler[h].id = t /\ handler[h].op \in {"issue", "receive"}
  /\ handler' = [handler EXCEPT ![h].op = IF @ = "issue" THEN "writeIssue" ELSE "writeReceive",
                                    ![h].arg = level[GroupLevel(h, t)].hand]
  /\ UNCHANGED <<level, docVars, raced, lost, calls>>

WriteLevel(l, old, q) ==
  /\ level' = [level EXCEPT ![l].hand = old + q]
  /\ lost' = IF level[l].hand = old THEN lost ELSE lost \cup {l}

GroupIssue(h, t) ==
  LET T == TransferOf[t] IN
  /\ Commits(h, "writeIssue", t)
  /\ IF handler[h].arg >= T.qty
       THEN /\ WriteLevel(T.from, handler[h].arg, -T.qty)
            /\ SetTransfer(t, [transfer[t] EXCEPT !.status = "in_transit", !.issued = TRUE])
            /\ OnlyTransfers
       ELSE Refused

GroupReceive(h, t) ==
  LET T == TransferOf[t] IN
  /\ Commits(h, "writeReceive", t)
  /\ WriteLevel(T.to, handler[h].arg, T.qty)
  /\ SetTransfer(t, [transfer[t] EXCEPT !.status = "received", !.received = T.qty])
  /\ OnlyTransfers

-----------------------------------------------------------------------------
(* Quantity reservations.                                                    *)

OnlyBookings == UNCHANGED <<transfer, adjust, count, made, loose, keys>>

ReserveQty(b) ==
  LET B == BookingOf[b] IN
  /\ Once
  /\ booking[b] = "none"
  /\ CanReserve(level[B.lv], B.qty)
  /\ level' = [level EXCEPT ![B.lv].reserved = @ + B.qty]
  /\ booking' = [booking EXCEPT ![b] = "active"]
  /\ OnlyBookings

BeginRelease(h, b) ==
  \E action \in {"released", "consumed", "cancelled"} :
    /\ booking[b] = "active"
    /\ Begin(h, "release", b, booking[b], action)

(* releaseOrConsumeReservation: unreserve, then sell when it is consumed. *)
Freed(row, b, action) ==
  LET open == [row EXCEPT !.reserved = @ - BookingOf[b].qty]
  IN IF action = "consumed" THEN [open EXCEPT !.hand = @ - BookingOf[b].qty] ELSE open

Release(h, b) ==
  LET B == BookingOf[b]
      row == level[B.lv]
      action == handler[h].arg
  IN
  /\ Commits(h, "release", b)
  /\ IF /\ CanReserve(row, -B.qty)
        /\ action = "consumed" => CanMove([row EXCEPT !.reserved = @ - B.qty], -B.qty)
       THEN /\ level' = [level EXCEPT ![B.lv] = Freed(row, b, action)]
            /\ booking' = [booking EXCEPT ![b] = action]
            /\ OnlyBookings /\ UNCHANGED lost
       ELSE Refused

-----------------------------------------------------------------------------
(* Adjustments.  Every movement has the key of its line, so it is applied    *)
(* once and taken back once.                                                 *)

OnlyAdjusts == UNCHANGED <<transfer, booking, count, made, loose>>
SetAdjust(a, row) == adjust' = [adjust EXCEPT ![a] = row]

KeyOf(a, row, dir) == <<a, row.gen, dir>>

(* applyAdjustmentStockMutations and the reversal; a known key is answered   *)
(* without a movement.                                                       *)
Moves(a, row, dir) ==
  LET k == KeyOf(a, row, dir)
      q == IF dir = "apply" THEN row.qty ELSE -row.qty
  IN IF q = 0 \/ k \in keys
       THEN UNCHANGED <<level, keys>>
       ELSE Hand(AdjustAt[a], q) /\ keys' = keys \cup {k}
CanApply(a, row, dir) ==
  LET q == IF dir = "apply" THEN row.qty ELSE -row.qty
  IN KeyOf(a, row, dir) \in keys \/ CanMove(level[AdjustAt[a]], q)

CreateAdjust(a, status, q) ==
  LET row == [status |-> status, qty |-> q, gen |-> 1] IN
  /\ Once
  /\ adjust[a] = NoAdjust
  /\ SetAdjust(a, row)
  /\ IF status = "adjusted"
       THEN CanApply(a, row, "apply") /\ Moves(a, row, "apply")
       ELSE UNCHANGED <<level, keys>>
  /\ OnlyAdjusts

BeginAdjust(h, a) ==
  \/ /\ adjust[a].status \in {"draft", "pending"}
     /\ Begin(h, "finalize", a, adjust[a], 0)
  \/ /\ adjust[a].status \in {"draft", "pending", "adjusted"}
     /\ Begin(h, "annul", a, adjust[a], 0)
  \/ /\ adjust[a].status = "draft"
     /\ Begin(h, "delete", a, adjust[a], 0)
  \/ /\ adjust[a].status = "draft"
     /\ \E s \in {"draft", "pending", "adjusted"}, q \in Deltas :
          Begin(h, "update", a, adjust[a], [status |-> s, qty |-> q])

(* Fault: the line has a new key each time. *)
FinalizeUnkeyed(h, a) ==
  LET row == [adjust[a] EXCEPT !.status = "adjusted"] IN
  /\ Commits(h, "finalize", a)
  /\ IF adjust[a] # NoAdjust /\ CanMove(level[AdjustAt[a]], row.qty)
       THEN SetAdjust(a, row) /\ Hand(AdjustAt[a], row.qty) /\ OnlyAdjusts /\ UNCHANGED <<keys, lost>>
       ELSE Refused

(* finalize: the status it read is not tested again. *)
Finalize(h, a) ==
  LET row == [adjust[a] EXCEPT !.status = "adjusted"] IN
  /\ Commits(h, "finalize", a)
  /\ IF adjust[a] # NoAdjust /\ CanApply(a, row, "apply")
       THEN SetAdjust(a, row) /\ Moves(a, row, "apply") /\ OnlyAdjusts /\ UNCHANGED lost
       ELSE Refused

(* update: new lines, with new ids. *)
UpdateAdjust(h, a) ==
  LET new == handler[h].arg
      row == [status |-> new.status, qty |-> new.qty, gen |-> adjust[a].gen + 1]
  IN
  /\ Commits(h, "update", a)
  /\ IF adjust[a] # NoAdjust /\ (new.status = "adjusted" => CanApply(a, row, "apply"))
       THEN /\ SetAdjust(a, row)
            /\ IF new.status = "adjusted" THEN Moves(a, row, "apply") ELSE UNCHANGED <<level, keys>>
            /\ OnlyAdjusts /\ UNCHANGED lost
       ELSE Refused

(* cancel: reverses what was adjusted when it was read. *)
Annul(h, a) ==
  LET row == [adjust[a] EXCEPT !.status = "cancelled"]
      back == handler[h].seen.status = "adjusted"
  IN
  /\ Commits(h, "annul", a)
  /\ IF adjust[a] # NoAdjust /\ (back => CanApply(a, row, "reverse"))
       THEN /\ SetAdjust(a, row)
            /\ IF back THEN Moves(a, row, "reverse") ELSE UNCHANGED <<level, keys>>
            /\ OnlyAdjusts /\ UNCHANGED lost
       ELSE Refused

DeleteAdjust(h, a) ==
  /\ Commits(h, "delete", a)
  /\ SetAdjust(a, NoAdjust)
  /\ OnlyAdjusts /\ UNCHANGED <<level, keys, lost>>

-----------------------------------------------------------------------------
(* Physical counts: the system quantity is kept when the count begins, and   *)
(* the difference is applied when it is completed.                           *)

OnlyCounts == UNCHANGED <<transfer, booking, adjust, made, loose, keys>>
SetCount(c, row) == count' = [count EXCEPT ![c] = row]

CreateCount(c) ==
  /\ Once
  /\ count[c] = NoCount
  /\ SetCount(c, [NoCount EXCEPT !.status = "in_progress", !.system = level[CountAt[c]].hand])
  /\ OnlyCounts /\ UNCHANGED level

BeginCount(h, c) ==
  /\ count[c].status = "in_progress"
  /\ \/ \E n \in Counted : Begin(h, "upsert", c, count[c], n)
     \/ \E apply \in BOOLEAN : Begin(h, "complete", c, count[c], apply)

UpsertLine(h, c) ==
  /\ Commits(h, "upsert", c)
  /\ SetCount(c, [count[c] EXCEPT !.variance = handler[h].arg - count[c].system])
  /\ OnlyCounts /\ UNCHANGED <<level, lost>>

CompleteCount(h, c) ==
  LET apply == handler[h].arg
      v == IF apply THEN handler[h].seen.variance ELSE 0
  IN
  /\ Commits(h, "complete", c)
  /\ IF v = 0 \/ CanMove(level[CountAt[c]], v)
       THEN /\ Hand(CountAt[c], v)
            /\ SetCount(c, [count[c] EXCEPT !.status = "completed", !.applied = apply])
            /\ OnlyCounts /\ UNCHANGED lost
       ELSE Refused

-----------------------------------------------------------------------------
(* Requests without a document.                                              *)

(* markDamaged and restoreDamaged. *)
Damage(l, q) ==
  /\ Once
  /\ CanMove(level[l], -q) /\ level[l].damaged + q >= 0
  /\ level' = [level EXCEPT ![l].hand = @ - q, ![l].damaged = @ + q]
  /\ UNCHANGED docVars

(* completeProduction: the parts are used up and the product comes in. *)
CompleteProduction(l) ==
  /\ Once
  /\ \E p \in Levels : Parts[l][p] > 0
  /\ \A p \in Levels : Parts[l][p] > 0 => CanMove(level[p], -Parts[l][p])
  /\ level' = [p \in Levels |->
                 [level[p] EXCEPT !.hand = @ - Parts[l][p] + (IF p = l THEN 1 ELSE 0)]]
  /\ made' = [made EXCEPT ![l] = @ + 1]
  /\ UNCHANGED <<transfer, booking, adjust, count, loose, keys>>

(* transferStock: both sides in one transaction. *)
TransferStock(l, m) ==
  /\ Once
  /\ l # m /\ CanMove(level[l], -1)
  /\ level' = [level EXCEPT ![l].hand = @ - 1, ![m].hand = @ + 1]
  /\ loose' = [loose EXCEPT ![l] = @ - 1, ![m] = @ + 1]
  /\ UNCHANGED <<transfer, booking, adjust, count, made, keys>>

-----------------------------------------------------------------------------
Step(h) ==
  \/ \E t \in Transfers :
       \/ BeginIssue(h, t) \/ BeginReceive(h, t) \/ BeginCancel(h, t)
       \/ Issue(h, t) \/ Receive(h, t) \/ Cancel(h, t)
       \/ ReadLevel(h, t) \/ GroupIssue(h, t) \/ GroupReceive(h, t)
  \/ \E b \in Bookings : BeginRelease(h, b) \/ Release(h, b)
  \/ \E a \in Adjusts :
       \/ BeginAdjust(h, a) \/ Finalize(h, a) \/ UpdateAdjust(h, a)
       \/ Annul(h, a) \/ DeleteAdjust(h, a)
  \/ \E c \in Counts : BeginCount(h, c) \/ UpsertLine(h, c) \/ CompleteCount(h, c)

Next ==
  \/ \E h \in Handlers : Step(h)
  \/ \E t \in Transfers : CreateTransfer(t)
  \/ \E b \in Bookings : ReserveQty(b)
  \/ \E a \in Adjusts, s \in {"draft", "pending", "adjusted"}, q \in Deltas : CreateAdjust(a, s, q)
  \/ \E c \in Counts : CreateCount(c)
  \/ \E l \in Levels, q \in {-1, 1} : Damage(l, q)
  \/ \E l \in Levels : CompleteProduction(l)
  \/ \E l, m \in Levels : TransferStock(l, m)

Spec == Init /\ [][Next]_vars

-----------------------------------------------------------------------------
Quantities == [hand: Int, reserved: Nat, transit: Int, damaged: Nat]
TransferRows ==
  [status: {"none", "draft", "pending_approval", "in_transit", "partially_received", "received", "cancelled"},
   issued: BOOLEAN, received: Nat, damaged: Nat]
AdjustRows ==
  [status: {"none", "draft", "pending", "adjusted", "cancelled"}, qty: Int, gen: Nat]
CountRows ==
  [status: {"none", "in_progress", "completed"}, system: Int, variance: Int, applied: BOOLEAN]

LocalTransfers == {t \in Transfers : Local(t)}
GroupTransfers == Transfers \ LocalTransfers

(* What a handler keeps of a request. *)
Working ==
  [op: {"issue"}, id: Transfers, seen: TransferRows, arg: {0}]
    \cup [op: {"receive"}, id: LocalTransfers, seen: TransferRows, arg: [take: Nat, damaged: Nat]]
    \cup [op: {"receive"}, id: GroupTransfers, seen: TransferRows, arg: {0}]
    \cup [op: {"cancel"}, id: LocalTransfers, seen: TransferRows, arg: {0}]
    \cup [op: {"writeIssue", "writeReceive"}, id: GroupTransfers, seen: TransferRows, arg: Nat]
    \cup [op: {"release"}, id: Bookings, seen: {"active"}, arg: {"released", "consumed", "cancelled"}]
    \cup [op: {"finalize", "annul", "delete"}, id: Adjusts, seen: AdjustRows, arg: {0}]
    \cup [op: {"update"}, id: Adjusts, seen: AdjustRows,
           arg: [status: {"draft", "pending", "adjusted"}, qty: Int]]
    \cup [op: {"upsert"}, id: Counts, seen: CountRows, arg: Nat]
    \cup [op: {"complete"}, id: Counts, seen: CountRows, arg: BOOLEAN]

(* Type correctness; the reserved and damaged quantities are never negative. *)
TypeOK ==
  /\ level \in [Levels -> Quantities]
  /\ transfer \in [Transfers -> TransferRows]
  /\ booking \in [Bookings -> {"none", "active", "released", "consumed", "cancelled"}]
  /\ adjust \in [Adjusts -> AdjustRows]
  /\ count \in [Counts -> CountRows]
  /\ handler \in [Handlers -> {Idle} \cup Working]

(* Whatever the requests do at once, no level is sold below zero, nor below  *)
(* what is reserved unless an intercompany transfer takes from it, which     *)
(* looks at the quantity on hand alone (the guards of mutateInTx and         *)
(* adjustReserved, repeated in their updates).                               *)
NoOversell ==
  \A l \in Levels :
    /\ level[l].hand >= 0
    /\ (\A t \in Transfers : TransferOf[t].group => l \notin {TransferOf[t].from, TransferOf[t].to})
         => level[l].reserved <= level[l].hand

SumOf(S, f(_)) == SumFunction([x \in S |-> f(x)])

Given(t, l) ==
  IF TransferOf[t].from = l /\ transfer[t].issued
    THEN IF transfer[t].status = "cancelled"
           THEN transfer[t].received + transfer[t].damaged
           ELSE TransferOf[t].qty
    ELSE 0
Got(t, l) == IF TransferOf[t].to = l THEN transfer[t].received + transfer[t].damaged ELSE 0

(* The quantity of level l, damaged pieces included, that its documents say. *)
Explained(l) ==
  Opening[l] + loose[l] + made[l]
    + SumOf(Transfers, LAMBDA t : Got(t, l) - Given(t, l))
    + SumOf({a \in Adjusts : AdjustAt[a] = l /\ adjust[a].status = "adjusted"}, LAMBDA a : adjust[a].qty)
    + SumOf({c \in Counts : CountAt[c] = l /\ count[c].applied}, LAMBDA c : count[c].variance)
    - SumOf({b \in Bookings : BookingOf[b].lv = l /\ booking[b] = "consumed"}, LAMBDA b : BookingOf[b].qty)
    - SumOf(Levels, LAMBDA p : made[p] * Parts[p][l])

Touching(l) ==
  {t \in Transfers : l \in {TransferOf[t].from, TransferOf[t].to}}
    \cup {b \in Bookings : BookingOf[b].lv = l}
    \cup {a \in Adjusts : AdjustAt[a] = l} \cup {c \in Counts : CountAt[c] = l}

(* The documents explain the stock: a level holds what its transfers,        *)
(* adjustments, counts, consumed reservations and productions say, whatever  *)
(* runs at once, unless two requests raced on one of these documents (two    *)
(* finalizations may race, their key decides) or an intercompany transfer    *)
(* overwrote a change.                                                       *)
StockExplained ==
  \A l \in Levels : Touching(l) \cap raced = {} /\ l \notin lost =>
    level[l].hand + level[l].damaged = Explained(l)

(* What is promised agrees with the documents that promise it: a level has   *)
(* in transit what its open transfers still owe it and keeps reserved what   *)
(* its active reservations hold, unless two requests raced on one of them    *)
(* (createTransfer to cancelTransfer, reserveQty, releaseOrConsume).         *)
PromisesAgree ==
  \A l \in Levels :
    LET inbound == {t \in Transfers : Local(t) /\ TransferOf[t].to = l}
        held == {b \in Bookings : BookingOf[b].lv = l}
    IN /\ inbound \cap raced = {} =>
            level[l].transit = SumOf(inbound, LAMBDA t : InTransit(t, transfer[t]))
       /\ held \cap raced = {} =>
            level[l].reserved = SumOf({b \in held : booking[b] = "active"}, LAMBDA b : BookingOf[b].qty)
=============================================================================
