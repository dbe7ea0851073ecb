------------------------ MODULE StockDocuments_proofs ------------------------
(* Proofs about StockDocuments, for any levels, documents and handlers.      *)
EXTENDS StockDocuments, SumTheorems, TLAPS

Grouped(l) == \E t \in GroupTransfers : l \in {TransferOf[t].from, TransferOf[t].to}

(* What the invariant says of one level. *)
RowOK(l, row) ==
  /\ row \in Quantities
  /\ row.hand >= 0
  /\ ~Grouped(l) => row.reserved <= row.hand

LevelsOK == level \in [Levels -> Quantities] /\ \A l \in Levels : RowOK(l, level[l])
HandlersOK == handler \in [Handlers -> {Idle} \cup Working]

(* Rows after an update. *)
LEMMA HandSafe ==
  ASSUME NEW l, NEW row, RowOK(l, row), NEW x \in Nat, ~Grouped(l) => row.reserved <= x
  PROVE  RowOK(l, [row EXCEPT !.hand = x])
  BY DEF RowOK, Quantities

LEMMA TransitSafe ==
  ASSUME NEW l, NEW row, RowOK(l, row), NEW x \in Int
  PROVE  RowOK(l, [row EXCEPT !.transit = x])
  BY DEF RowOK, Quantities

LEMMA ReservedSafe ==
  ASSUME NEW l, NEW row, RowOK(l, row), NEW x \in Nat, x <= row.hand
  PROVE  RowOK(l, [row EXCEPT !.reserved = x])
  BY DEF RowOK, Quantities

LEMMA DamageSafe ==
  ASSUME NEW l, NEW row, RowOK(l, row), NEW x \in Nat
  PROVE  RowOK(l, [row EXCEPT !.damaged = x])
  BY DEF RowOK, Quantities

LEMMA ReceiptSafe ==
  ASSUME NEW l, NEW row, RowOK(l, row), NEW x \in Nat, NEW y \in Int, NEW z \in Nat,
         ~Grouped(l) => row.reserved <= x
  PROVE  RowOK(l, [row EXCEPT !.hand = x, !.transit = y, !.damaged = z])
<1> DEFINE one == [row EXCEPT !.hand = x]
           two == [one EXCEPT !.transit = y]
<1>1. RowOK(l, one)
  BY HandSafe
<1>2. RowOK(l, two)
  BY <1>1, TransitSafe
<1>3. RowOK(l, [two EXCEPT !.damaged = z])
  BY <1>2, DamageSafe
<1> QED
  BY <1>3

LEMMA RowNumbers ==
  ASSUME NEW l, NEW row, RowOK(l, row)
  PROVE  row.hand \in Nat /\ row.reserved \in Nat /\ row.transit \in Int /\ row.damaged \in Nat
  BY DEF RowOK, Quantities

LEMMA TransferTyped ==
  ASSUME NEW row \in TransferRows, NEW n \in Nat, NEW d \in Nat,
         NEW s \in {"in_transit", "partially_received", "received", "cancelled"}
  PROVE  /\ [row EXCEPT !.status = s] \in TransferRows
         /\ [row EXCEPT !.status = s, !.issued = TRUE] \in TransferRows
         /\ [row EXCEPT !.status = s, !.received = n] \in TransferRows
         /\ [row EXCEPT !.status = s, !.received = n, !.damaged = d] \in TransferRows
         /\ row.received \in Nat /\ row.damaged \in Nat
  BY DEF TransferRows

LEMMA OneLevel ==
  ASSUME LevelsOK, NEW l \in Levels, NEW row, RowOK(l, row), level' = [level EXCEPT ![l] = row]
  PROVE  LevelsOK'
<1>1. \A m \in Levels : RowOK(m, level'[m]) /\ level'[m] \in Quantities
  BY DEF LevelsOK, RowOK
<1>2. level' \in [Levels -> Quantities]
  BY <1>1 DEF LevelsOK
<1> QED
  BY <1>1, <1>2 DEF LevelsOK, RowOK, Grouped

LEMMA TwoLevels ==
  ASSUME LevelsOK, NEW l \in Levels, NEW k \in Levels, l # k, NEW row, NEW other,
         RowOK(l, row), RowOK(k, other),
         level' = [level EXCEPT ![l] = row, ![k] = other]
  PROVE  LevelsOK'
<1>1. \A m \in Levels : RowOK(m, level'[m]) /\ level'[m] \in Quantities
  BY DEF LevelsOK, RowOK
<1>2. level' \in [Levels -> Quantities]
  BY <1>1 DEF LevelsOK
<1> QED
  BY <1>1, <1>2 DEF LevelsOK, RowOK, Grouped

(* A movement that mutateInTx lets pass keeps a level safe. *)
LEMMA MoveSafe ==
  ASSUME DocumentsAssumption, LevelsOK, NEW l \in Levels, NEW q \in Int,
         CanMove(level[l], q), Hand(l, q)
  PROVE  LevelsOK'
<1>1. RowOK(l, [level[l] EXCEPT !.hand = @ + q])
  <2> DEFINE row == level[l]
             hand == row.hand + q
  <2>1. row \in Quantities /\ RowOK(l, row)
    BY DEF LevelsOK
  <2>2. hand \in Int /\ hand >= 0 /\ (~Grouped(l) => row.reserved <= hand)
    BY <2>1, SMTT(30) DEF RowOK, Quantities, CanMove
  <2> HIDE DEF row, hand
  <2>3. [row EXCEPT !.hand = hand] \in Quantities
    BY <2>1, <2>2 DEF Quantities
  <2>4. [row EXCEPT !.hand = hand].hand = hand /\ [row EXCEPT !.hand = hand].reserved = row.reserved
    BY <2>1 DEF Quantities
  <2> QED
    BY <2>2, <2>3, <2>4 DEF RowOK, row, hand
<1> QED
  BY <1>1, OneLevel DEF Hand

(* A handler that begins or ends keeps its type. *)
LEMMA BeginTyped ==
  ASSUME HandlersOK, NEW h \in Handlers, NEW op, NEW id, NEW seen, NEW arg,
         Begin(h, op, id, seen, arg),
         [op |-> op, id |-> id, seen |-> seen, arg |-> arg] \in Working
  PROVE  HandlersOK'
  BY DEF HandlersOK, Begin

LEMMA CommitTyped ==
  ASSUME HandlersOK, NEW h \in Handlers, NEW op, NEW id, Commits(h, op, id)
  PROVE  HandlersOK'
  BY DEF HandlersOK, Commits

-----------------------------------------------------------------------------
(* Each action keeps the levels safe, the handlers and the documents typed. *)

DocsOK ==
  /\ transfer \in [Transfers -> TransferRows]
  /\ booking \in [Bookings -> {"none", "active", "released", "consumed", "cancelled"}]
  /\ adjust \in [Adjusts -> AdjustRows]
  /\ count \in [Counts -> CountRows]

(* The inductive invariant.  NoOversell alone is not inductive: that a       *)
(* receipt, a cancellation or an intercompany receipt only adds to a level   *)
(* follows from what the handler has kept.                                   *)
Kept == LevelsOK /\ HandlersOK /\ DocsOK

LEMMA InitKept == DocumentsAssumption /\ Init => Kept
  BY DEF DocumentsAssumption, Init, Kept, LevelsOK, RowOK, HandlersOK, DocsOK, Quantities, TransferRows,
         AdjustRows, CountRows, NoTransfer, NoAdjust, NoCount

LEMMA OnceKept ==
  ASSUME Kept, Once PROVE HandlersOK'
  BY DEF Kept, Once, HandlersOK

(* Transfers. *)
LEMMA CreateTransferKept ==
  ASSUME DocumentsAssumption, Kept, NEW t \in Transfers, CreateTransfer(t) PROVE Kept'
<1>1. HandlersOK' /\ LevelsOK'
  BY OnceKept DEF CreateTransfer, Kept, LevelsOK, RowOK, Grouped
<1>2. \A s \in {"draft", "pending_approval"} : [NoTransfer EXCEPT !.status = s] \in TransferRows
  BY DEF NoTransfer, TransferRows
<1>3. PICK s \in {"draft", "pending_approval"} : SetTransfer(t, [NoTransfer EXCEPT !.status = s])
  BY DEF CreateTransfer
<1>4. DocsOK'
  BY <1>2, <1>3 DEF CreateTransfer, Kept, DocsOK, SetTransfer, OnlyTransfers
<1> QED
  BY <1>1, <1>4 DEF Kept

LEMMA BeginKept ==
  ASSUME Kept, NEW h \in Handlers, NEW op, NEW id, NEW seen, NEW arg,
         Begin(h, op, id, seen, arg),
         [op |-> op, id |-> id, seen |-> seen, arg |-> arg] \in Working
  PROVE  Kept'
<1>1. HandlersOK'
  BY BeginTyped DEF Kept
<1> QED
  BY <1>1 DEF Begin, docVars, Kept, LevelsOK, RowOK, Grouped, DocsOK

LEMMA RefusedKept ==
  ASSUME Kept, Refused, HandlersOK'
  PROVE  Kept'
  BY DEF Refused, docVars, Kept, LevelsOK, RowOK, Grouped, DocsOK

LEMMA BeginTransferKept ==
  ASSUME DocumentsAssumption, Kept, NEW h \in Handlers, NEW t \in Transfers,
         BeginIssue(h, t) \/ BeginReceive(h, t) \/ BeginCancel(h, t)
  PROVE  Kept'
<1>1. transfer[t] \in TransferRows
  BY DEF Kept, DocsOK
<1>2. CASE BeginIssue(h, t)
  <2>1. [op |-> "issue", id |-> t, seen |-> transfer[t], arg |-> 0] \in Working
    BY <1>1 DEF Working
  <2> QED
    BY <1>2, <2>1, BeginKept DEF BeginIssue
<1>3. CASE BeginReceive(h, t)
  <2>1. CASE Local(t)
    <3>1. PICK r \in Receipts(t) : Begin(h, "receive", t, transfer[t], r)
      BY <1>3, <2>1 DEF BeginReceive
    <3>2. r \in [take: Nat, damaged: Nat]
      <4>1. TransferOf[t].qty \in Nat
        BY DEF DocumentsAssumption
      <4> QED
        BY <4>1 DEF Receipts
    <3>3. [op |-> "receive", id |-> t, seen |-> transfer[t], arg |-> r] \in Working
      BY <1>1, <2>1, <3>2 DEF Working, LocalTransfers
    <3> QED
      BY <3>1, <3>3, BeginKept
  <2>2. CASE ~Local(t)
    <3>1. [op |-> "receive", id |-> t, seen |-> transfer[t], arg |-> 0] \in Working
      BY <1>1, <2>2 DEF Working, LocalTransfers, GroupTransfers
    <3> QED
      BY <1>3, <2>2, <3>1, BeginKept DEF BeginReceive
  <2> QED
    BY <2>1, <2>2
<1>4. CASE BeginCancel(h, t)
  <2>1. [op |-> "cancel", id |-> t, seen |-> transfer[t], arg |-> 0] \in Working
    BY <1>1, <1>4 DEF Working, LocalTransfers, BeginCancel
  <2> QED
    BY <1>4, <2>1, BeginKept DEF BeginCancel
<1> QED
  BY <1>2, <1>3, <1>4

LEMMA IssueKept ==
  ASSUME DocumentsAssumption, Kept, NEW h \in Handlers, NEW t \in Transfers, Issue(h, t)
  PROVE  Kept'
<1> DEFINE T == TransferOf[t]
<1>1. T.from \in Levels /\ T.to \in Levels /\ T.from # T.to /\ T.qty \in Nat /\ T.qty > 0
  BY DEF DocumentsAssumption
<1>2. HandlersOK' /\ LevelsOK /\ DocsOK
  BY CommitTyped DEF Issue, Kept
<1>3. CASE CanMove(level[T.from], -T.qty)
  <2>0. RowOK(T.from, level[T.from]) /\ RowOK(T.to, level[T.to])
    BY <1>1, <1>2 DEF LevelsOK
  <2>1. RowOK(T.from, [level[T.from] EXCEPT !.hand = @ - T.qty])
    <3>1. /\ level[T.from].hand - T.qty \in Nat
          /\ ~Grouped(T.from) => level[T.from].reserved <= level[T.from].hand - T.qty
      <4>1. level[T.from].hand \in Nat /\ level[T.from].reserved \in Nat
        BY <2>0, RowNumbers
      <4> QED
        BY <1>1, <1>3, <4>1 DEF CanMove
    <3> QED
      BY <2>0, <3>1, HandSafe
  <2>2. RowOK(T.to, [level[T.to] EXCEPT !.transit = @ + T.qty])
    <3>1. level[T.to].transit + T.qty \in Int
      BY <1>1, <2>0, RowNumbers
    <3> QED
      BY <2>0, <3>1, TransitSafe
  <2>3. LevelsOK'
    <3>1. level' = [level EXCEPT ![T.from] = [level[T.from] EXCEPT !.hand = @ - T.qty],
                                 ![T.to] = [level[T.to] EXCEPT !.transit = @ + T.qty]]
      BY <1>1, <1>2, <1>3 DEF Issue, LevelsOK
    <3> QED
      BY <1>1, <1>2, <2>1, <2>2, <3>1, TwoLevels
  <2>4. [transfer[t] EXCEPT !.status = "in_transit", !.issued = TRUE] \in TransferRows
    BY <1>2, TransferTyped, 0 \in Nat DEF DocsOK
  <2>5. DocsOK'
    BY <1>2, <1>3, <2>4 DEF Issue, SetTransfer, OnlyTransfers, DocsOK
  <2> QED
    BY <1>2, <2>3, <2>5 DEF Kept
<1>4. CASE ~CanMove(level[T.from], -T.qty)
  BY <1>2, <1>4, RefusedKept DEF Issue
<1> QED
  BY <1>3, <1>4

LEMMA ReceiveKept ==
  ASSUME DocumentsAssumption, Kept, NEW h \in Handlers, NEW t \in Transfers, Receive(h, t)
  PROVE  Kept'
<1> DEFINE T == TransferOf[t]
           r == handler[h].arg
<1>1. T.to \in Levels /\ T.qty \in Nat
  BY DEF DocumentsAssumption
<1>2. HandlersOK' /\ LevelsOK /\ DocsOK /\ HandlersOK
  BY CommitTyped DEF Receive, Kept
<1>3. r.take \in Nat /\ r.damaged \in Nat
  <2>1. handler[h] \in Working /\ handler[h].op = "receive" /\ handler[h].id = t
    BY <1>2 DEF Receive, Commits, HandlersOK
  <2>2. handler[h] \in [op: {"receive"}, id: LocalTransfers, seen: TransferRows, arg: [take: Nat, damaged: Nat]]
    BY <2>1 DEF Receive, Working, GroupTransfers, LocalTransfers
  <2> QED
    BY <2>2
<1>4. LevelsOK'
  <2>1. RowOK(T.to, [level[T.to] EXCEPT !.hand = @ + r.take,
                                        !.transit = @ - (r.take + r.damaged),
                                        !.damaged = @ + r.damaged])
    <3>1. RowOK(T.to, level[T.to])
      BY <1>1, <1>2 DEF LevelsOK
    <3>2. /\ level[T.to].hand + r.take \in Nat
          /\ ~Grouped(T.to) => level[T.to].reserved <= level[T.to].hand + r.take
          /\ level[T.to].transit - (r.take + r.damaged) \in Int
          /\ level[T.to].damaged + r.damaged \in Nat
      <4>1. /\ level[T.to].hand \in Nat /\ level[T.to].reserved \in Nat
            /\ level[T.to].transit \in Int /\ level[T.to].damaged \in Nat
        BY <3>1, RowNumbers
      <4>2. ~Grouped(T.to) => level[T.to].reserved <= level[T.to].hand
        BY <3>1 DEF RowOK
      <4> QED
        BY <1>3, <4>1, <4>2
    <3> QED
      BY <3>1, <3>2, ReceiptSafe
  <2>2. level' = [level EXCEPT ![T.to] =
                    [level[T.to] EXCEPT !.hand = @ + r.take,
                                        !.transit = @ - (r.take + r.damaged),
                                        !.damaged = @ + r.damaged]]
    BY <1>1, <1>2 DEF Receive, LevelsOK, Quantities
  <2> QED
    BY <1>1, <1>2, <2>1, <2>2, OneLevel
<1>5. DocsOK'
  <2>1. \A s \in {"received", "partially_received", "in_transit"} :
          [transfer[t] EXCEPT !.status = s, !.received = transfer[t].received + r.take,
                              !.damaged = transfer[t].damaged + r.damaged] \in TransferRows
    <3>1. transfer[t] \in TransferRows
      BY <1>2 DEF DocsOK
    <3>2. transfer[t].received + r.take \in Nat /\ transfer[t].damaged + r.damaged \in Nat
      BY <1>3, <3>1 DEF TransferRows
    <3> QED
      BY <3>1, <3>2, TransferTyped
  <2> QED
    BY <1>2, <2>1 DEF Receive, SetTransfer, OnlyTransfers, DocsOK
<1> QED
  BY <1>2, <1>4, <1>5 DEF Kept

LEMMA CancelKept ==
  ASSUME DocumentsAssumption, Kept, NEW h \in Handlers, NEW t \in Transfers, Cancel(h, t)
  PROVE  Kept'
<1> DEFINE T == TransferOf[t]
           left == InTransit(t, handler[h].seen)
<1>1. T.from \in Levels /\ T.to \in Levels /\ T.from # T.to /\ T.qty \in Nat
  BY DEF DocumentsAssumption
<1>2. HandlersOK' /\ LevelsOK /\ DocsOK /\ HandlersOK
  BY CommitTyped DEF Cancel, Kept
<1>3. left \in Nat
  <2>1. handler[h] \in Working /\ handler[h].op = "cancel"
    BY <1>2 DEF Cancel, Commits, HandlersOK
  <2>2. handler[h].seen \in TransferRows
    BY <2>1 DEF Working
  <2> QED
    BY <1>1, <2>2 DEF InTransit, TransferRows
<1>4. LevelsOK'
  <2>0. RowOK(T.from, level[T.from]) /\ RowOK(T.to, level[T.to])
    BY <1>1, <1>2 DEF LevelsOK
  <2>1. RowOK(T.from, [level[T.from] EXCEPT !.hand = @ + left])
    <3>1. /\ level[T.from].hand + left \in Nat
          /\ ~Grouped(T.from) => level[T.from].reserved <= level[T.from].hand + left
      BY <1>3, <2>0, RowNumbers DEF RowOK
    <3> QED
      BY <2>0, <3>1, HandSafe
  <2>2. RowOK(T.to, [level[T.to] EXCEPT !.transit = @ - left])
    <3>1. level[T.to].transit - left \in Int
      BY <1>3, <2>0, RowNumbers
    <3> QED
      BY <2>0, <3>1, TransitSafe
  <2>3. level' = [level EXCEPT ![T.from] = [level[T.from] EXCEPT !.hand = @ + left],
                               ![T.to] = [level[T.to] EXCEPT !.transit = @ - left]]
    BY <1>1, <1>2 DEF Cancel, LevelsOK
  <2> QED
    BY <1>1, <1>2, <2>1, <2>2, <2>3, TwoLevels
<1>5. DocsOK'
  <2>1. [transfer[t] EXCEPT !.status = "cancelled"] \in TransferRows
    BY <1>2, TransferTyped, 0 \in Nat DEF DocsOK
  <2> QED
    BY <1>2, <2>1 DEF Cancel, SetTransfer, OnlyTransfers, DocsOK
<1> QED
  BY <1>2, <1>4, <1>5 DEF Kept

(* Intercompany transfers. *)
LEMMA ReadLevelKept ==
  ASSUME DocumentsAssumption, Kept, NEW h \in Handlers, NEW t \in Transfers, ReadLevel(h, t)
  PROVE  Kept'
<1>1. HandlersOK /\ LevelsOK /\ DocsOK
  BY DEF Kept
<1>2. t \in GroupTransfers
  BY DEF ReadLevel, GroupTransfers, LocalTransfers
<1>3. handler[h] \in Working /\ handler[h].op \in {"issue", "receive"} /\ handler[h].id = t
  BY <1>1 DEF ReadLevel, HandlersOK
<1>4. level[GroupLevel(h, t)].hand \in Nat
  <2>1. GroupLevel(h, t) \in Levels
    BY DEF GroupLevel, DocumentsAssumption
  <2> QED
    BY <1>1, <2>1 DEF LevelsOK, RowOK, Quantities
<1>5. \A op \in {"writeIssue", "writeReceive"} :
        [handler[h] EXCEPT !.op = op, !.arg = level[GroupLevel(h, t)].hand] \in Working
  <2>1. handler[h] \in [op: {"issue"}, id: Transfers, seen: TransferRows, arg: {0}]
          \/ handler[h] \in [op: {"receive"}, id: GroupTransfers, seen: TransferRows, arg: {0}]
    BY <1>2, <1>3 DEF Working, GroupTransfers
  <2> QED
    BY <1>2, <1>3, <1>4, <2>1, ZenonT(60) DEF Working
<1>6. HandlersOK'
  BY <1>1, <1>5 DEF ReadLevel, HandlersOK
<1> QED
  BY <1>1, <1>6 DEF ReadLevel, docVars, Kept, LevelsOK, RowOK, Grouped, DocsOK

LEMMA GroupKept ==
  ASSUME DocumentsAssumption, Kept, NEW h \in Handlers, NEW t \in Transfers,
         GroupIssue(h, t) \/ GroupReceive(h, t)
  PROVE  Kept'
<1> DEFINE T == TransferOf[t]
           seen == handler[h].arg
<1>1. T.from \in Levels /\ T.to \in Levels /\ T.qty \in Nat
  BY DEF DocumentsAssumption
<1>2. HandlersOK' /\ LevelsOK /\ DocsOK /\ HandlersOK
  BY CommitTyped DEF GroupIssue, GroupReceive, Kept
<1>3. seen \in Nat /\ t \in GroupTransfers
  <2>1. handler[h] \in Working /\ handler[h].op \in {"writeIssue", "writeReceive"} /\ handler[h].id = t
    BY <1>2 DEF GroupIssue, GroupReceive, Commits, HandlersOK
  <2> QED
    BY <2>1 DEF Working
<1>4. Grouped(T.from) /\ Grouped(T.to)
  BY <1>3 DEF Grouped
<1>5. ASSUME NEW l \in {T.from, T.to}, NEW q \in Int, seen + q >= 0, WriteLevel(l, seen, q)
      PROVE  LevelsOK'
  <2>1. RowOK(l, [level[l] EXCEPT !.hand = seen + q])
    <3>1. RowOK(l, level[l]) /\ seen + q \in Nat /\ Grouped(l)
      BY <1>1, <1>2, <1>3, <1>4, <1>5 DEF LevelsOK
    <3> QED
      BY <3>1, HandSafe
  <2> QED
    BY <1>1, <1>2, <1>5, <2>1, OneLevel DEF WriteLevel
<1>6. CASE GroupIssue(h, t) /\ seen >= T.qty
  <2>1. LevelsOK'
    BY <1>1, <1>3, <1>5, <1>6 DEF GroupIssue
  <2>2. [transfer[t] EXCEPT !.status = "in_transit", !.issued = TRUE] \in TransferRows
    BY <1>2, TransferTyped, 0 \in Nat DEF DocsOK
  <2>3. DocsOK'
    BY <1>2, <1>6, <2>2 DEF GroupIssue, SetTransfer, OnlyTransfers, DocsOK
  <2> QED
    BY <1>2, <2>1, <2>3 DEF Kept
<1>7. CASE GroupIssue(h, t) /\ ~(seen >= T.qty)
  BY <1>2, <1>7, RefusedKept DEF GroupIssue
<1>8. CASE GroupReceive(h, t)
  <2>1. LevelsOK'
    BY <1>1, <1>3, <1>5, <1>8 DEF GroupReceive
  <2>2. [transfer[t] EXCEPT !.status = "received", !.received = T.qty] \in TransferRows
    BY <1>1, <1>2, TransferTyped, 0 \in Nat DEF DocsOK
  <2>3. DocsOK'
    BY <1>2, <1>8, <2>2 DEF GroupReceive, SetTransfer, OnlyTransfers, DocsOK
  <2> QED
    BY <1>2, <2>1, <2>3 DEF Kept
<1> QED
  BY <1>6, <1>7, <1>8

(* Reservations. *)
LEMMA ReserveKept ==
  ASSUME DocumentsAssumption, Kept, NEW b \in Bookings, ReserveQty(b)
  PROVE  Kept'
<1> DEFINE l == BookingOf[b].lv
           q == BookingOf[b].qty
           row == level[l]
<1>1. l \in Levels /\ q \in Nat /\ LevelsOK /\ DocsOK
  BY DEF DocumentsAssumption, Kept
<1>2. HandlersOK'
  BY OnceKept DEF ReserveQty
<1>3. RowOK(l, [row EXCEPT !.reserved = @ + q])
  <2>1. RowOK(l, row)
    BY <1>1 DEF LevelsOK
  <2>2. row.hand \in Nat /\ row.reserved \in Nat
    BY <2>1, RowNumbers
  <2>3. row.reserved + q \in Nat /\ row.reserved + q <= row.hand
    BY <1>1, <2>2 DEF ReserveQty, CanReserve
  <2> QED
    BY <2>1, <2>3, ReservedSafe
<1>4. level' = [level EXCEPT ![l] = [row EXCEPT !.reserved = @ + q]]
  BY <1>1 DEF ReserveQty, LevelsOK
<1>5. LevelsOK'
  BY <1>1, <1>3, <1>4, OneLevel
<1>6. DocsOK'
  BY <1>1 DEF ReserveQty, OnlyBookings, DocsOK
<1> QED
  BY <1>2, <1>5, <1>6 DEF Kept

LEMMA BeginReleaseKept ==
  ASSUME Kept, NEW h \in Handlers, NEW b \in Bookings, BeginRelease(h, b)
  PROVE  Kept'
<1>1. PICK action \in {"released", "consumed", "cancelled"} :
        booking[b] = "active" /\ Begin(h, "release", b, booking[b], action)
  BY DEF BeginRelease
<1>2. [op |-> "release", id |-> b, seen |-> booking[b], arg |-> action] \in Working
  BY <1>1 DEF Working
<1> QED
  BY <1>1, <1>2, BeginKept

LEMMA ReleaseKept ==
  ASSUME DocumentsAssumption, Kept, NEW h \in Handlers, NEW b \in Bookings, Release(h, b)
  PROVE  Kept'
<1> DEFINE l == BookingOf[b].lv
           q == BookingOf[b].qty
           row == level[l]
           action == handler[h].arg
           open == [row EXCEPT !.reserved = @ - q]
           Passes == CanReserve(row, -q) /\ (action = "consumed" => CanMove(open, -q))
<1>1. l \in Levels /\ q \in Nat /\ q > 0
  BY DEF DocumentsAssumption
<1>2. HandlersOK' /\ LevelsOK /\ DocsOK /\ HandlersOK
  BY CommitTyped DEF Release, Kept
<1>3. CASE Passes
  <2>1. RowOK(l, row)
    BY <1>1, <1>2 DEF LevelsOK
  <2>2. row.hand \in Nat /\ row.reserved \in Nat
    BY <2>1, RowNumbers
  <2>3. row.reserved - q \in Nat /\ row.reserved - q <= row.hand
    BY <1>1, <1>3, <2>2 DEF CanReserve
  <2>4. RowOK(l, open)
    BY <2>1, <2>3, ReservedSafe
  <2>5. open.hand = row.hand /\ open.reserved = row.reserved - q
    BY <2>1 DEF RowOK, Quantities
  <2>6. RowOK(l, Freed(row, b, action))
    <3>1. CASE action = "consumed"
      <4>1. open.hand - q \in Nat /\ open.reserved <= open.hand - q
        BY <1>1, <1>3, <2>2, <2>3, <2>5, <3>1 DEF CanMove
      <4>2. RowOK(l, [open EXCEPT !.hand = open.hand - q])
        BY <2>4, <4>1, HandSafe
      <4> QED
        BY <3>1, <4>2 DEF Freed
    <3> QED
      BY <2>4, <3>1 DEF Freed
  <2>7. LevelsOK'
    BY <1>1, <1>2, <1>3, <2>6, OneLevel DEF Release
  <2>8. action \in {"released", "consumed", "cancelled"}
    <3>1. handler[h] \in Working /\ handler[h].op = "release"
      BY <1>2 DEF Release, Commits, HandlersOK
    <3> QED
      BY <3>1 DEF Working
  <2>9. DocsOK'
    BY <1>2, <1>3, <2>8 DEF Release, OnlyBookings, DocsOK
  <2> QED
    BY <1>2, <2>7, <2>9 DEF Kept
<1>4. CASE ~Passes
  BY <1>2, <1>4, RefusedKept DEF Release
<1> QED
  BY <1>3, <1>4

(* Adjustments. *)
LEMMA AdjustTyped ==
  ASSUME NEW row \in AdjustRows, NEW s \in {"adjusted", "cancelled"}
  PROVE  [row EXCEPT !.status = s] \in AdjustRows /\ row.qty \in Int /\ row.gen \in Nat
         /\ [row EXCEPT !.status = s].qty = row.qty
  BY DEF AdjustRows

(* Applying or reversing a line that may be applied keeps the levels safe. *)
LEMMA MovesSafe ==
  ASSUME DocumentsAssumption, LevelsOK, NEW a \in Adjusts, NEW row, row.qty \in Int,
         NEW dir \in {"apply", "reverse"},
         CanApply(a, row, dir), Moves(a, row, dir)
  PROVE  LevelsOK'
<1> DEFINE q == IF dir = "apply" THEN row.qty ELSE -row.qty
<1>1. q \in Int /\ AdjustAt[a] \in Levels
  BY DEF DocumentsAssumption
<1>2. CASE q = 0 \/ KeyOf(a, row, dir) \in keys
  BY <1>2 DEF Moves, LevelsOK, RowOK, Grouped
<1>3. CASE ~(q = 0 \/ KeyOf(a, row, dir) \in keys)
  <2>1. CanMove(level[AdjustAt[a]], q) /\ Hand(AdjustAt[a], q)
    BY <1>3 DEF Moves, CanApply
  <2> QED
    BY <1>1, <2>1, MoveSafe
<1> QED
  BY <1>2, <1>3

LEMMA LevelsStay == LevelsOK /\ UNCHANGED level => LevelsOK'
  BY DEF LevelsOK, RowOK, Grouped

LEMMA AdjustDocs ==
  ASSUME DocsOK, NEW a \in Adjusts, NEW row \in AdjustRows, SetAdjust(a, row), OnlyAdjusts
  PROVE  DocsOK'
  BY DEF DocsOK, SetAdjust, OnlyAdjusts

LEMMA CreateAdjustKept ==
  ASSUME DocumentsAssumption, Kept, NEW a \in Adjusts,
         NEW s \in {"draft", "pending", "adjusted"}, NEW q \in Deltas, CreateAdjust(a, s, q)
  PROVE  Kept'
<1> DEFINE row == [status |-> s, qty |-> q, gen |-> 1]
<1>1. LevelsOK /\ DocsOK /\ q \in Int /\ row.qty \in Int
  BY DEF Kept, DocumentsAssumption
<1>2. HandlersOK'
  BY OnceKept DEF CreateAdjust
<1>3. LevelsOK'
  BY <1>1, MovesSafe, LevelsStay DEF CreateAdjust
<1>4. row \in AdjustRows
  BY <1>1 DEF AdjustRows
<1>5. DocsOK'
  BY <1>1, <1>4, AdjustDocs DEF CreateAdjust
<1> QED
  BY <1>2, <1>3, <1>5 DEF Kept

LEMMA BeginAdjustKept ==
  ASSUME DocumentsAssumption, Kept, NEW h \in Handlers, NEW a \in Adjusts, BeginAdjust(h, a)
  PROVE  Kept'
<1>1. adjust[a] \in AdjustRows
  BY DEF Kept, DocsOK
<1>2. \A op \in {"finalize", "annul", "delete"} :
        [op |-> op, id |-> a, seen |-> adjust[a], arg |-> 0] \in Working
  BY <1>1 DEF Working
<1>3. \A s \in {"draft", "pending", "adjusted"}, q \in Deltas :
        [op |-> "update", id |-> a, seen |-> adjust[a], arg |-> [status |-> s, qty |-> q]] \in Working
  BY <1>1 DEF Working, DocumentsAssumption
<1>4. CASE Begin(h, "finalize", a, adjust[a], 0)
  BY <1>2, <1>4, BeginKept
<1>5. CASE Begin(h, "annul", a, adjust[a], 0)
  BY <1>2, <1>5, BeginKept
<1>6. CASE Begin(h, "delete", a, adjust[a], 0)
  BY <1>2, <1>6, BeginKept
<1>7. ASSUME NEW s \in {"draft", "pending", "adjusted"}, NEW q \in Deltas,
             Begin(h, "update", a, adjust[a], [status |-> s, qty |-> q])
      PROVE  Kept'
  BY <1>3, <1>7, BeginKept
<1> QED
  BY <1>4, <1>5, <1>6, <1>7 DEF BeginAdjust

LEMMA EndAdjustKept ==
  ASSUME DocumentsAssumption, Kept, NEW h \in Handlers, NEW a \in Adjusts,
         Finalize(h, a) \/ UpdateAdjust(h, a) \/ Annul(h, a) \/ DeleteAdjust(h, a)
  PROVE  Kept'
<1>1. HandlersOK' /\ LevelsOK /\ DocsOK /\ HandlersOK
  BY CommitTyped DEF Finalize, UpdateAdjust, Annul, DeleteAdjust, Kept
<1>2. adjust[a] \in AdjustRows
  BY <1>1 DEF DocsOK
<1>3. CASE Finalize(h, a)
  <2> DEFINE row == [adjust[a] EXCEPT !.status = "adjusted"]
  <2>1. row \in AdjustRows /\ row.qty \in Int
    BY <1>2, AdjustTyped
  <2>2. CASE adjust[a] # NoAdjust /\ CanApply(a, row, "apply")
    <3>1. SetAdjust(a, row) /\ Moves(a, row, "apply") /\ OnlyAdjusts
      BY <1>3, <2>2 DEF Finalize
    <3> HIDE DEF row
    <3>2. LevelsOK' /\ DocsOK'
      BY <1>1, <2>1, <2>2, <3>1, MovesSafe, AdjustDocs
    <3> QED
      BY <1>1, <3>2 DEF Kept
  <2>3. CASE ~(adjust[a] # NoAdjust /\ CanApply(a, row, "apply"))
    BY <1>1, <1>3, <2>3, RefusedKept DEF Finalize
  <2> QED
    BY <2>2, <2>3
<1>4. CASE UpdateAdjust(h, a)
  <2> DEFINE new == handler[h].arg
             row == [status |-> new.status, qty |-> new.qty, gen |-> adjust[a].gen + 1]
             Passes == adjust[a] # NoAdjust /\ (new.status = "adjusted" => CanApply(a, row, "apply"))
  <2>1. new \in [status: {"draft", "pending", "adjusted"}, qty: Int]
    <3>1. handler[h] \in Working /\ handler[h].op = "update"
      BY <1>1, <1>4 DEF UpdateAdjust, Commits, HandlersOK
    <3> QED
      BY <3>1 DEF Working
  <2>2. adjust[a].gen + 1 \in Nat
    BY <1>2 DEF AdjustRows
  <2>3. row \in AdjustRows /\ row.qty \in Int
    BY <2>1, <2>2 DEF AdjustRows
  <2>4. CASE Passes
    <3>1. /\ SetAdjust(a, row) /\ OnlyAdjusts
          /\ new.status = "adjusted" => Moves(a, row, "apply")
          /\ new.status # "adjusted" => UNCHANGED level
      BY <1>4, <2>4 DEF UpdateAdjust
    <3> HIDE DEF row
    <3>2. LevelsOK'
      BY <1>1, <2>3, <2>4, <3>1, MovesSafe, LevelsStay
    <3>3. DocsOK'
      BY <1>1, <2>3, <3>1, AdjustDocs
    <3> QED
      BY <1>1, <3>2, <3>3 DEF Kept
  <2>5. CASE ~Passes
    BY <1>1, <1>4, <2>5, RefusedKept DEF UpdateAdjust
  <2> QED
    BY <2>4, <2>5
<1>5. CASE Annul(h, a)
  <2> DEFINE row == [adjust[a] EXCEPT !.status = "cancelled"]
             back == handler[h].seen.status = "adjusted"
             Passes == adjust[a] # NoAdjust /\ (back => CanApply(a, row, "reverse"))
  <2>1. row \in AdjustRows /\ row.qty \in Int
    BY <1>2, AdjustTyped
  <2>2. CASE Passes
    <3>1. /\ SetAdjust(a, row) /\ OnlyAdjusts
          /\ back => Moves(a, row, "reverse")
          /\ ~back => UNCHANGED level
      BY <1>5, <2>2 DEF Annul
    <3> HIDE DEF row, back
    <3>2. LevelsOK'
      BY <1>1, <2>1, <2>2, <3>1, MovesSafe, LevelsStay
    <3>3. DocsOK'
      BY <1>1, <2>1, <3>1, AdjustDocs
    <3> QED
      BY <1>1, <3>2, <3>3 DEF Kept
  <2>3. CASE ~Passes
    BY <1>1, <1>5, <2>3, RefusedKept DEF Annul
  <2> QED
    BY <2>2, <2>3
<1>6. CASE DeleteAdjust(h, a)
  <2>1. NoAdjust \in AdjustRows
    BY DEF NoAdjust, AdjustRows
  <2>2. DocsOK'
    BY <1>1, <1>6, <2>1, AdjustDocs DEF DeleteAdjust
  <2>3. LevelsOK'
    BY <1>1, <1>6, LevelsStay DEF DeleteAdjust
  <2> QED
    BY <1>1, <2>2, <2>3 DEF Kept
<1> QED
  BY <1>3, <1>4, <1>5, <1>6

(* Counts. *)
LEMMA CountDocs ==
  ASSUME DocsOK, NEW c \in Counts, NEW row \in CountRows, SetCount(c, row), OnlyCounts
  PROVE  DocsOK'
  BY DEF DocsOK, SetCount, OnlyCounts

LEMMA CreateCountKept ==
  ASSUME DocumentsAssumption, Kept, NEW c \in Counts, CreateCount(c)
  PROVE  Kept'
<1> DEFINE n == level[CountAt[c]].hand
           row == [NoCount EXCEPT !.status = "in_progress", !.system = n]
<1>1. LevelsOK /\ DocsOK /\ HandlersOK'
  BY OnceKept DEF CreateCount, Kept
<1>2. n \in Nat
  <2>1. CountAt[c] \in Levels
    BY DEF DocumentsAssumption
  <2> QED
    BY <1>1, <2>1, RowNumbers DEF LevelsOK
<1>3. row \in CountRows
  <2>1. \A r \in CountRows, x \in Int : [r EXCEPT !.status = "in_progress", !.system = x] \in CountRows
    BY DEF CountRows
  <2>2. NoCount \in CountRows
    BY DEF NoCount, CountRows
  <2>3. n \in Int
    BY <1>2
  <2> HIDE DEF n
  <2> QED
    BY <2>1, <2>2, <2>3
<1>4. SetCount(c, row) /\ OnlyCounts /\ UNCHANGED level
  BY DEF CreateCount
<1> HIDE DEF row
<1>5. DocsOK' /\ LevelsOK'
  BY <1>1, <1>3, <1>4, CountDocs, LevelsStay
<1> QED
  BY <1>1, <1>5 DEF Kept

LEMMA BeginCountKept ==
  ASSUME DocumentsAssumption, Kept, NEW h \in Handlers, NEW c \in Counts, BeginCount(h, c)
  PROVE  Kept'
<1>1. count[c] \in CountRows
  BY DEF Kept, DocsOK
<1>2. \A n \in Counted : [op |-> "upsert", id |-> c, seen |-> count[c], arg |-> n] \in Working
  BY <1>1 DEF Working, DocumentsAssumption
<1>3. \A apply \in BOOLEAN : [op |-> "complete", id |-> c, seen |-> count[c], arg |-> apply] \in Working
  BY <1>1 DEF Working
<1>4. ASSUME NEW n \in Counted, Begin(h, "upsert", c, count[c], n)
      PROVE  Kept'
  BY <1>2, <1>4, BeginKept
<1>5. ASSUME NEW apply \in BOOLEAN, Begin(h, "complete", c, count[c], apply)
      PROVE  Kept'
  BY <1>3, <1>5, BeginKept
<1> QED
  BY <1>4, <1>5 DEF BeginCount

LEMMA EndCountKept ==
  ASSUME DocumentsAssumption, Kept, NEW h \in Handlers, NEW c \in Counts,
         UpsertLine(h, c) \/ CompleteCount(h, c)
  PROVE  Kept'
<1>1. HandlersOK' /\ LevelsOK /\ DocsOK /\ HandlersOK
  BY CommitTyped DEF UpsertLine, CompleteCount, Kept
<1>2. count[c] \in CountRows
  BY <1>1 DEF DocsOK
<1>3. CASE UpsertLine(h, c)
  <2> DEFINE v == handler[h].arg - count[c].system
             row == [count[c] EXCEPT !.variance = v]
  <2>1. handler[h] \in Working /\ handler[h].op = "upsert"
    BY <1>1, <1>3 DEF UpsertLine, Commits, HandlersOK
  <2>2. handler[h].arg \in Nat
    BY <2>1 DEF Working
  <2>3. v \in Int
    BY <1>2, <2>2 DEF CountRows
  <2>4. SetCount(c, row) /\ OnlyCounts /\ UNCHANGED level
    BY <1>3 DEF UpsertLine
  <2>5. row \in CountRows
    <3> HIDE DEF v
    <3> QED
      BY <1>2, <2>3 DEF CountRows
  <2> HIDE DEF row
  <2>6. DocsOK' /\ LevelsOK'
    BY <1>1, <2>4, <2>5, CountDocs, LevelsStay
  <2> QED
    BY <1>1, <2>6 DEF Kept
<1>4. CASE CompleteCount(h, c)
  <2> DEFINE apply == handler[h].arg
             v == IF apply THEN handler[h].seen.variance ELSE 0
             row == [count[c] EXCEPT !.status = "completed", !.applied = apply]
             Passes == v = 0 \/ CanMove(level[CountAt[c]], v)
  <2>1. handler[h] \in Working /\ handler[h].op = "complete"
    BY <1>1, <1>4 DEF CompleteCount, Commits, HandlersOK
  <2>2. handler[h].seen \in CountRows /\ apply \in BOOLEAN
    BY <2>1 DEF Working
  <2>3. v \in Int
    BY <2>2 DEF CountRows
  <2>4. row \in CountRows
    <3>1. \A r \in CountRows, b \in BOOLEAN :
            [r EXCEPT !.status = "completed", !.applied = b] \in CountRows
      BY DEF CountRows
    <3> QED
      BY <1>2, <2>2, <3>1
  <2>5. CASE Passes
    <3>1. SetCount(c, row) /\ OnlyCounts /\ Hand(CountAt[c], v)
      BY <1>4, <2>5 DEF CompleteCount
    <3>2. CountAt[c] \in Levels
      BY DEF DocumentsAssumption
    <3>3. CanMove(level[CountAt[c]], v)
      <4>1. CASE v = 0
        <5>1. level[CountAt[c]].hand \in Nat
          BY <1>1, <3>2, RowNumbers DEF LevelsOK
        <5> QED
          BY <4>1, <5>1 DEF CanMove
      <4> QED
        BY <2>5, <4>1
    <3> HIDE DEF row, v
    <3>4. DocsOK' /\ LevelsOK'
      BY <1>1, <2>3, <2>4, <3>1, <3>2, <3>3, CountDocs, MoveSafe
    <3> QED
      BY <1>1, <3>4 DEF Kept
  <2>6. CASE ~Passes
    BY <1>1, <1>4, <2>6, RefusedKept DEF CompleteCount
  <2> QED
    BY <2>5, <2>6
<1> QED
  BY <1>3, <1>4

(* Requests without a document. *)
LEMMA DocsStay == DocsOK /\ UNCHANGED <<transfer, booking, adjust, count>> => DocsOK'
  BY DEF DocsOK

LEMMA DamageKept ==
  ASSUME Kept, NEW l \in Levels, NEW q \in {-1, 1}, Damage(l, q)
  PROVE  Kept'
<1> DEFINE row == level[l]
<1>1. LevelsOK /\ DocsOK /\ HandlersOK' /\ RowOK(l, row)
  BY OnceKept DEF Damage, Kept, LevelsOK
<1>2. row.hand \in Nat /\ row.reserved \in Nat /\ row.damaged \in Nat
  BY <1>1, RowNumbers
<1>3. row.hand - q \in Nat /\ row.damaged + q \in Nat
  BY <1>2 DEF Damage, CanMove
<1>4. ~Grouped(l) => row.reserved <= row.hand - q
  <2>1. ~Grouped(l) => row.reserved <= row.hand
    BY <1>1 DEF RowOK
  <2> QED
    BY <1>2, <2>1 DEF Damage, CanMove
<1>5. RowOK(l, [row EXCEPT !.hand = row.hand - q])
  BY <1>1, <1>3, <1>4, HandSafe
<1>6. RowOK(l, [[row EXCEPT !.hand = row.hand - q] EXCEPT !.damaged = row.damaged + q])
  BY <1>3, <1>5, DamageSafe
<1>7. level' = [level EXCEPT ![l] = [row EXCEPT !.hand = row.hand - q, !.damaged = row.damaged + q]]
  BY <1>1 DEF Damage, LevelsOK, Quantities
<1>8. LevelsOK'
  BY <1>1, <1>6, <1>7, OneLevel
<1>9. DocsOK'
  BY <1>1, DocsStay DEF Damage, docVars
<1> QED
  BY <1>1, <1>8, <1>9 DEF Kept

LEMMA ProductionKept ==
  ASSUME DocumentsAssumption, Kept, NEW l \in Levels, CompleteProduction(l)
  PROVE  Kept'
<1> DEFINE n(p) == level[p].hand - Parts[l][p] + (IF p = l THEN 1 ELSE 0)
<1>1. LevelsOK /\ DocsOK /\ HandlersOK'
  BY OnceKept DEF CompleteProduction, Kept
<1>2. ASSUME NEW p \in Levels PROVE RowOK(p, [level[p] EXCEPT !.hand = n(p)])
  <2>1. RowOK(p, level[p]) /\ Parts[l][p] \in Nat
    BY <1>1 DEF LevelsOK, DocumentsAssumption
  <2>2. level[p].hand \in Nat /\ level[p].reserved \in Nat
    BY <2>1, RowNumbers
  <2>3. Parts[l][p] > 0 => CanMove(level[p], -Parts[l][p])
    BY DEF CompleteProduction
  <2>4. n(p) \in Nat
    BY <2>1, <2>2, <2>3 DEF CanMove
  <2>5. ~Grouped(p) => level[p].reserved <= n(p)
    <3>1. ~Grouped(p) => level[p].reserved <= level[p].hand
      BY <2>1 DEF RowOK
    <3> QED
      BY <2>1, <2>2, <2>3, <3>1 DEF CanMove
  <2> QED
    BY <2>1, <2>4, <2>5, HandSafe
<1>3. level' = [p \in Levels |-> [level[p] EXCEPT !.hand = n(p)]]
  BY DEF CompleteProduction
<1>4. LevelsOK'
  <2>1. \A p \in Levels : RowOK(p, level'[p])
    BY <1>2, <1>3
  <2>2. level' \in [Levels -> Quantities]
    BY <1>2, <1>3 DEF RowOK
  <2> QED
    BY <2>1, <2>2 DEF LevelsOK, RowOK, Grouped
<1>5. DocsOK'
  BY <1>1, DocsStay DEF CompleteProduction
<1> QED
  BY <1>1, <1>4, <1>5 DEF Kept

LEMMA TransferStockKept ==
  ASSUME Kept, NEW l \in Levels, NEW m \in Levels, TransferStock(l, m)
  PROVE  Kept'
<1>1. LevelsOK /\ DocsOK /\ HandlersOK' /\ RowOK(l, level[l]) /\ RowOK(m, level[m]) /\ l # m
  BY OnceKept DEF TransferStock, Kept, LevelsOK
<1>2. /\ level[l].hand \in Nat /\ level[l].reserved \in Nat
      /\ level[m].hand \in Nat /\ level[m].reserved \in Nat
  BY <1>1, RowNumbers
<1>3. RowOK(l, [level[l] EXCEPT !.hand = level[l].hand - 1])
  <2>1. level[l].hand - 1 \in Nat /\ level[l].reserved <= level[l].hand - 1
    BY <1>2 DEF TransferStock, CanMove
  <2> QED
    BY <1>1, <2>1, HandSafe
<1>4. RowOK(m, [level[m] EXCEPT !.hand = level[m].hand + 1])
  <2>1. ~Grouped(m) => level[m].reserved <= level[m].hand
    BY <1>1 DEF RowOK
  <2>2. level[m].hand + 1 \in Nat /\ (~Grouped(m) => level[m].reserved <= level[m].hand + 1)
    BY <1>2, <2>1
  <2> QED
    BY <1>1, <2>2, HandSafe
<1>5. level' = [level EXCEPT ![l] = [level[l] EXCEPT !.hand = level[l].hand - 1],
                             ![m] = [level[m] EXCEPT !.hand = level[m].hand + 1]]
  BY <1>1 DEF TransferStock, LevelsOK
<1>6. LevelsOK'
  BY <1>1, <1>3, <1>4, <1>5, TwoLevels
<1>7. DocsOK'
  BY <1>1, DocsStay DEF TransferStock
<1> QED
  BY <1>1, <1>6, <1>7 DEF Kept

-----------------------------------------------------------------------------
LEMMA StepKept == DocumentsAssumption /\ Kept /\ [Next]_vars => Kept'
<1> SUFFICES ASSUME DocumentsAssumption, Kept, [Next]_vars PROVE Kept'
  OBVIOUS
<1>1. CASE UNCHANGED vars
  BY <1>1, DocsStay, LevelsStay DEF vars, docVars, Kept, HandlersOK
<1>2. ASSUME NEW h \in Handlers, Step(h) PROVE Kept'
  <2>1. ASSUME NEW t \in Transfers,
               \/ BeginIssue(h, t) \/ BeginReceive(h, t) \/ BeginCancel(h, t)
               \/ Issue(h, t) \/ Receive(h, t) \/ Cancel(h, t)
               \/ ReadLevel(h, t) \/ GroupIssue(h, t) \/ GroupReceive(h, t)
        PROVE  Kept'
    BY <2>1, BeginTransferKept, IssueKept, ReceiveKept, CancelKept, ReadLevelKept, GroupKept
  <2>2. ASSUME NEW b \in Bookings, BeginRelease(h, b) \/ Release(h, b) PROVE Kept'
    BY <2>2, BeginReleaseKept, ReleaseKept
  <2>3. ASSUME NEW a \in Adjusts,
               \/ BeginAdjust(h, a) \/ Finalize(h, a) \/ UpdateAdjust(h, a)
               \/ Annul(h, a) \/ DeleteAdjust(h, a)
        PROVE  Kept'
    BY <2>3, BeginAdjustKept, EndAdjustKept
  <2>4. ASSUME NEW c \in Counts, BeginCount(h, c) \/ UpsertLine(h, c) \/ CompleteCount(h, c)
        PROVE  Kept'
    BY <2>4, BeginCountKept, EndCountKept
  <2> QED
    BY <1>2, <2>1, <2>2, <2>3, <2>4 DEF Step
<1>3. ASSUME NEW t \in Transfers, CreateTransfer(t) PROVE Kept'
  BY <1>3, CreateTransferKept
<1>4. ASSUME NEW b \in Bookings, ReserveQty(b) PROVE Kept'
  BY <1>4, ReserveKept
<1>5. ASSUME NEW a \in Adjusts, NEW s \in {"draft", "pending", "adjusted"}, NEW q \in Deltas,
             CreateAdjust(a, s, q)
      PROVE  Kept'
  BY <1>5, CreateAdjustKept
<1>6. ASSUME NEW c \in Counts, CreateCount(c) PROVE Kept'
  BY <1>6, CreateCountKept
<1>7. ASSUME NEW l \in Levels, NEW q \in {-1, 1}, Damage(l, q) PROVE Kept'
  BY <1>7, DamageKept
<1>8. ASSUME NEW l \in Levels, CompleteProduction(l) PROVE Kept'
  BY <1>8, ProductionKept
<1>9. ASSUME NEW l \in Levels, NEW m \in Levels, TransferStock(l, m) PROVE Kept'
  BY <1>9, TransferStockKept
<1> QED
  BY <1>1, <1>2, <1>3, <1>4, <1>5, <1>6, <1>7, <1>8, <1>9 DEF Next

LEMMA KeptIsInvariant == Kept => TypeOK /\ NoOversell
  BY DEF Kept, DocsOK, HandlersOK, LevelsOK, RowOK, TypeOK, NoOversell, Grouped,
         GroupTransfers, LocalTransfers, Local

(* Every reachable state has the inductive invariant, for any number of      *)
(* handlers, documents and levels.                                           *)
THEOREM Invariance == Spec => []Kept
<1>1. Init => Kept
  BY InitKept, DocumentsAssumption
<1>2. Kept /\ [Next]_vars => Kept'
  BY StepKept, DocumentsAssumption
<1> QED
  BY <1>1, <1>2, PTL DEF Spec

(* The rows and what the handlers keep stay within their types; reserved and *)
(* damaged quantities never fall below zero.                                 *)
THEOREM TypeCorrect == Spec => []TypeOK
  BY Invariance, KeptIsInvariant, PTL

(* Whatever transfers, reservations, adjustments, counts, productions and    *)
(* returns of stale documents run at once, no level is sold below zero nor,  *)
(* where no intercompany transfer takes from it, below what is reserved.     *)
THEOREM NeverOversold == Spec => []NoOversell
  BY Invariance, KeptIsInvariant, PTL

-----------------------------------------------------------------------------
(* A second layer: what the documents explain and promise.  Each sum is an   *)
(* operator of the rows it is over, before a step and after it.              *)

Stock(row) == row.hand + row.damaged

(* What transfer t has moved at level l, when its row is row. *)
MoveOf(t, l, row) ==
  (IF TransferOf[t].to = l THEN row.received + row.damaged ELSE 0)
  - (IF TransferOf[t].from = l /\ row.issued
       THEN IF row.status = "cancelled" THEN row.received + row.damaged ELSE TransferOf[t].qty
       ELSE 0)
AdjustOf(a, l, row) == IF AdjustAt[a] = l /\ row.status = "adjusted" THEN row.qty ELSE 0
CorrectOf(c, l, row) == IF CountAt[c] = l /\ row.applied THEN row.variance ELSE 0
BookingFor(b, l, status, s) == IF BookingOf[b].lv = l /\ status = s THEN BookingOf[b].qty ELSE 0
OweOf(t, l, row) == IF Local(t) /\ TransferOf[t].to = l THEN InTransit(t, row) ELSE 0

Moved(l, rows) == SumFunction([t \in Transfers |-> MoveOf(t, l, rows[t])])
Adjusted(l, rows) ==
  SumFunction([a \in {a \in Adjusts : AdjustAt[a] = l /\ rows[a].status = "adjusted"} |-> rows[a].qty])
Corrected(l, rows) ==
  SumFunction([c \in {c \in Counts : CountAt[c] = l /\ rows[c].applied} |-> rows[c].variance])
Booked(l, rows, s) ==
  SumFunction([b \in {b \in Bookings : BookingOf[b].lv = l /\ rows[b] = s} |-> BookingOf[b].qty])
Used(l, pieces) == SumFunction([p \in Levels |-> pieces[p] * Parts[p][l]])
Owed(l, rows) ==
  SumFunction([t \in {t \in Transfers : Local(t) /\ TransferOf[t].to = l} |-> InTransit(t, rows[t])])

PiecesOK == made \in [Levels -> Nat] /\ loose \in [Levels -> Int]

LEMMA Finite ==
  /\ IsFiniteSet(Levels) /\ IsFiniteSet(Transfers) /\ IsFiniteSet(Bookings)
  /\ IsFiniteSet(Adjusts) /\ IsFiniteSet(Counts)
BY DocumentsAssumption DEF DocumentsAssumption

LEMMA Constants ==
  /\ \A t \in Transfers : /\ TransferOf[t].from \in Levels /\ TransferOf[t].to \in Levels
                          /\ TransferOf[t].from # TransferOf[t].to
                          /\ TransferOf[t].qty \in Nat \ {0}
  /\ \A b \in Bookings : BookingOf[b].lv \in Levels /\ BookingOf[b].qty \in Nat \ {0}
  /\ \A a \in Adjusts : AdjustAt[a] \in Levels
  /\ \A c \in Counts : CountAt[c] \in Levels
  /\ \A p \in Levels, l \in Levels : Parts[p][l] \in Nat
  /\ \A l \in Levels : Opening[l] \in Nat
BY DocumentsAssumption DEF DocumentsAssumption

LEMMA MoveTyped ==
  ASSUME NEW t \in Transfers, NEW l, NEW row \in TransferRows
  PROVE  MoveOf(t, l, row) \in Int /\ (l \notin {TransferOf[t].from, TransferOf[t].to} => MoveOf(t, l, row) = 0)
BY Constants DEF MoveOf, TransferRows

LEMMA OweTyped ==
  ASSUME NEW t \in Transfers, NEW row \in TransferRows
  PROVE  InTransit(t, row) \in Int
BY Constants DEF InTransit, TransferRows

LEMMA MovedChanges ==
  ASSUME NEW rows \in [Transfers -> TransferRows], NEW t \in Transfers, NEW row \in TransferRows, NEW l,
         NEW new, new = [rows EXCEPT ![t] = row]
  PROVE  Moved(l, new) = Moved(l, rows) - MoveOf(t, l, rows[t]) + MoveOf(t, l, row)
<1> DEFINE f == [x \in Transfers |-> MoveOf(x, l, rows[x])]
           g == [x \in Transfers |-> MoveOf(x, l, new[x])]
<1>1. Numbers(f, Transfers) /\ Numbers(g, Transfers) /\ SameBut(f, g, Transfers, t)
  BY MoveTyped DEF Numbers, SameBut
<1>2. ValueAt(f, t) = MoveOf(t, l, rows[t]) /\ ValueAt(g, t) = MoveOf(t, l, row)
  BY DEF ValueAt
<1>3. Moved(l, rows) = SumFunction(f) /\ Moved(l, new) = SumFunction(g)
  BY DEF Moved
<1> HIDE DEF f, g
<1>4. SumFunction(g) = SumFunction(f) - ValueAt(f, t) + ValueAt(g, t)
  BY <1>1, Finite, SumOneRow
<1> QED BY <1>2, <1>3, <1>4

LEMMA MovedTyped ==
  ASSUME NEW rows \in [Transfers -> TransferRows], NEW l
  PROVE  Moved(l, rows) \in Int
<1> DEFINE f == [x \in Transfers |-> MoveOf(x, l, rows[x])]
<1>1. f \in [Transfers -> Int]
  BY MoveTyped
<1>2. SumFunction(f) \in Int
  <2> HIDE DEF f
  <2> QED BY <1>1, Finite, SumInt
<1> QED BY <1>2 DEF Moved

LEMMA OwedChanges ==
  ASSUME NEW rows \in [Transfers -> TransferRows], NEW t \in Transfers, NEW row \in TransferRows, NEW l,
         NEW new, new = [rows EXCEPT ![t] = row]
  PROVE  Owed(l, new) = Owed(l, rows) - OweOf(t, l, rows[t]) + OweOf(t, l, row)
<1> DEFINE R == {x \in Transfers : Local(x) /\ TransferOf[x].to = l}
           f == [x \in R |-> InTransit(x, rows[x])]
           g == [x \in R |-> InTransit(x, new[x])]
<1>1. Numbers(f, Transfers) /\ Numbers(g, Transfers) /\ SameBut(f, g, Transfers, t)
  BY OweTyped DEF Numbers, SameBut
<1>2. ValueAt(f, t) = OweOf(t, l, rows[t]) /\ ValueAt(g, t) = OweOf(t, l, row)
  BY DEF ValueAt, OweOf
<1>3. Owed(l, rows) = SumFunction(f) /\ Owed(l, new) = SumFunction(g)
  BY DEF Owed
<1> HIDE DEF f, g
<1>4. SumFunction(g) = SumFunction(f) - ValueAt(f, t) + ValueAt(g, t)
  BY <1>1, Finite, SumOneRow
<1> QED BY <1>2, <1>3, <1>4

LEMMA OwedTyped ==
  ASSUME NEW rows \in [Transfers -> TransferRows], NEW l
  PROVE  Owed(l, rows) \in Int
<1> DEFINE R == {x \in Transfers : Local(x) /\ TransferOf[x].to = l}
           f == [x \in R |-> InTransit(x, rows[x])]
<1>1. f \in [R -> Int] /\ IsFiniteSet(R)
  BY OweTyped, Finite, FS_Subset
<1>2. SumFunction(f) \in Int
  <2> HIDE DEF f, R
  <2> QED BY <1>1, SumInt
<1> QED BY <1>2 DEF Owed

LEMMA AdjustedChanges ==
  ASSUME NEW rows \in [Adjusts -> AdjustRows], NEW a \in Adjusts, NEW row \in AdjustRows, NEW l,
         NEW new, new = [rows EXCEPT ![a] = row]
  PROVE  Adjusted(l, new) = Adjusted(l, rows) - AdjustOf(a, l, rows[a]) + AdjustOf(a, l, row)
<1> DEFINE f == [x \in {x \in Adjusts : AdjustAt[x] = l /\ rows[x].status = "adjusted"} |-> rows[x].qty]
           g == [x \in {x \in Adjusts : AdjustAt[x] = l /\ new[x].status = "adjusted"} |-> new[x].qty]
<1>1. \A x \in Adjusts : rows[x].qty \in Int /\ new[x].qty \in Int
  BY DEF AdjustRows
<1>2. Numbers(f, Adjusts) /\ Numbers(g, Adjusts) /\ SameBut(f, g, Adjusts, a)
  BY <1>1 DEF Numbers, SameBut
<1>3. ValueAt(f, a) = AdjustOf(a, l, rows[a]) /\ ValueAt(g, a) = AdjustOf(a, l, row)
  BY DEF ValueAt, AdjustOf
<1>4. Adjusted(l, rows) = SumFunction(f) /\ Adjusted(l, new) = SumFunction(g)
  BY DEF Adjusted
<1> HIDE DEF f, g
<1>5. SumFunction(g) = SumFunction(f) - ValueAt(f, a) + ValueAt(g, a)
  BY <1>2, Finite, SumOneRow
<1> QED BY <1>3, <1>4, <1>5

LEMMA AdjustedTyped ==
  ASSUME NEW rows \in [Adjusts -> AdjustRows], NEW l
  PROVE  Adjusted(l, rows) \in Int
<1> DEFINE R == {x \in Adjusts : AdjustAt[x] = l /\ rows[x].status = "adjusted"}
           f == [x \in R |-> rows[x].qty]
<1>1. \A x \in Adjusts : rows[x].qty \in Int
  BY DEF AdjustRows
<1>2. f \in [R -> Int] /\ IsFiniteSet(R)
  BY <1>1, Finite, FS_Subset
<1>3. SumFunction(f) \in Int
  <2> HIDE DEF f, R
  <2> QED BY <1>2, SumInt
<1> QED BY <1>3 DEF Adjusted

LEMMA CorrectedChanges ==
  ASSUME NEW rows \in [Counts -> CountRows], NEW c \in Counts, NEW row \in CountRows, NEW l,
         NEW new, new = [rows EXCEPT ![c] = row]
  PROVE  Corrected(l, new) = Corrected(l, rows) - CorrectOf(c, l, rows[c]) + CorrectOf(c, l, row)
<1> DEFINE f == [x \in {x \in Counts : CountAt[x] = l /\ rows[x].applied} |-> rows[x].variance]
           g == [x \in {x \in Counts : CountAt[x] = l /\ new[x].applied} |-> new[x].variance]
<1>1. \A x \in Counts : rows[x].variance \in Int /\ new[x].variance \in Int
  BY DEF CountRows
<1>2. Numbers(f, Counts) /\ Numbers(g, Counts) /\ SameBut(f, g, Counts, c)
  BY <1>1 DEF Numbers, SameBut
<1>3. ValueAt(f, c) = CorrectOf(c, l, rows[c]) /\ ValueAt(g, c) = CorrectOf(c, l, row)
  BY DEF ValueAt, CorrectOf
<1>4. Corrected(l, rows) = SumFunction(f) /\ Corrected(l, new) = SumFunction(g)
  BY DEF Corrected
<1> HIDE DEF f, g
<1>5. SumFunction(g) = SumFunction(f) - ValueAt(f, c) + ValueAt(g, c)
  BY <1>2, Finite, SumOneRow
<1> QED BY <1>3, <1>4, <1>5

LEMMA CorrectedTyped ==
  ASSUME NEW rows \in [Counts -> CountRows], NEW l
  PROVE  Corrected(l, rows) \in Int
<1> DEFINE R == {x \in Counts : CountAt[x] = l /\ rows[x].applied}
           f == [x \in R |-> rows[x].variance]
<1>1. \A x \in Counts : rows[x].variance \in Int
  BY DEF CountRows
<1>2. f \in [R -> Int] /\ IsFiniteSet(R)
  BY <1>1, Finite, FS_Subset
<1>3. SumFunction(f) \in Int
  <2> HIDE DEF f, R
  <2> QED BY <1>2, SumInt
<1> QED BY <1>3 DEF Corrected

(* The rows of the bookings before and after b has another status. *)
Rebooked(rows, new, b, status) == DOMAIN rows = Bookings /\ new = [rows EXCEPT ![b] = status]

LEMMA BookedChanges ==
  ASSUME NEW rows, NEW new, NEW b \in Bookings, NEW status, Rebooked(rows, new, b, status), NEW l, NEW s
  PROVE  Booked(l, new, s) = Booked(l, rows, s) - BookingFor(b, l, rows[b], s) + BookingFor(b, l, status, s)
<1> DEFINE f == [x \in {x \in Bookings : BookingOf[x].lv = l /\ rows[x] = s} |-> BookingOf[x].qty]
           g == [x \in {x \in Bookings : BookingOf[x].lv = l /\ new[x] = s} |-> BookingOf[x].qty]
<1>1. \A x \in Bookings : BookingOf[x].qty \in Int /\ (x # b => new[x] = rows[x])
  BY Constants DEF Rebooked
<1>2. Numbers(f, Bookings) /\ Numbers(g, Bookings) /\ SameBut(f, g, Bookings, b)
  BY <1>1 DEF Numbers, SameBut
<1>3. ValueAt(f, b) = BookingFor(b, l, rows[b], s) /\ ValueAt(g, b) = BookingFor(b, l, status, s)
  BY DEF ValueAt, BookingFor, Rebooked
<1>4. Booked(l, rows, s) = SumFunction(f) /\ Booked(l, new, s) = SumFunction(g)
  BY DEF Booked
<1> HIDE DEF f, g
<1>5. SumFunction(g) = SumFunction(f) - ValueAt(f, b) + ValueAt(g, b)
  BY <1>2, Finite, SumOneRow
<1> QED BY <1>3, <1>4, <1>5

LEMMA BookedTyped ==
  ASSUME NEW rows, NEW l, NEW s
  PROVE  Booked(l, rows, s) \in Int
<1> DEFINE R == {x \in Bookings : BookingOf[x].lv = l /\ rows[x] = s}
           f == [x \in R |-> BookingOf[x].qty]
<1>1. f \in [R -> Int] /\ IsFiniteSet(R)
  BY Constants, Finite, FS_Subset
<1>2. SumFunction(f) \in Int
  <2> HIDE DEF f, R
  <2> QED BY <1>1, SumInt
<1> QED BY <1>2 DEF Booked

LEMMA UsedTyped ==
  ASSUME NEW pieces \in [Levels -> Nat], NEW l \in Levels
  PROVE  Used(l, pieces) \in Int
<1> DEFINE f == [p \in Levels |-> pieces[p] * Parts[p][l]]
<1>1. \A p \in Levels : pieces[p] \in Nat /\ Parts[p][l] \in Nat
  BY Constants
<1>2. \A m \in Nat, n \in Nat : m * n \in Int
  OBVIOUS
<1>3. f \in [Levels -> Int]
  BY <1>1, <1>2
<1>4. SumFunction(f) \in Int
  <2> HIDE DEF f
  <2> QED BY <1>3, Finite, SumInt
<1> QED BY <1>4 DEF Used

LEMMA UsedGrows ==
  ASSUME NEW pieces \in [Levels -> Nat], NEW l \in Levels, NEW p \in Levels,
         NEW new, new = [pieces EXCEPT ![p] = @ + 1]
  PROVE  Used(l, new) = Used(l, pieces) + Parts[p][l]
<1> DEFINE f == [x \in Levels |-> pieces[x] * Parts[x][l]]
           g == [x \in Levels |-> new[x] * Parts[x][l]]
<1>1. \A x \in Levels : pieces[x] \in Nat /\ Parts[x][l] \in Nat /\ new[x] \in Nat
  BY Constants
<1>2. \A m \in Nat, n \in Nat : m * n \in Int /\ (m + 1) * n = m * n + n
  OBVIOUS
<1>3. Numbers(f, Levels) /\ Numbers(g, Levels) /\ SameBut(f, g, Levels, p)
  BY <1>1, <1>2 DEF Numbers, SameBut
<1>4. ValueAt(g, p) = ValueAt(f, p) + Parts[p][l] /\ ValueAt(f, p) \in Int /\ Parts[p][l] \in Int
  BY <1>1, <1>2 DEF ValueAt
<1>5. Used(l, pieces) = SumFunction(f) /\ Used(l, new) = SumFunction(g)
  BY DEF Used
<1>6. SumFunction(f) \in Int
  BY <1>5, UsedTyped
<1> HIDE DEF f, g
<1>7. SumFunction(g) = SumFunction(f) - ValueAt(f, p) + ValueAt(g, p)
  BY <1>3, Finite, SumOneRow
<1> QED BY <1>4, <1>5, <1>6, <1>7

-----------------------------------------------------------------------------
(* What the documents say of themselves, unless two requests raced on one.   *)

TransferOps == {"issue", "receive", "cancel", "writeIssue", "writeReceive"}
AdjustOps == {"finalize", "annul", "delete", "update"}
CountOps == {"upsert", "complete"}

TransferRight(t, row) ==
  /\ row.status \in {"none", "draft", "pending_approval"} =>
       ~row.issued /\ row.received = 0 /\ row.damaged = 0
  /\ row.status \in {"in_transit", "partially_received"} =>
       /\ row.issued /\ row.damaged = 0 /\ row.received <= TransferOf[t].qty
       /\ ~Local(t) => row.received = 0

(* A movement has a key once it is applied, and none before. *)
NoKeys(a) == \A g \in Nat, d \in {"apply", "reverse"} : <<a, g, d>> \notin keys
KeysRight(a, row) ==
  /\ row.status \in {"none", "draft", "pending"} => NoKeys(a)
  /\ row.status = "adjusted" => /\ row.qty # 0 => <<a, row.gen, "apply">> \in keys
                                /\ \A g \in Nat : <<a, g, "reverse">> \notin keys

CountRight(row) == row.status # "completed" => ~row.applied

DocsRight ==
  /\ \A t \in Transfers : t \notin raced => TransferRight(t, transfer[t])
  /\ \A a \in Adjusts : a \notin raced => KeysRight(a, adjust[a])
  /\ \A c \in Counts : c \notin raced => CountRight(count[c])

ReceiptFits(t, row, r) ==
  LET left == TransferOf[t].qty - row.received IN
  /\ r.take + r.damaged <= left
  /\ r.damaged > 0 => r.take + r.damaged = left

(* What a handler has read of its document still holds. *)
SeenTransfer(s, row) ==
  /\ s.op \in {"issue", "writeIssue"} => row.status = "draft"
  /\ s.op \in {"receive", "writeReceive"} => row.status \in {"in_transit", "partially_received"}
  /\ s.op = "receive" /\ Local(s.id) => ReceiptFits(s.id, row, s.arg)
  /\ s.op = "cancel" => s.seen = row /\ row.status \notin {"none", "received"}
SeenAdjust(s, row) ==
  /\ s.op = "finalize" => row.status \in {"draft", "pending", "adjusted"}
  /\ s.op = "annul" => s.seen = row /\ row.status \in {"draft", "pending", "adjusted"}
  /\ s.op \in {"delete", "update"} => row.status = "draft"
SeenOK(s) ==
  s.op # "idle" /\ s.id \notin raced =>
    /\ s.op \in TransferOps => s.id \in Transfers /\ SeenTransfer(s, transfer[s.id])
    /\ s.op = "release" => s.id \in Bookings /\ booking[s.id] = "active"
    /\ s.op \in AdjustOps => s.id \in Adjusts /\ SeenAdjust(s, adjust[s.id])
    /\ s.op \in CountOps => /\ s.id \in Counts /\ s.seen = count[s.id]
                            /\ count[s.id].status = "in_progress"

HandlersSeen == \A h \in Handlers : SeenOK(handler[h])

(* Two handlers of one document know it, but for two that finalize. *)
Apart(s, o) ==
  s.op # "idle" /\ o.op # "idle" /\ s.id = o.id =>
    s.id \in raced \/ (s.op = "finalize" /\ o.op = "finalize")
HandlersApart == \A g, h \in Handlers : g # h => Apart(handler[g], handler[h])

Inbound(l) == {t \in Transfers : Local(t) /\ TransferOf[t].to = l}
HeldAt(l) == {b \in Bookings : BookingOf[b].lv = l}

Explains(l) ==
  Touching(l) \cap raced = {} /\ l \notin lost => Stock(level[l]) = Explained(l)
Promises(l) ==
  /\ Inbound(l) \cap raced = {} => level[l].transit = Owed(l, transfer)
  /\ HeldAt(l) \cap raced = {} => level[l].reserved = Booked(l, booking, "active")

Told == PiecesOK /\ DocsRight /\ HandlersSeen /\ HandlersApart
Agreed == \A l \in Levels : Explains(l) /\ Promises(l)

(* The inductive invariant of both. *)
DInv == Kept /\ Told /\ Agreed

LEMMA ExplainedIs ==
  ASSUME NEW l
  PROVE  /\ Explained(l) = Opening[l] + loose[l] + made[l] + Moved(l, transfer) + Adjusted(l, adjust)
                             + Corrected(l, count) - Booked(l, booking, "consumed") - Used(l, made)
         /\ Explained(l)' = Opening[l] + loose'[l] + made'[l] + Moved(l, transfer') + Adjusted(l, adjust')
                             + Corrected(l, count') - Booked(l, booking', "consumed") - Used(l, made')
BY DEF Explained, SumOf, Moved, Adjusted, Corrected, Booked, Used, MoveOf, Got, Given

LEMMA DInvIs == DInv => StockExplained /\ PromisesAgree
<1> SUFFICES ASSUME DInv PROVE StockExplained /\ PromisesAgree
  OBVIOUS
<1>1. StockExplained
  BY DEF DInv, Agreed, Explains, StockExplained, Stock
<1>2. PromisesAgree
  BY DEF DInv, Agreed, Promises, PromisesAgree, Inbound, HeldAt, Owed, Booked, SumOf
<1> QED BY <1>1, <1>2

LEMMA Busy ==
  ASSUME HandlersOK, NEW h \in Handlers
  PROVE  handler[h] # Idle => handler[h].op # "idle"
BY DEF HandlersOK, Working

(* A level whose sum is explained after a step that moved d pieces. *)
LEMMA ExplainsMoves ==
  ASSUME NEW l \in Levels, Explains(l), raced \subseteq raced', lost \subseteq lost', NEW d \in Int,
         Touching(l) \cap raced' = {} /\ l \notin lost' => Stock(level'[l]) = Stock(level[l]) + d,
         Touching(l) \cap raced' = {} /\ l \notin lost' => Explained(l)' = Explained(l) + d
  PROVE  Explains(l)'
<1> SUFFICES ASSUME Touching(l) \cap raced' = {}, l \notin lost' PROVE Stock(level'[l]) = Explained(l)'
  BY DEF Explains, Touching, Stock
<1>1. Stock(level[l]) = Explained(l)
  BY DEF Explains
<1> QED BY <1>1

(* The sums are integers. *)
LEMMA SumsTyped ==
  ASSUME DocsOK, PiecesOK, NEW l \in Levels
  PROVE  /\ Opening[l] \in Int /\ loose[l] \in Int /\ made[l] \in Int /\ Moved(l, transfer) \in Int
         /\ Adjusted(l, adjust) \in Int /\ Corrected(l, count) \in Int
         /\ Booked(l, booking, "consumed") \in Int /\ Used(l, made) \in Int
         /\ Owed(l, transfer) \in Int /\ Booked(l, booking, "active") \in Int
BY Constants, MovedTyped, AdjustedTyped, CorrectedTyped, BookedTyped, UsedTyped, OwedTyped DEF DocsOK, PiecesOK

LEMMA StockTyped ==
  ASSUME LevelsOK, NEW l \in Levels
  PROVE  /\ level[l] \in Quantities /\ Stock(level[l]) \in Int /\ level[l].transit \in Int
         /\ level[l].hand \in Int /\ level[l].damaged \in Int /\ level[l].reserved \in Int
BY DEF LevelsOK, Quantities, Stock

(* What a handler has seen holds as long as its row is the same. *)
LEMMA SeenStays ==
  ASSUME NEW s, SeenOK(s), raced \subseteq raced',
         s.op \in TransferOps /\ s.id \in Transfers /\ s.id \notin raced' => transfer'[s.id] = transfer[s.id],
         s.op = "release" /\ s.id \in Bookings /\ s.id \notin raced' => booking'[s.id] = booking[s.id],
         s.op \in AdjustOps /\ s.id \in Adjusts /\ s.id \notin raced' => SeenAdjust(s, adjust'[s.id]),
         s.op \in CountOps /\ s.id \in Counts /\ s.id \notin raced' => count'[s.id] = count[s.id]
  PROVE  SeenOK(s)'
<1> SUFFICES ASSUME s.op # "idle", s.id \notin raced'
             PROVE  /\ s.op \in TransferOps => s.id \in Transfers /\ SeenTransfer(s, transfer'[s.id])
                    /\ s.op = "release" => s.id \in Bookings /\ booking'[s.id] = "active"
                    /\ s.op \in AdjustOps => s.id \in Adjusts /\ SeenAdjust(s, adjust'[s.id])
                    /\ s.op \in CountOps => /\ s.id \in Counts /\ s.seen = count'[s.id]
                                            /\ count'[s.id].status = "in_progress"
  BY DEF SeenOK
<1>1. /\ s.op \in TransferOps => s.id \in Transfers /\ SeenTransfer(s, transfer[s.id])
      /\ s.op = "release" => s.id \in Bookings /\ booking[s.id] = "active"
      /\ s.op \in AdjustOps => s.id \in Adjusts /\ SeenAdjust(s, adjust[s.id])
      /\ s.op \in CountOps => s.id \in Counts /\ s.seen = count[s.id] /\ count[s.id].status = "in_progress"
  BY DEF SeenOK
<1> QED BY <1>1

LEMMA AgreedStays ==
  ASSUME Agreed, Kept, PiecesOK, raced \subseteq raced', lost \subseteq lost',
         UNCHANGED <<level, transfer, booking, adjust, count, made, loose>>
  PROVE  Agreed'
<1> SUFFICES ASSUME NEW l \in Levels PROVE Explains(l)' /\ Promises(l)'
  BY DEF Agreed
<1>1. Explains(l) /\ Promises(l)
  BY DEF Agreed
<1>2. Explained(l)' = Explained(l)
  BY ExplainedIs
<1>3. Explains(l)'
  BY <1>1, <1>2 DEF Explains, Touching, Stock
<1>4. Promises(l)'
  BY <1>1 DEF Promises, Inbound, HeldAt, Local
<1> QED BY <1>3, <1>4

LEMMA RightStays ==
  ASSUME PiecesOK, DocsRight, raced \subseteq raced', UNCHANGED docVars
  PROVE  PiecesOK' /\ DocsRight'
BY DEF PiecesOK, DocsRight, docVars, KeysRight, NoKeys

(* A request begins. *)
LEMMA Begun ==
  ASSUME DInv, NEW h \in Handlers, NEW op, NEW id, NEW seen, NEW arg, Begin(h, op, id, seen, arg),
         op # "idle", NEW s, s = [op |-> op, id |-> id, seen |-> seen, arg |-> arg], SeenOK(s)
  PROVE  Told' /\ Agreed'
<1>0. Kept /\ Told /\ Agreed /\ HandlersOK
  BY DEF DInv, Kept
<1>1. /\ handler' = [handler EXCEPT ![h] = s] /\ UNCHANGED <<level, docVars, lost>> /\ raced \subseteq raced'
      /\ s.op = op /\ s.id = id
  BY DEF Begin
<1>2. ASSUME NEW o \in Handlers, handler[o].op # "idle", handler[o].id = id,
             ~(op = "finalize" /\ handler[o].op = "finalize")
      PROVE  id \in raced'
  <2>1. handler[o] # Idle
    BY <1>2 DEF Idle
  <2>2. {op, handler[o].op} # {"finalize"}
    BY <1>2
  <2> QED BY <1>2, <2>1, <2>2 DEF Begin
<1>3. handler'[h] = s /\ \A o \in Handlers \ {h} : handler'[o] = handler[o]
  BY <1>0, <1>1 DEF HandlersOK
<1>4. Agreed' /\ PiecesOK' /\ DocsRight'
  BY <1>0, <1>1, AgreedStays, RightStays DEF Told, docVars
<1>5. ASSUME NEW t, SeenOK(t) PROVE SeenOK(t)'
  BY <1>1, <1>5 DEF SeenOK, docVars
<1>6. HandlersSeen'
  <2> SUFFICES ASSUME NEW o \in Handlers PROVE SeenOK(handler[o])'
    BY DEF HandlersSeen
  <2>1. PICK t : t = IF o = h THEN s ELSE handler[o]
    OBVIOUS
  <2>2. SeenOK(t)
    BY <1>0, <2>1 DEF Told, HandlersSeen
  <2>3. SeenOK(t)' /\ t = handler'[o]
    BY <1>3, <1>5, <2>1, <2>2
  <2> QED BY <2>3
<1>7. HandlersApart'
  <2> SUFFICES ASSUME NEW f \in Handlers, NEW g \in Handlers, f # g
               PROVE  Apart(handler[f], handler[g])'
    BY DEF HandlersApart
  <2>1. PICK u, v : u = handler'[f] /\ v = handler'[g]
    OBVIOUS
  <2>2. CASE f # h /\ g # h
    BY <1>0, <1>1, <1>3, <2>1, <2>2 DEF Told, HandlersApart, Apart
  <2>3. CASE f = h
    BY <1>1, <1>2, <1>3, <2>1, <2>3 DEF Apart
  <2>4. CASE g = h
    BY <1>1, <1>2, <1>3, <2>1, <2>4 DEF Apart
  <2> QED BY <2>2, <2>3, <2>4
<1> QED BY <1>4, <1>6, <1>7 DEF Told

(* The transaction of a handler: the others have other documents, or know,   *)
(* or finalize the same adjustment.                                          *)
LEMMA HandlersEnd ==
  ASSUME DInv, NEW h \in Handlers, NEW op, NEW id, Commits(h, op, id), op # "idle",
         \A t \in Transfers : t # id => transfer'[t] = transfer[t],
         \A b \in Bookings : b # id => booking'[b] = booking[b],
         \A a \in Adjusts : a # id => adjust'[a] = adjust[a],
         \A c \in Counts : c # id => count'[c] = count[c],
         op = "finalize" /\ id \notin raced => adjust'[id].status \in {"draft", "pending", "adjusted"}
  PROVE  HandlersSeen' /\ HandlersApart'
<1>0. Kept /\ Told /\ Agreed /\ HandlersOK
  BY DEF DInv, Kept
<1>1. /\ raced' = raced /\ handler[h].op = op /\ handler[h].id = id
      /\ handler' = [handler EXCEPT ![h] = Idle]
  BY DEF Commits
<1>2. handler'[h] = Idle /\ \A o \in Handlers \ {h} : handler'[o] = handler[o]
  BY <1>0, <1>1 DEF HandlersOK
<1>3. HandlersApart'
  <2> SUFFICES ASSUME NEW f \in Handlers, NEW g \in Handlers, f # g
               PROVE  Apart(handler[f], handler[g])'
    BY DEF HandlersApart
  <2>1. CASE f # h /\ g # h
    BY <1>0, <1>1, <1>2, <2>1 DEF Told, HandlersApart, Apart
  <2>2. CASE f = h \/ g = h
    BY <1>2, <2>2 DEF Apart, Idle
  <2> QED BY <2>1, <2>2
<1>4. ASSUME NEW o \in Handlers \ {h} PROVE SeenOK(handler[o])'
  <2>1. PICK s : s = handler[o]
    OBVIOUS
  <2>2. SeenOK(s) /\ Apart(handler[h], s)
    BY <1>0, <2>1 DEF Told, HandlersSeen, HandlersApart
  <2>3. SeenOK(s)'
    <3>1. CASE s.op = "idle" \/ s.id \in raced
      BY <1>1, <3>1 DEF SeenOK
    <3>2. CASE s.op # "idle" /\ s.id \notin raced /\ s.id # id
      BY <1>1, <2>2, <3>2, SeenStays DEF SeenOK
    <3>3. CASE s.op # "idle" /\ s.id \notin raced /\ s.id = id
      <4>1. op = "finalize" /\ s.op = "finalize"
        BY <1>1, <2>2, <3>3 DEF Apart
      <4>2. SeenAdjust(s, adjust'[id])
        BY <3>3, <4>1 DEF SeenAdjust
      <4>3. s.op \notin TransferOps /\ s.op # "release" /\ s.op \notin CountOps
        BY <4>1 DEF TransferOps, CountOps
      <4> QED BY <1>1, <2>2, <3>3, <4>2, <4>3, SeenStays
    <3> QED BY <3>1, <3>2, <3>3
  <2>4. s = handler'[o]
    BY <1>2, <2>1
  <2> QED BY <2>3, <2>4
<1>5. SeenOK(handler[h])'
  BY <1>2 DEF SeenOK, Idle
<1> QED BY <1>3, <1>4, <1>5 DEF HandlersSeen

(* A request without a handler makes a document that there was not. *)
LEMMA HandlersOnce ==
  ASSUME DInv, UNCHANGED <<handler, raced>>,
         \A t \in Transfers : transfer[t].status = "none" \/ transfer'[t] = transfer[t],
         \A b \in Bookings : booking[b] = "none" \/ booking'[b] = booking[b],
         \A a \in Adjusts : adjust[a].status = "none" \/ adjust'[a] = adjust[a],
         \A c \in Counts : count[c].status = "none" \/ count'[c] = count[c]
  PROVE  HandlersSeen' /\ HandlersApart'
<1>0. Kept /\ Told /\ Agreed /\ HandlersOK
  BY DEF DInv, Kept
<1>1. HandlersApart'
  BY <1>0 DEF Told, HandlersApart, Apart
<1>2. ASSUME NEW o \in Handlers PROVE SeenOK(handler[o])'
  <2>1. PICK s : s = handler[o]
    OBVIOUS
  <2>2. SeenOK(s)
    BY <1>0, <2>1 DEF Told, HandlersSeen
  <2>3. CASE s.op = "idle" \/ s.id \in raced
    BY <2>1, <2>3 DEF SeenOK
  <2>4. CASE s.op # "idle" /\ s.id \notin raced
    <3>1. s.op \in TransferOps => transfer'[s.id] = transfer[s.id]
      BY <2>2, <2>4 DEF SeenOK, SeenTransfer, TransferOps
    <3>2. s.op = "release" => booking'[s.id] = booking[s.id]
      BY <2>2, <2>4 DEF SeenOK
    <3>3. s.op \in AdjustOps => SeenAdjust(s, adjust'[s.id])
      BY <2>2, <2>4 DEF SeenOK, SeenAdjust, AdjustOps
    <3>4. s.op \in CountOps => count'[s.id] = count[s.id]
      BY <2>2, <2>4 DEF SeenOK
    <3>5. SeenOK(s)'
      BY <2>2, <2>4, <3>1, <3>2, <3>3, <3>4, SeenStays
    <3> QED BY <2>1, <3>5
  <2> QED BY <2>3, <2>4
<1> QED BY <1>1, <1>2 DEF HandlersSeen

(* The transaction changes nothing. *)
LEMMA RefusedTold ==
  ASSUME DInv, NEW h \in Handlers, NEW op, NEW id, Commits(h, op, id), op # "idle", Refused
  PROVE  Told' /\ Agreed'
<1>0. Kept /\ Told /\ Agreed
  BY DEF DInv
<1>1. /\ raced' = raced /\ UNCHANGED <<level, docVars, lost>>
      /\ handler[h].op = op /\ handler[h].id = id
  BY DEF Commits, Refused
<1>2. op = "finalize" /\ id \notin raced => adjust'[id].status \in {"draft", "pending", "adjusted"}
  BY <1>0, <1>1 DEF Told, HandlersSeen, SeenOK, SeenAdjust, AdjustOps, docVars
<1>3. HandlersSeen' /\ HandlersApart'
  BY <1>1, <1>2, HandlersEnd DEF docVars
<1>4. PiecesOK' /\ DocsRight'
  BY <1>0, <1>1, RightStays DEF Told
<1>5. Agreed'
  BY <1>0, <1>1, AgreedStays DEF Told, docVars
<1> QED BY <1>3, <1>4, <1>5 DEF Told

-----------------------------------------------------------------------------
(* Transfers.                                                                *)

LEMMA TransferTold ==
  ASSUME DInv, NEW h \in Handlers, NEW op \in TransferOps, NEW t \in Transfers, Commits(h, op, t),
         NEW row, SetTransfer(t, row), OnlyTransfers, t \notin raced => TransferRight(t, row)
  PROVE  Told'
<1>0. Kept /\ Told /\ Agreed /\ DocsOK
  BY DEF DInv, Kept
<1>1. transfer' = [transfer EXCEPT ![t] = row] /\ raced' = raced
  BY DEF SetTransfer, Commits
<1>2. \A x \in Transfers : x # t => transfer'[x] = transfer[x]
  BY <1>1
<1>3. HandlersSeen' /\ HandlersApart'
  <2>1. op # "idle" /\ op # "finalize"
    BY DEF TransferOps
  <2> QED BY <1>2, <2>1, HandlersEnd DEF OnlyTransfers
<1>4. PiecesOK'
  BY <1>0 DEF Told, PiecesOK, OnlyTransfers
<1>5. DocsRight'
  <2>1. ASSUME NEW x \in Transfers, x \notin raced PROVE TransferRight(x, transfer'[x])
    <3>1. CASE x = t
      BY <1>0, <1>1, <2>1, <3>1 DEF DocsOK
    <3>2. CASE x # t
      BY <1>0, <1>2, <2>1, <3>2 DEF Told, DocsRight
    <3> QED BY <3>1, <3>2
  <2> QED BY <1>0, <1>1, <2>1 DEF Told, DocsRight, OnlyTransfers, KeysRight, NoKeys
<1> QED BY <1>3, <1>4, <1>5 DEF Told

LEMMA TransferAgreed ==
  ASSUME Kept, PiecesOK, Agreed, NEW t \in Transfers, NEW row \in TransferRows, SetTransfer(t, row), OnlyTransfers,
         raced' = raced, lost \subseteq lost',
         \A l \in Levels : l \notin {TransferOf[t].from, TransferOf[t].to} => level'[l] = level[l],
         \A l \in Levels : level'[l].reserved = level[l].reserved,
         t \notin raced =>
           \A l \in {TransferOf[t].from, TransferOf[t].to} : l \notin lost' =>
             Stock(level'[l]) = Stock(level[l]) - MoveOf(t, l, transfer[t]) + MoveOf(t, l, row),
         \A l \in Levels : level'[l].transit = level[l].transit \/ (Local(t) /\ l = TransferOf[t].to),
         ~Local(t) => level'[TransferOf[t].to].transit = level[TransferOf[t].to].transit,
         t \notin raced /\ Local(t) =>
           level'[TransferOf[t].to].transit
             = level[TransferOf[t].to].transit - InTransit(t, transfer[t]) + InTransit(t, row)
  PROVE  Agreed'
<1>0. LevelsOK /\ DocsOK /\ transfer \in [Transfers -> TransferRows] /\ transfer[t] \in TransferRows
  BY DEF Kept, DocsOK
<1>1. PICK old : old = transfer[t]
  OBVIOUS
<1>2. old \in TransferRows /\ transfer' = [transfer EXCEPT ![t] = row]
  BY <1>0, <1>1 DEF SetTransfer
<1> SUFFICES ASSUME NEW l \in Levels PROVE Explains(l)' /\ Promises(l)'
  BY DEF Agreed
<1>3. Explains(l) /\ Promises(l)
  BY DEF Agreed
<1>4. Moved(l, transfer') = Moved(l, transfer) - MoveOf(t, l, old) + MoveOf(t, l, row)
  <2>1. PICK rows, new : rows = transfer /\ new = transfer'
    OBVIOUS
  <2>2. rows \in [Transfers -> TransferRows] /\ new = [rows EXCEPT ![t] = row] /\ rows[t] = old
    BY <1>0, <1>1, <1>2, <2>1
  <2>3. Moved(l, new) = Moved(l, rows) - MoveOf(t, l, rows[t]) + MoveOf(t, l, row)
    BY <2>2, MovedChanges
  <2> QED BY <2>1, <2>2, <2>3
<1>5. Owed(l, transfer') = Owed(l, transfer) - OweOf(t, l, old) + OweOf(t, l, row)
  <2>1. PICK rows, new : rows = transfer /\ new = transfer'
    OBVIOUS
  <2>2. rows \in [Transfers -> TransferRows] /\ new = [rows EXCEPT ![t] = row] /\ rows[t] = old
    BY <1>0, <1>1, <1>2, <2>1
  <2>3. Owed(l, new) = Owed(l, rows) - OweOf(t, l, rows[t]) + OweOf(t, l, row)
    BY <2>2, OwedChanges
  <2> QED BY <2>1, <2>2, <2>3
<1>6. MoveOf(t, l, old) \in Int /\ MoveOf(t, l, row) \in Int
  BY <1>2, MoveTyped
<1>7. Explains(l)'
  <2>1. PICK d \in Int : d = MoveOf(t, l, row) - MoveOf(t, l, old)
    BY <1>6
  <2>2. Explained(l)' = Explained(l) + d
    <3>1. /\ loose' = loose /\ made' = made /\ adjust' = adjust /\ count' = count /\ booking' = booking
      BY DEF OnlyTransfers
    <3> QED BY <1>0, <1>4, <1>6, <2>1, <3>1, ExplainedIs, SumsTyped
  <2>3. ASSUME Touching(l) \cap raced = {}, l \notin lost' PROVE Stock(level'[l]) = Stock(level[l]) + d
    <3>1. Stock(level[l]) \in Int
      BY <1>0, StockTyped
    <3>2. CASE l \in {TransferOf[t].from, TransferOf[t].to}
      <4>1. t \notin raced
        BY <2>3, <3>2 DEF Touching
      <4>2. Stock(level'[l]) = Stock(level[l]) - MoveOf(t, l, old) + MoveOf(t, l, row)
        BY <1>1, <2>3, <3>2, <4>1
      <4> QED BY <1>6, <2>1, <3>1, <4>2
    <3>3. CASE l \notin {TransferOf[t].from, TransferOf[t].to}
      <4>1. MoveOf(t, l, old) = 0 /\ MoveOf(t, l, row) = 0
        BY <1>2, <3>3, MoveTyped
      <4>2. level'[l] = level[l]
        BY <3>3
      <4> QED BY <2>1, <3>1, <4>1, <4>2
    <3> QED BY <3>2, <3>3
  <2> QED BY <1>3, <2>2, <2>3, ExplainsMoves
<1>8. Promises(l)'
  <2>1. ASSUME Inbound(l) \cap raced = {} PROVE level'[l].transit = Owed(l, transfer')
    <3>1. level[l].transit = Owed(l, transfer) /\ level[l].transit \in Int
      BY <1>0, <1>3, <2>1, StockTyped DEF Promises
    <3>2. CASE Local(t) /\ l = TransferOf[t].to
      <4>1. t \notin raced
        BY <2>1, <3>2 DEF Inbound
      <4>2. OweOf(t, l, old) = InTransit(t, old) /\ OweOf(t, l, row) = InTransit(t, row)
        BY <3>2 DEF OweOf
      <4>3. level'[l].transit = level[l].transit - InTransit(t, old) + InTransit(t, row)
        BY <1>1, <3>2, <4>1
      <4> QED BY <1>5, <3>1, <4>2, <4>3
    <3>3. CASE ~(Local(t) /\ l = TransferOf[t].to)
      <4>1. OweOf(t, l, old) = 0 /\ OweOf(t, l, row) = 0
        BY <3>3 DEF OweOf
      <4>2. level'[l].transit = level[l].transit
        BY <3>3
      <4> QED BY <1>5, <3>1, <4>1, <4>2
    <3> QED BY <3>2, <3>3
  <2>2. HeldAt(l) \cap raced = {} => level'[l].reserved = Booked(l, booking', "active")
    BY <1>3 DEF Promises, OnlyTransfers
  <2> QED BY <2>1, <2>2 DEF Promises, Inbound, HeldAt, Local
<1> QED BY <1>7, <1>8

LEMMA CreateTransferAgreed ==
  ASSUME DInv, NEW t \in Transfers, CreateTransfer(t)
  PROVE  Told' /\ Agreed'
<1>0. Kept /\ Told /\ Agreed /\ DocsOK /\ LevelsOK /\ PiecesOK
  BY DEF DInv, Kept, Told
<1>1. PICK s \in {"draft", "pending_approval"} : SetTransfer(t, [NoTransfer EXCEPT !.status = s])
  BY DEF CreateTransfer
<1>2. PICK row : row = [NoTransfer EXCEPT !.status = s]
  OBVIOUS
<1>3. row \in TransferRows /\ row.status = s /\ ~row.issued /\ row.received = 0 /\ row.damaged = 0
  BY <1>2 DEF NoTransfer, TransferRows
<1>4. /\ SetTransfer(t, row) /\ OnlyTransfers /\ UNCHANGED <<level, handler, raced, lost>>
      /\ transfer[t].status = "none" /\ transfer' = [transfer EXCEPT ![t] = row]
  BY <1>1, <1>2 DEF CreateTransfer, Once, SetTransfer
<1>5. HandlersSeen' /\ HandlersApart'
  <2>1. \A x \in Transfers : transfer[x].status = "none" \/ transfer'[x] = transfer[x]
    BY <1>4
  <2> QED BY <1>4, <2>1, HandlersOnce DEF OnlyTransfers
<1>6. PiecesOK' /\ DocsRight'
  <2>1. \A x \in Transfers : x \notin raced => TransferRight(x, transfer'[x])
    <3>1. TransferRight(t, row)
      BY <1>3 DEF TransferRight
    <3> QED BY <1>0, <1>4, <3>1 DEF Told, DocsRight, DocsOK
  <2> QED BY <1>0, <1>4, <2>1 DEF Told, PiecesOK, DocsRight, OnlyTransfers, KeysRight, NoKeys
<1>7. Agreed'
  <2>1. ASSUME t \notin raced
        PROVE  /\ \A l \in Levels : MoveOf(t, l, transfer[t]) = 0 /\ MoveOf(t, l, row) = 0
               /\ InTransit(t, transfer[t]) = 0 /\ InTransit(t, row) = 0
    <3>1. TransferRight(t, transfer[t])
      BY <1>0, <2>1 DEF Told, DocsRight
    <3>2. ~transfer[t].issued /\ transfer[t].received = 0 /\ transfer[t].damaged = 0
      BY <1>4, <3>1 DEF TransferRight
    <3>3. \A l \in Levels : MoveOf(t, l, transfer[t]) = 0 /\ MoveOf(t, l, row) = 0
      BY <1>3, <3>2 DEF MoveOf
    <3>4. InTransit(t, transfer[t]) = 0 /\ InTransit(t, row) = 0
      BY <1>3, <1>4 DEF InTransit
    <3> QED BY <3>3, <3>4
  <2>2. \A l \in Levels : Stock(level[l]) \in Int /\ level[l].transit \in Int
    BY <1>0, StockTyped
  <2>3. TransferOf[t].from \in Levels /\ TransferOf[t].to \in Levels
    BY Constants
  <2> QED BY <1>0, <1>3, <1>4, <2>1, <2>2, <2>3, TransferAgreed
<1> QED BY <1>5, <1>6, <1>7 DEF Told

(* What a handler of a transfer has, and the row it writes. *)
LEMMA TransferSeen ==
  ASSUME DInv, NEW h \in Handlers, NEW op \in TransferOps, NEW t \in Transfers, Commits(h, op, t)
  PROVE  /\ DocsOK /\ LevelsOK /\ PiecesOK /\ Kept /\ Agreed /\ raced' = raced
         /\ transfer[t] \in TransferRows
         /\ t \notin raced => TransferRight(t, transfer[t]) /\ SeenTransfer(handler[h], transfer[t])
         /\ handler[h].op = op /\ handler[h].id = t
<1>1. handler[h].op = op /\ handler[h].id = t /\ raced' = raced /\ op # "idle"
  BY DEF Commits, TransferOps
<1>2. SeenOK(handler[h]) /\ DocsOK /\ LevelsOK /\ PiecesOK /\ DocsRight
  BY DEF DInv, Told, HandlersSeen, Kept
<1> QED BY <1>1, <1>2 DEF SeenOK, DocsRight, DocsOK, DInv

LEMMA IssueAgreed ==
  ASSUME DInv, NEW h \in Handlers, NEW t \in Transfers, Issue(h, t)
  PROVE  Told' /\ Agreed'
<1> DEFINE T == TransferOf[t]
<1>1. PICK op \in TransferOps : op = "issue"
  BY DEF TransferOps
<1>2. Commits(h, op, t) /\ Local(t)
  BY <1>1 DEF Issue
<1>3. CASE ~CanMove(level[T.from], -T.qty)
  BY <1>1, <1>2, <1>3, RefusedTold DEF Issue
<1>4. CASE CanMove(level[T.from], -T.qty)
  <2>1. PICK row : row = [transfer[t] EXCEPT !.status = "in_transit", !.issued = TRUE]
    OBVIOUS
  <2>2. /\ level' = [level EXCEPT ![T.from].hand = @ - T.qty, ![T.to].transit = @ + T.qty]
        /\ SetTransfer(t, row) /\ OnlyTransfers /\ UNCHANGED lost
    BY <1>4, <2>1 DEF Issue
  <2>3. /\ T.from \in Levels /\ T.to \in Levels /\ T.from # T.to /\ T.qty \in Nat \ {0}
    BY Constants
  <2>4. /\ DocsOK /\ LevelsOK /\ PiecesOK /\ Kept /\ Agreed /\ raced' = raced
        /\ transfer[t] \in TransferRows
        /\ t \notin raced => TransferRight(t, transfer[t]) /\ transfer[t].status = "draft"
    BY <1>1, <1>2, TransferSeen DEF SeenTransfer
  <2>5. /\ row \in TransferRows /\ row.status = "in_transit" /\ row.issued
        /\ row.received = transfer[t].received /\ row.damaged = transfer[t].damaged
    BY <2>1, <2>4 DEF TransferRows
  <2>6. t \notin raced => ~transfer[t].issued /\ transfer[t].received = 0 /\ transfer[t].damaged = 0
    BY <2>4 DEF TransferRight
  <2>7. t \notin raced => TransferRight(t, row)
    BY <2>3, <2>5, <2>6 DEF TransferRight
  <2>8. /\ \A l \in Levels : l \notin {T.from, T.to} => level'[l] = level[l]
        /\ \A l \in Levels : level'[l].reserved = level[l].reserved
        /\ \A l \in Levels : level'[l].transit = level[l].transit \/ (Local(t) /\ l = T.to)
        /\ Stock(level'[T.from]) = Stock(level[T.from]) - T.qty
        /\ Stock(level'[T.to]) = Stock(level[T.to])
        /\ level'[T.to].transit = level[T.to].transit + T.qty
    <3>1. level[T.from] \in Quantities /\ level[T.to] \in Quantities /\ DOMAIN level = Levels
      BY <2>3, <2>4 DEF LevelsOK
    <3>2. /\ level'[T.from] = [level[T.from] EXCEPT !.hand = @ - T.qty]
          /\ level'[T.to] = [level[T.to] EXCEPT !.transit = @ + T.qty]
          /\ \A l \in Levels : l \notin {T.from, T.to} => level'[l] = level[l]
      BY <2>2, <2>3, <3>1
    <3>3. /\ level'[T.from].hand = level[T.from].hand - T.qty /\ level'[T.from].damaged = level[T.from].damaged
          /\ level'[T.from].reserved = level[T.from].reserved /\ level'[T.from].transit = level[T.from].transit
          /\ level'[T.to].hand = level[T.to].hand /\ level'[T.to].damaged = level[T.to].damaged
          /\ level'[T.to].reserved = level[T.to].reserved
          /\ level'[T.to].transit = level[T.to].transit + T.qty
      BY <3>1, <3>2 DEF Quantities
    <3>4. level[T.from].hand \in Int /\ level[T.from].damaged \in Int
      BY <3>1 DEF Quantities
    <3>5. Stock(level'[T.from]) = Stock(level[T.from]) - T.qty /\ Stock(level'[T.to]) = Stock(level[T.to])
      BY <2>3, <3>3, <3>4 DEF Stock
    <3>6. \A l \in Levels : level'[l].reserved = level[l].reserved
      BY <3>2, <3>3
    <3>7. \A l \in Levels : level'[l].transit = level[l].transit \/ l = T.to
      BY <3>2, <3>3
    <3> QED BY <1>2, <3>2, <3>3, <3>5, <3>6, <3>7
  <2>9. ASSUME t \notin raced
        PROVE  /\ MoveOf(t, T.from, transfer[t]) = 0 /\ MoveOf(t, T.to, transfer[t]) = 0
               /\ MoveOf(t, T.from, row) = 0 - T.qty /\ MoveOf(t, T.to, row) = 0
               /\ InTransit(t, transfer[t]) = 0 /\ InTransit(t, row) = T.qty
    <3>1. MoveOf(t, T.from, transfer[t]) = 0 /\ MoveOf(t, T.to, transfer[t]) = 0
      BY <2>3, <2>6, <2>9 DEF MoveOf
    <3>2. MoveOf(t, T.from, row) = 0 - T.qty /\ MoveOf(t, T.to, row) = 0
      BY <2>3, <2>5, <2>6, <2>9 DEF MoveOf
    <3>3. InTransit(t, transfer[t]) = 0
      BY <2>4, <2>9 DEF InTransit
    <3>4. InTransit(t, row) = T.qty
      BY <2>3, <2>5, <2>6, <2>9 DEF InTransit
    <3> QED BY <3>1, <3>2, <3>3, <3>4
  <2>10. /\ Stock(level[T.from]) \in Int /\ Stock(level[T.to]) \in Int /\ level[T.to].transit \in Int
    BY <2>3, <2>4, StockTyped
  <2>11. Told'
    BY <1>2, <2>2, <2>7, TransferTold
  <2>12. t \notin raced =>
           \A l \in {T.from, T.to} : l \notin lost' =>
             Stock(level'[l]) = Stock(level[l]) - MoveOf(t, l, transfer[t]) + MoveOf(t, l, row)
    BY <2>3, <2>8, <2>9, <2>10
  <2>13. t \notin raced =>
           level'[T.to].transit = level[T.to].transit - InTransit(t, transfer[t]) + InTransit(t, row)
    BY <2>3, <2>8, <2>9, <2>10
  <2> QED BY <1>2, <2>2, <2>4, <2>5, <2>8, <2>11, <2>12, <2>13, TransferAgreed
<1> QED BY <1>3, <1>4

LEMMA ReceiveAgreed ==
  ASSUME DInv, NEW h \in Handlers, NEW t \in Transfers, Receive(h, t)
  PROVE  Told' /\ Agreed'
<1> DEFINE T == TransferOf[t]
<1>1. PICK op \in TransferOps : op = "receive"
  BY DEF TransferOps
<1>2. Commits(h, op, t) /\ Local(t) /\ handler[h].op = "receive" /\ handler[h].id = t /\ handler[h] # Idle
  BY <1>1 DEF Receive, Commits
<1>3. PICK r : r = handler[h].arg
  OBVIOUS
<1>4. PICK row : row = [transfer[t] EXCEPT
                          !.status = IF transfer[t].received + r.take + (transfer[t].damaged + r.damaged) >= T.qty
                                       THEN "received"
                                     ELSE IF transfer[t].received + r.take > 0 THEN "partially_received"
                                     ELSE "in_transit",
                          !.received = transfer[t].received + r.take,
                          !.damaged = transfer[t].damaged + r.damaged]
  OBVIOUS
<1>5. /\ level' = [level EXCEPT ![T.to].hand = @ + r.take, ![T.to].transit = @ - (r.take + r.damaged),
                               ![T.to].damaged = @ + r.damaged]
      /\ SetTransfer(t, row) /\ OnlyTransfers /\ UNCHANGED lost
  BY <1>3, <1>4 DEF Receive
<1>6. T.from \in Levels /\ T.to \in Levels /\ T.from # T.to /\ T.qty \in Nat \ {0}
  BY Constants
<1>7. /\ DocsOK /\ LevelsOK /\ PiecesOK /\ Kept /\ Agreed /\ raced' = raced
      /\ transfer[t] \in TransferRows
      /\ t \notin raced => /\ TransferRight(t, transfer[t]) /\ ReceiptFits(t, transfer[t], r)
                           /\ transfer[t].status \in {"in_transit", "partially_received"}
  BY <1>1, <1>2, <1>3, TransferSeen DEF SeenTransfer
<1>8. r.take \in Nat /\ r.damaged \in Nat
  <2>1. handler[h] \in Working /\ t \in LocalTransfers /\ t \notin GroupTransfers
    BY <1>2, <1>7 DEF Kept, HandlersOK, LocalTransfers, GroupTransfers
  <2> QED BY <1>2, <1>3, <2>1 DEF Working
<1>9. PICK received \in Nat, damaged \in Nat :
        received = transfer[t].received /\ damaged = transfer[t].damaged
  BY <1>7 DEF TransferRows
<1>10. /\ row \in TransferRows /\ row.issued = transfer[t].issued
       /\ row.received = received + r.take /\ row.damaged = damaged + r.damaged
       /\ row.received + row.damaged >= T.qty => row.status = "received"
       /\ row.received + row.damaged < T.qty => row.status \in {"in_transit", "partially_received"}
  <2>1. received + r.take \in Nat /\ damaged + r.damaged \in Nat
    BY <1>8, <1>9
  <2>2. /\ row \in TransferRows /\ row.issued = transfer[t].issued
        /\ row.received = received + r.take /\ row.damaged = damaged + r.damaged
        /\ row.status = IF received + r.take + (damaged + r.damaged) >= T.qty THEN "received"
                        ELSE IF received + r.take > 0 THEN "partially_received" ELSE "in_transit"
    BY <1>4, <1>7, <1>9, <2>1 DEF TransferRows
  <2> QED BY <1>6, <2>1, <2>2
<1>11. /\ \A l \in Levels : l # T.to => level'[l] = level[l]
       /\ level'[T.to].reserved = level[T.to].reserved
       /\ Stock(level'[T.to]) = Stock(level[T.to]) + r.take + r.damaged
       /\ level'[T.to].transit = level[T.to].transit - (r.take + r.damaged)
  <2>1. level[T.to] \in Quantities /\ DOMAIN level = Levels
    BY <1>6, <1>7 DEF LevelsOK
  <2>2. level'[T.to] = [level[T.to] EXCEPT !.hand = @ + r.take, !.transit = @ - (r.take + r.damaged),
                                           !.damaged = @ + r.damaged]
    BY <1>5, <1>6, <2>1
  <2>3. /\ level'[T.to].hand = level[T.to].hand + r.take
        /\ level'[T.to].damaged = level[T.to].damaged + r.damaged
        /\ level'[T.to].reserved = level[T.to].reserved
        /\ level'[T.to].transit = level[T.to].transit - (r.take + r.damaged)
    BY <2>1, <2>2 DEF Quantities
  <2>4. level[T.to].hand \in Int /\ level[T.to].damaged \in Int
    BY <2>1 DEF Quantities
  <2>5. \A l \in Levels : l # T.to => level'[l] = level[l]
    BY <1>5, <2>1
  <2>6. Stock(level'[T.to]) = Stock(level[T.to]) + r.take + r.damaged
    BY <1>8, <2>3, <2>4 DEF Stock
  <2> QED BY <2>3, <2>5, <2>6
<1>12. ASSUME t \notin raced
       PROVE  /\ transfer[t].issued /\ damaged = 0 /\ received + r.take + r.damaged <= T.qty
              /\ r.damaged > 0 => received + r.take + r.damaged = T.qty
  BY <1>6, <1>7, <1>8, <1>9, <1>12 DEF TransferRight, ReceiptFits
<1>13. t \notin raced => TransferRight(t, row)
  BY <1>2, <1>6, <1>8, <1>9, <1>10, <1>12 DEF TransferRight
<1>14. ASSUME t \notin raced
       PROVE  /\ MoveOf(t, T.from, row) = MoveOf(t, T.from, transfer[t])
              /\ MoveOf(t, T.to, row) = MoveOf(t, T.to, transfer[t]) + r.take + r.damaged
              /\ InTransit(t, row) = InTransit(t, transfer[t]) - (r.take + r.damaged)
  <2>1. MoveOf(t, T.from, row) = MoveOf(t, T.from, transfer[t])
    <3>1. transfer[t].status # "cancelled" /\ transfer[t].issued /\ row.issued
      BY <1>7, <1>10, <1>12, <1>14
    <3>2. row.received + row.damaged \in Int
      BY <1>8, <1>9, <1>10
    <3>3. row.status # "cancelled"
      BY <1>6, <1>10, <3>2
    <3> QED BY <1>6, <3>1, <3>3 DEF MoveOf
  <2>2. MoveOf(t, T.to, transfer[t]) = received + damaged /\ MoveOf(t, T.to, row) = row.received + row.damaged
    BY <1>6, <1>8, <1>9, <1>10 DEF MoveOf
  <2>3. PICK n \in Nat : n = T.qty
    BY <1>6
  <2>4. /\ n > 0 /\ damaged = 0 /\ received + r.take + r.damaged <= n
        /\ r.damaged > 0 => received + r.take + r.damaged = n
    BY <1>6, <1>12, <1>14, <2>3
  <2>5. InTransit(t, transfer[t]) = n - received
    <3>1. n - transfer[t].received - transfer[t].damaged = n - received
      BY <1>9, <2>4
    <3>2. transfer[t].status \in {"in_transit", "partially_received"}
      BY <1>7, <1>14
    <3> QED BY <1>8, <1>9, <2>3, <2>4, <3>1, <3>2 DEF InTransit
  <2>6. InTransit(t, row) = n - received - r.take - r.damaged
    <3>1. n - row.received - row.damaged = n - received - r.take - r.damaged
      BY <1>8, <1>9, <1>10, <2>4
    <3>2. CASE row.received + row.damaged >= T.qty
      <4>1. row.status = "received" /\ n - received - r.take - r.damaged = 0
        BY <1>8, <1>9, <1>10, <2>3, <2>4, <3>2
      <4>2. InTransit(t, row) = 0
        BY <4>1 DEF InTransit
      <4> QED BY <4>1, <4>2
    <3>3. CASE row.received + row.damaged < T.qty
      <4>1. row.status \in {"in_transit", "partially_received"} /\ n - row.received - row.damaged > 0
        BY <1>8, <1>9, <1>10, <2>3, <2>4, <3>3
      <4>2. InTransit(t, row) = n - row.received - row.damaged
        BY <2>3, <4>1 DEF InTransit
      <4> QED BY <3>1, <4>2
    <3>4. row.received + row.damaged \in Int
      BY <1>8, <1>9, <1>10
    <3> QED BY <1>6, <3>2, <3>3, <3>4
  <2>7. InTransit(t, row) = InTransit(t, transfer[t]) - (r.take + r.damaged)
    BY <1>8, <1>9, <2>3, <2>5, <2>6
  <2>8. MoveOf(t, T.to, row) = MoveOf(t, T.to, transfer[t]) + r.take + r.damaged
    BY <1>8, <1>9, <1>10, <2>2
  <2> QED BY <2>1, <2>7, <2>8
<1>15. /\ Stock(level[T.from]) \in Int /\ Stock(level[T.to]) \in Int /\ level[T.to].transit \in Int
  BY <1>6, <1>7, StockTyped
<1>16. MoveOf(t, T.from, transfer[t]) \in Int /\ MoveOf(t, T.to, transfer[t]) \in Int
       /\ InTransit(t, transfer[t]) \in Int
  BY <1>7, MoveTyped, OweTyped
<1>17. Told'
  BY <1>2, <1>5, <1>13, TransferTold
<1>18. t \notin raced =>
         \A l \in {T.from, T.to} : l \notin lost' =>
           Stock(level'[l]) = Stock(level[l]) - MoveOf(t, l, transfer[t]) + MoveOf(t, l, row)
  BY <1>6, <1>8, <1>11, <1>14, <1>15, <1>16
<1>19. t \notin raced =>
         level'[T.to].transit = level[T.to].transit - InTransit(t, transfer[t]) + InTransit(t, row)
  BY <1>8, <1>11, <1>14, <1>15, <1>16
<1>20. /\ \A l \in Levels : l \notin {T.from, T.to} => level'[l] = level[l]
       /\ \A l \in Levels : level'[l].reserved = level[l].reserved
       /\ \A l \in Levels : level'[l].transit = level[l].transit \/ (Local(t) /\ l = T.to)
  BY <1>2, <1>11
<1> QED BY <1>2, <1>5, <1>7, <1>10, <1>17, <1>18, <1>19, <1>20, TransferAgreed

LEMMA CancelAgreed ==
  ASSUME DInv, NEW h \in Handlers, NEW t \in Transfers, Cancel(h, t)
  PROVE  Told' /\ Agreed'
<1> DEFINE T == TransferOf[t]
<1>1. PICK op \in TransferOps : op = "cancel"
  BY DEF TransferOps
<1>2. Commits(h, op, t) /\ Local(t) /\ handler[h].op = "cancel" /\ handler[h].id = t /\ handler[h] # Idle
  BY <1>1 DEF Cancel, Commits
<1>3. PICK left : left = InTransit(t, handler[h].seen)
  OBVIOUS
<1>4. PICK row : row = [transfer[t] EXCEPT !.status = "cancelled"]
  OBVIOUS
<1>5. /\ level' = [level EXCEPT ![T.from].hand = @ + left, ![T.to].transit = @ - left]
      /\ SetTransfer(t, row) /\ OnlyTransfers /\ UNCHANGED lost
  BY <1>3, <1>4 DEF Cancel
<1>6. T.from \in Levels /\ T.to \in Levels /\ T.from # T.to /\ T.qty \in Nat \ {0}
  BY Constants
<1>7. /\ DocsOK /\ LevelsOK /\ PiecesOK /\ Kept /\ Agreed /\ raced' = raced
      /\ transfer[t] \in TransferRows
      /\ t \notin raced => /\ TransferRight(t, transfer[t]) /\ handler[h].seen = transfer[t]
                           /\ transfer[t].status \notin {"none", "received"}
  BY <1>1, <1>2, TransferSeen DEF SeenTransfer
<1>8. left \in Int
  <2>1. handler[h] \in Working
    BY <1>2, <1>7 DEF Kept, HandlersOK
  <2>2. handler[h].seen \in TransferRows
    BY <1>2, <2>1 DEF Working
  <2> QED BY <1>3, <2>2, OweTyped
<1>9. /\ row \in TransferRows /\ row.status = "cancelled" /\ row.issued = transfer[t].issued
      /\ row.received = transfer[t].received /\ row.damaged = transfer[t].damaged
  BY <1>4, <1>7 DEF TransferRows
<1>10. /\ \A l \in Levels : l \notin {T.from, T.to} => level'[l] = level[l]
       /\ \A l \in Levels : level'[l].reserved = level[l].reserved
       /\ \A l \in Levels : level'[l].transit = level[l].transit \/ (Local(t) /\ l = T.to)
       /\ Stock(level'[T.from]) = Stock(level[T.from]) + left
       /\ Stock(level'[T.to]) = Stock(level[T.to])
       /\ level'[T.to].transit = level[T.to].transit - left
  <2>1. level[T.from] \in Quantities /\ level[T.to] \in Quantities /\ DOMAIN level = Levels
    BY <1>6, <1>7 DEF LevelsOK
  <2>2. /\ level'[T.from] = [level[T.from] EXCEPT !.hand = @ + left]
        /\ level'[T.to] = [level[T.to] EXCEPT !.transit = @ - left]
        /\ \A l \in Levels : l \notin {T.from, T.to} => level'[l] = level[l]
    BY <1>5, <1>6, <2>1
  <2>3. /\ level'[T.from].hand = level[T.from].hand + left /\ level'[T.from].damaged = level[T.from].damaged
        /\ level'[T.from].reserved = level[T.from].reserved /\ level'[T.from].transit = level[T.from].transit
        /\ level'[T.to].hand = level[T.to].hand /\ level'[T.to].damaged = level[T.to].damaged
        /\ level'[T.to].reserved = level[T.to].reserved
        /\ level'[T.to].transit = level[T.to].transit - left
    BY <2>1, <2>2 DEF Quantities
  <2>4. level[T.from].hand \in Int /\ level[T.from].damaged \in Int
    BY <2>1 DEF Quantities
  <2>5. Stock(level'[T.from]) = Stock(level[T.from]) + left /\ Stock(level'[T.to]) = Stock(level[T.to])
    BY <1>8, <2>3, <2>4 DEF Stock
  <2>6. \A l \in Levels : level'[l].reserved = level[l].reserved
    BY <2>2, <2>3
  <2>7. \A l \in Levels : level'[l].transit = level[l].transit \/ l = T.to
    BY <2>2, <2>3
  <2> QED BY <1>2, <2>2, <2>3, <2>5, <2>6, <2>7
<1>11. ASSUME t \notin raced
       PROVE  /\ left = InTransit(t, transfer[t]) /\ InTransit(t, row) = 0
              /\ MoveOf(t, T.to, row) = MoveOf(t, T.to, transfer[t])
              /\ MoveOf(t, T.from, row) = MoveOf(t, T.from, transfer[t]) + left
  <2>1. left = InTransit(t, transfer[t]) /\ InTransit(t, row) = 0
    BY <1>3, <1>7, <1>9, <1>11 DEF InTransit
  <2>2. PICK received \in Nat, damaged \in Nat :
          received = transfer[t].received /\ damaged = transfer[t].damaged
    BY <1>7 DEF TransferRows
  <2>3. MoveOf(t, T.to, row) = MoveOf(t, T.to, transfer[t])
    BY <1>6, <1>9, <2>2 DEF MoveOf
  <2>4. MoveOf(t, T.from, row) = IF row.issued THEN 0 - (received + damaged) ELSE 0
    BY <1>6, <1>9, <2>2 DEF MoveOf
  <2>5. CASE transfer[t].status \in {"in_transit", "partially_received"}
    <3>1. transfer[t].issued /\ damaged = 0 /\ received <= T.qty
      BY <1>7, <1>11, <2>2, <2>5 DEF TransferRight
    <3>2. left = T.qty - received
      BY <1>6, <2>1, <2>2, <2>5, <3>1 DEF InTransit
    <3>3. MoveOf(t, T.from, transfer[t]) = 0 - T.qty
      BY <1>6, <2>2, <2>5, <3>1 DEF MoveOf
    <3> QED BY <1>6, <1>9, <2>1, <2>2, <2>3, <2>4, <3>1, <3>2, <3>3
  <2>6. CASE transfer[t].status \in {"draft", "pending_approval"}
    <3>1. ~transfer[t].issued
      BY <1>7, <1>11, <2>6 DEF TransferRight
    <3>2. left = 0 /\ MoveOf(t, T.from, transfer[t]) = 0
      BY <1>6, <2>1, <2>6, <3>1 DEF InTransit, MoveOf
    <3> QED BY <1>9, <2>1, <2>3, <2>4, <3>1, <3>2
  <2>7. CASE transfer[t].status = "cancelled"
    <3>1. row = transfer[t]
      BY <1>4, <1>7, <2>7 DEF TransferRows
    <3>2. left = 0 /\ MoveOf(t, T.from, transfer[t]) \in Int
      BY <1>7, <2>1, <2>7, MoveTyped DEF InTransit
    <3> QED BY <2>1, <2>3, <3>1, <3>2
  <2> QED BY <1>7, <1>11, <2>5, <2>6, <2>7 DEF TransferRows
<1>12. /\ Stock(level[T.from]) \in Int /\ Stock(level[T.to]) \in Int /\ level[T.to].transit \in Int
  BY <1>6, <1>7, StockTyped
<1>13. MoveOf(t, T.from, transfer[t]) \in Int /\ MoveOf(t, T.to, transfer[t]) \in Int
  BY <1>7, MoveTyped
<1>14. t \notin raced => TransferRight(t, row)
  BY <1>9 DEF TransferRight
<1>15. Told'
  BY <1>2, <1>5, <1>14, TransferTold
<1>16. t \notin raced =>
         \A l \in {T.from, T.to} : l \notin lost' =>
           Stock(level'[l]) = Stock(level[l]) - MoveOf(t, l, transfer[t]) + MoveOf(t, l, row)
  BY <1>6, <1>8, <1>10, <1>11, <1>12, <1>13
<1>17. t \notin raced =>
         level'[T.to].transit = level[T.to].transit - InTransit(t, transfer[t]) + InTransit(t, row)
  BY <1>8, <1>10, <1>11, <1>12
<1> QED BY <1>2, <1>5, <1>7, <1>9, <1>10, <1>15, <1>16, <1>17, TransferAgreed

LEMMA BeginTransferAgreed ==
  ASSUME DInv, NEW h \in Handlers, NEW t \in Transfers,
         BeginIssue(h, t) \/ BeginReceive(h, t) \/ BeginCancel(h, t)
  PROVE  Told' /\ Agreed'
<1>1. /\ transfer[t] \in TransferRows
      /\ t \notin raced => TransferRight(t, transfer[t])
  BY DEF DInv, Kept, DocsOK, Told, DocsRight
<1>2. CASE BeginIssue(h, t)
  <2>1. PICK s : s = [op |-> "issue", id |-> t, seen |-> transfer[t], arg |-> 0]
    OBVIOUS
  <2>2. s.op = "issue" /\ s.id = t /\ transfer[t].status = "draft"
    BY <1>2, <2>1 DEF BeginIssue
  <2>3. SeenOK(s)
    BY <2>2 DEF SeenOK, SeenTransfer, TransferOps, AdjustOps, CountOps
  <2> QED BY <1>2, <2>1, <2>2, <2>3, Begun DEF BeginIssue
<1>3. CASE BeginCancel(h, t)
  <2>1. PICK s : s = [op |-> "cancel", id |-> t, seen |-> transfer[t], arg |-> 0]
    OBVIOUS
  <2>2. s.op = "cancel" /\ s.id = t /\ s.seen = transfer[t] /\ transfer[t].status \notin {"none", "received"}
    BY <1>3, <2>1 DEF BeginCancel
  <2>3. SeenOK(s)
    BY <2>2 DEF SeenOK, SeenTransfer, TransferOps, AdjustOps, CountOps
  <2> QED BY <1>3, <2>1, <2>2, <2>3, Begun DEF BeginCancel
<1>4. CASE BeginReceive(h, t)
  <2>1. transfer[t].status \in {"in_transit", "partially_received"}
    BY <1>4 DEF BeginReceive
  <2>2. PICK r : /\ Begin(h, "receive", t, transfer[t], r)
                 /\ t \notin raced /\ Local(t) => ReceiptFits(t, transfer[t], r)
    <3>1. CASE ~Local(t)
      BY <1>4, <3>1 DEF BeginReceive
    <3>2. CASE Local(t)
      <4>1. PICK r \in Receipts(t) : /\ r.take + r.damaged <= TransferOf[t].qty - transfer[t].received
                                     /\ Begin(h, "receive", t, transfer[t], r)
        BY <1>4, <3>2 DEF BeginReceive
      <4>2. r.damaged > 0 => r.take + r.damaged = TransferOf[t].qty - transfer[t].received - transfer[t].damaged
        BY <4>1 DEF Receipts
      <4>3. ASSUME t \notin raced PROVE ReceiptFits(t, transfer[t], r)
        <5>1. transfer[t].damaged = 0 /\ transfer[t].received \in Nat /\ TransferOf[t].qty \in Nat
          BY <1>1, <2>1, <4>3, Constants DEF TransferRight, TransferRows
        <5>2. TransferOf[t].qty - transfer[t].received - transfer[t].damaged = TransferOf[t].qty - transfer[t].received
          BY <5>1
        <5> QED BY <4>1, <4>2, <5>2 DEF ReceiptFits
      <4> QED BY <4>1, <4>3
    <3> QED BY <3>1, <3>2
  <2>3. PICK s : s = [op |-> "receive", id |-> t, seen |-> transfer[t], arg |-> r]
    OBVIOUS
  <2>4. s.op = "receive" /\ s.id = t /\ s.arg = r
    BY <2>3
  <2>5. SeenOK(s)
    BY <2>1, <2>2, <2>4 DEF SeenOK, SeenTransfer, TransferOps, AdjustOps, CountOps
  <2> QED BY <2>2, <2>3, <2>4, <2>5, Begun
<1> QED BY <1>2, <1>3, <1>4

(* An intercompany transfer reads the quantity it will write. *)
LEMMA ReadLevelAgreed ==
  ASSUME DInv, NEW h \in Handlers, NEW t \in Transfers, ReadLevel(h, t)
  PROVE  Told' /\ Agreed'
<1>0. Kept /\ Told /\ Agreed /\ HandlersOK
  BY DEF DInv, Kept
<1>1. /\ handler[h].id = t /\ handler[h].op \in {"issue", "receive"} /\ handler[h] \in Working
      /\ UNCHANGED <<level, docVars, raced, lost>>
  BY <1>0 DEF ReadLevel, HandlersOK
<1>2. PICK s : s = handler'[h]
  OBVIOUS
<1>3. /\ s.id = t
      /\ handler[h].op = "issue" => s.op = "writeIssue"
      /\ handler[h].op = "receive" => s.op = "writeReceive"
      /\ \A o \in Handlers \ {h} : handler'[o] = handler[o]
  <2>1. PICK op, n : handler' = [handler EXCEPT ![h].op = op, ![h].arg = n]
                     /\ op = IF handler[h].op = "issue" THEN "writeIssue" ELSE "writeReceive"
    BY DEF ReadLevel
  <2>2. handler'[h] = [handler[h] EXCEPT !.op = op, !.arg = n]
        /\ \A o \in Handlers \ {h} : handler'[o] = handler[o]
    BY <1>0, <2>1 DEF HandlersOK
  <2>3. s.id = t /\ s.op = op
    BY <1>1, <1>2, <2>2 DEF Working
  <2> QED BY <2>1, <2>2, <2>3
<1>4. PiecesOK' /\ DocsRight' /\ Agreed'
  BY <1>0, <1>1, RightStays, AgreedStays DEF Told, docVars
<1>5. SeenOK(s)
  <2>1. SeenOK(handler[h])
    BY <1>0 DEF Told, HandlersSeen
  <2>2. t \notin raced =>
          /\ handler[h].op = "issue" => transfer[t].status = "draft"
          /\ handler[h].op = "receive" => transfer[t].status \in {"in_transit", "partially_received"}
    BY <1>1, <2>1 DEF SeenOK, SeenTransfer, TransferOps
  <2> QED BY <1>1, <1>3, <2>2 DEF SeenOK, SeenTransfer, TransferOps, AdjustOps, CountOps
<1>6. ASSUME NEW x, SeenOK(x) PROVE SeenOK(x)'
  BY <1>1, <1>6 DEF SeenOK, docVars
<1>7. HandlersSeen'
  <2> SUFFICES ASSUME NEW o \in Handlers PROVE SeenOK(handler[o])'
    BY DEF HandlersSeen
  <2>1. PICK x : x = IF o = h THEN s ELSE handler[o]
    OBVIOUS
  <2>2. SeenOK(x)
    BY <1>0, <1>5, <2>1 DEF Told, HandlersSeen
  <2>3. SeenOK(x)' /\ x = handler'[o]
    BY <1>2, <1>3, <1>6, <2>1, <2>2
  <2> QED BY <2>3
<1>8. ASSUME NEW o \in Handlers \ {h} PROVE Apart(s, handler[o]) /\ Apart(handler[o], s)
  <2>1. Apart(handler[h], handler[o]) /\ Apart(handler[o], handler[h])
    BY <1>0 DEF Told, HandlersApart
  <2> QED BY <1>1, <1>3, <2>1 DEF Apart
<1>9. HandlersApart'
  <2> SUFFICES ASSUME NEW f \in Handlers, NEW g \in Handlers, f # g
               PROVE  Apart(handler[f], handler[g])'
    BY DEF HandlersApart
  <2>1. CASE f # h /\ g # h
    BY <1>0, <1>1, <1>3, <2>1 DEF Told, HandlersApart, Apart
  <2>2. CASE f = h
    BY <1>1, <1>2, <1>3, <1>8, <2>2 DEF Apart
  <2>3. CASE g = h
    BY <1>1, <1>2, <1>3, <1>8, <2>3 DEF Apart
  <2> QED BY <2>1, <2>2, <2>3
<1> QED BY <1>4, <1>7, <1>9 DEF Told

(* ... and writes it as it was computed; a level that changed is lost. *)
LEMMA GroupAgreed ==
  ASSUME DInv, NEW h \in Handlers, NEW t \in Transfers, GroupIssue(h, t) \/ GroupReceive(h, t)
  PROVE  Told' /\ Agreed'
<1> DEFINE T == TransferOf[t]
<1>1. PICK op \in TransferOps : op = handler[h].op
  BY DEF TransferOps, GroupIssue, GroupReceive, Commits
<1>2. Commits(h, op, t) /\ handler[h].op \in {"writeIssue", "writeReceive"} /\ handler[h].id = t /\ handler[h] # Idle
  BY <1>1 DEF GroupIssue, GroupReceive, Commits
<1>3. PICK old : old = handler[h].arg
  OBVIOUS
<1>4. T.from \in Levels /\ T.to \in Levels /\ T.from # T.to /\ T.qty \in Nat \ {0}
  BY Constants
<1>5. /\ DocsOK /\ LevelsOK /\ PiecesOK /\ Kept /\ Agreed /\ raced' = raced
      /\ transfer[t] \in TransferRows
      /\ t \notin raced => TransferRight(t, transfer[t]) /\ SeenTransfer(handler[h], transfer[t])
  BY <1>2, TransferSeen
<1>6. old \in Nat /\ ~Local(t)
  <2>1. handler[h] \in Working
    BY <1>2, <1>5 DEF Kept, HandlersOK
  <2> QED BY <1>2, <1>3, <2>1 DEF Working, GroupTransfers, LocalTransfers
<1>7. ASSUME NEW l \in {T.from, T.to}, NEW q \in Int, WriteLevel(l, old, q)
      PROVE  /\ lost \subseteq lost'
             /\ \A m \in Levels : m # l => level'[m] = level[m]
             /\ \A m \in Levels : level'[m].reserved = level[m].reserved
             /\ \A m \in Levels : level'[m].transit = level[m].transit
             /\ l \notin lost' => Stock(level'[l]) = Stock(level[l]) + q
  <2>1. level[l] \in Quantities /\ DOMAIN level = Levels /\ l \in Levels
    BY <1>4, <1>5 DEF LevelsOK
  <2>2. level'[l] = [level[l] EXCEPT !.hand = old + q] /\ \A m \in Levels : m # l => level'[m] = level[m]
    BY <1>7, <2>1 DEF WriteLevel
  <2>3. /\ level'[l].hand = old + q /\ level'[l].damaged = level[l].damaged
        /\ level'[l].reserved = level[l].reserved /\ level'[l].transit = level[l].transit
    BY <2>1, <2>2 DEF Quantities
  <2>4. lost \subseteq lost' /\ (l \notin lost' => level[l].hand = old)
    BY <1>7 DEF WriteLevel
  <2>5. level[l].hand \in Int /\ level[l].damaged \in Int
    BY <2>1 DEF Quantities
  <2>6. l \notin lost' => Stock(level'[l]) = Stock(level[l]) + q
    BY <1>6, <2>3, <2>4, <2>5 DEF Stock
  <2> QED BY <2>2, <2>3, <2>4, <2>6
<1>8. /\ Stock(level[T.from]) \in Int /\ Stock(level[T.to]) \in Int
  BY <1>4, <1>5, StockTyped
<1>9. CASE GroupIssue(h, t) /\ ~(old >= T.qty)
  <2>1. Commits(h, "writeIssue", t) /\ Refused
    BY <1>3, <1>9 DEF GroupIssue
  <2> QED BY <2>1, RefusedTold
<1>10. CASE GroupIssue(h, t) /\ old >= T.qty
  <2>1. PICK row : row = [transfer[t] EXCEPT !.status = "in_transit", !.issued = TRUE]
    OBVIOUS
  <2>2. PICK q \in Int : q = -T.qty
    BY <1>4
  <2>3. WriteLevel(T.from, old, q) /\ SetTransfer(t, row) /\ OnlyTransfers /\ handler[h].op = "writeIssue"
    BY <1>3, <1>10, <2>1, <2>2 DEF GroupIssue, Commits
  <2>4. /\ row \in TransferRows /\ row.status = "in_transit" /\ row.issued
        /\ row.received = transfer[t].received /\ row.damaged = transfer[t].damaged
    BY <1>5, <2>1 DEF TransferRows
  <2>5. t \notin raced => ~transfer[t].issued /\ transfer[t].received = 0 /\ transfer[t].damaged = 0
    BY <1>5, <2>3 DEF TransferRight, SeenTransfer
  <2>6. t \notin raced => TransferRight(t, row)
    BY <1>4, <2>4, <2>5 DEF TransferRight
  <2>7. t \notin raced => /\ MoveOf(t, T.from, transfer[t]) = 0 /\ MoveOf(t, T.to, transfer[t]) = 0
                         /\ MoveOf(t, T.from, row) = q /\ MoveOf(t, T.to, row) = 0
    BY <1>4, <2>2, <2>4, <2>5 DEF MoveOf
  <2>8. t \notin raced =>
          \A l \in {T.from, T.to} : l \notin lost' =>
            Stock(level'[l]) = Stock(level[l]) - MoveOf(t, l, transfer[t]) + MoveOf(t, l, row)
    BY <1>4, <1>7, <1>8, <2>3, <2>7
  <2>9. Told'
    BY <1>2, <2>3, <2>6, TransferTold
  <2>10. /\ lost \subseteq lost'
         /\ \A l \in Levels : l \notin {T.from, T.to} => level'[l] = level[l]
         /\ \A l \in Levels : level'[l].reserved = level[l].reserved
         /\ \A l \in Levels : level'[l].transit = level[l].transit
    BY <1>7, <2>3
  <2> QED BY <1>4, <1>5, <1>6, <2>3, <2>4, <2>8, <2>9, <2>10, TransferAgreed
<1>11. CASE GroupReceive(h, t)
  <2>1. PICK row : row = [transfer[t] EXCEPT !.status = "received", !.received = T.qty]
    OBVIOUS
  <2>2. PICK q \in Int : q = T.qty
    BY <1>4
  <2>3. WriteLevel(T.to, old, q) /\ SetTransfer(t, row) /\ OnlyTransfers /\ handler[h].op = "writeReceive"
    BY <1>3, <1>11, <2>1, <2>2 DEF GroupReceive, Commits
  <2>4. /\ row \in TransferRows /\ row.status = "received" /\ row.issued = transfer[t].issued
        /\ row.received = q /\ row.damaged = transfer[t].damaged
    BY <1>4, <1>5, <2>1, <2>2 DEF TransferRows
  <2>5. t \notin raced =>
          /\ transfer[t].issued /\ transfer[t].received = 0 /\ transfer[t].damaged = 0
          /\ transfer[t].status # "cancelled"
    BY <1>5, <1>6, <2>3 DEF TransferRight, SeenTransfer
  <2>6. TransferRight(t, row)
    BY <2>4 DEF TransferRight
  <2>7. ASSUME t \notin raced
        PROVE  /\ MoveOf(t, T.from, row) = MoveOf(t, T.from, transfer[t])
               /\ MoveOf(t, T.to, transfer[t]) = 0 /\ MoveOf(t, T.to, row) = q
    <3>1. MoveOf(t, T.from, row) = MoveOf(t, T.from, transfer[t])
      BY <1>4, <2>4, <2>5, <2>7 DEF MoveOf
    <3>2. MoveOf(t, T.to, transfer[t]) = 0 /\ MoveOf(t, T.to, row) = q
      BY <1>4, <2>2, <2>4, <2>5, <2>7 DEF MoveOf
    <3> QED BY <3>1, <3>2
  <2>8. MoveOf(t, T.from, transfer[t]) \in Int
    BY <1>5, MoveTyped
  <2>9. t \notin raced =>
          \A l \in {T.from, T.to} : l \notin lost' =>
            Stock(level'[l]) = Stock(level[l]) - MoveOf(t, l, transfer[t]) + MoveOf(t, l, row)
    BY <1>4, <1>7, <1>8, <2>3, <2>7, <2>8
  <2>10. Told'
    BY <1>2, <2>3, <2>6, TransferTold
  <2>11. /\ lost \subseteq lost'
         /\ \A l \in Levels : l \notin {T.from, T.to} => level'[l] = level[l]
         /\ \A l \in Levels : level'[l].reserved = level[l].reserved
         /\ \A l \in Levels : level'[l].transit = level[l].transit
    BY <1>7, <2>3
  <2> QED BY <1>4, <1>5, <1>6, <2>3, <2>4, <2>9, <2>10, <2>11, TransferAgreed
<1> QED BY <1>9, <1>10, <1>11

-----------------------------------------------------------------------------
(* Reservations.                                                             *)

LEMMA BookingAgreed ==
  ASSUME Kept, PiecesOK, Agreed, NEW b \in Bookings, NEW status, booking' = [booking EXCEPT ![b] = status],
         OnlyBookings, raced' = raced, lost \subseteq lost',
         \A l \in Levels : l # BookingOf[b].lv => level'[l] = level[l],
         level'[BookingOf[b].lv].transit = level[BookingOf[b].lv].transit,
         b \notin raced =>
           level'[BookingOf[b].lv].reserved
             = level[BookingOf[b].lv].reserved - BookingFor(b, BookingOf[b].lv, booking[b], "active")
                 + BookingFor(b, BookingOf[b].lv, status, "active"),
         b \notin raced =>
           Stock(level'[BookingOf[b].lv])
             = Stock(level[BookingOf[b].lv]) + BookingFor(b, BookingOf[b].lv, booking[b], "consumed")
                 - BookingFor(b, BookingOf[b].lv, status, "consumed")
  PROVE  Agreed'
<1>0. LevelsOK /\ DocsOK /\ DOMAIN booking = Bookings
  BY DEF Kept, DocsOK
<1>1. PICK old : old = booking[b]
  OBVIOUS
<1> SUFFICES ASSUME NEW l \in Levels PROVE Explains(l)' /\ Promises(l)'
  BY DEF Agreed
<1>2. Explains(l) /\ Promises(l)
  BY DEF Agreed
<1>3. ASSUME NEW s
      PROVE  Booked(l, booking', s) = Booked(l, booking, s) - BookingFor(b, l, old, s) + BookingFor(b, l, status, s)
  <2>1. PICK rows, new : rows = booking /\ new = booking'
    OBVIOUS
  <2>2. Rebooked(rows, new, b, status)
    BY <1>0, <2>1 DEF Rebooked
  <2>3. Booked(l, new, s) = Booked(l, rows, s) - BookingFor(b, l, rows[b], s) + BookingFor(b, l, status, s)
    BY <2>2, BookedChanges
  <2> QED BY <1>1, <2>1, <2>3
<1>4. \A x, s : BookingFor(b, l, x, s) \in Int /\ (l # BookingOf[b].lv => BookingFor(b, l, x, s) = 0)
  BY Constants DEF BookingFor
<1>5. /\ Booked(l, booking, "consumed") \in Int /\ Booked(l, booking, "active") \in Int
      /\ Stock(level[l]) \in Int /\ level[l].transit \in Int /\ level[l].reserved \in Int
  BY <1>0, BookedTyped, StockTyped
<1>6. Explains(l)'
  <2>1. PICK d \in Int : d = BookingFor(b, l, old, "consumed") - BookingFor(b, l, status, "consumed")
    BY <1>4
  <2>2. Explained(l)' = Explained(l) + d
    <3>1. /\ loose' = loose /\ made' = made /\ adjust' = adjust /\ count' = count /\ transfer' = transfer
      BY DEF OnlyBookings
    <3>2. Booked(l, booking', "consumed") = Booked(l, booking, "consumed") - d
      <4>1. PICK s : s = "consumed"
        OBVIOUS
      <4>2. PICK x \in Int, y \in Int : x = BookingFor(b, l, old, s) /\ y = BookingFor(b, l, status, s)
        BY <1>4
      <4>3. Booked(l, booking', s) = Booked(l, booking, s) - x + y
        BY <1>3, <4>2
      <4> QED BY <1>5, <2>1, <4>1, <4>2, <4>3
    <3>3. /\ Adjusted(l, adjust') = Adjusted(l, adjust) /\ Corrected(l, count') = Corrected(l, count)
          /\ Moved(l, transfer') = Moved(l, transfer) /\ Used(l, made') = Used(l, made)
          /\ loose'[l] = loose[l] /\ made'[l] = made[l]
      BY <3>1
    <3>4. PICK m, a, c, u, k : /\ m = Moved(l, transfer) /\ a = Adjusted(l, adjust) /\ c = Corrected(l, count)
                              /\ u = Used(l, made) /\ k = Booked(l, booking, "consumed")
      OBVIOUS
    <3>5. /\ m \in Int /\ a \in Int /\ c \in Int /\ u \in Int /\ k \in Int
          /\ Opening[l] \in Int /\ loose[l] \in Int /\ made[l] \in Int
      BY <1>0, <3>4, SumsTyped
    <3>6. Explained(l) = Opening[l] + loose[l] + made[l] + m + a + c - k - u
      BY <3>4, ExplainedIs
    <3>7. Explained(l)' = Opening[l] + loose[l] + made[l] + m + a + c - (k - d) - u
      BY <3>2, <3>3, <3>4, ExplainedIs
    <3> QED BY <2>1, <3>5, <3>6, <3>7
  <2>3. ASSUME Touching(l) \cap raced = {} PROVE Stock(level'[l]) = Stock(level[l]) + d
    <3>1. CASE l = BookingOf[b].lv
      <4>1. b \notin raced
        BY <2>3, <3>1 DEF Touching
      <4> QED BY <1>1, <1>4, <1>5, <2>1, <3>1, <4>1
    <3>2. CASE l # BookingOf[b].lv
      BY <1>4, <1>5, <2>1, <3>2
    <3> QED BY <3>1, <3>2
  <2> QED BY <1>2, <2>2, <2>3, ExplainsMoves
<1>7. Promises(l)'
  <2>1. ASSUME HeldAt(l) \cap raced = {} PROVE level'[l].reserved = Booked(l, booking', "active")
    <3>1. level[l].reserved = Booked(l, booking, "active")
      BY <1>2, <2>1 DEF Promises
    <3>2. PICK s : s = "active"
      OBVIOUS
    <3>3. PICK x \in Int, y \in Int : x = BookingFor(b, l, old, s) /\ y = BookingFor(b, l, status, s)
      BY <1>4
    <3>4. Booked(l, booking', s) = Booked(l, booking, s) - x + y
      BY <1>3, <3>3
    <3>5. CASE l = BookingOf[b].lv
      <4>1. b \notin raced
        BY <2>1, <3>5 DEF HeldAt
      <4>2. level'[l].reserved = level[l].reserved - x + y
        BY <1>1, <3>2, <3>3, <3>5, <4>1
      <4> QED BY <3>1, <3>2, <3>4, <4>2
    <3>6. CASE l # BookingOf[b].lv
      <4>1. x = 0 /\ y = 0 /\ level'[l] = level[l]
        BY <1>4, <3>3, <3>6
      <4> QED BY <1>5, <3>1, <3>2, <3>4, <4>1
    <3> QED BY <3>5, <3>6
  <2>2. Inbound(l) \cap raced = {} => level'[l].transit = Owed(l, transfer')
    BY <1>2 DEF Promises, OnlyBookings
  <2> QED BY <2>1, <2>2 DEF Promises, Inbound, HeldAt, Local
<1> QED BY <1>6, <1>7

LEMMA ReserveAgreed ==
  ASSUME DInv, NEW b \in Bookings, ReserveQty(b)
  PROVE  Told' /\ Agreed'
<1> DEFINE l == BookingOf[b].lv
           q == BookingOf[b].qty
<1>0. Kept /\ Told /\ Agreed /\ DocsOK /\ LevelsOK /\ PiecesOK /\ l \in Levels /\ q \in Nat
  BY Constants DEF DInv, Kept, Told
<1>1. /\ booking[b] = "none" /\ booking' = [booking EXCEPT ![b] = "active"]
      /\ level' = [level EXCEPT ![l].reserved = @ + q]
      /\ OnlyBookings /\ UNCHANGED <<handler, raced, lost>>
  BY DEF ReserveQty, Once
<1>2. HandlersSeen' /\ HandlersApart'
  <2>1. \A x \in Bookings : booking[x] = "none" \/ booking'[x] = booking[x]
    BY <1>1
  <2> QED BY <1>1, <2>1, HandlersOnce DEF OnlyBookings
<1>3. PiecesOK' /\ DocsRight'
  BY <1>0, <1>1 DEF Told, PiecesOK, DocsRight, OnlyBookings, KeysRight, NoKeys
<1>4. level[l] \in Quantities /\ DOMAIN level = Levels
  BY <1>0 DEF LevelsOK
<1>5. level'[l] = [level[l] EXCEPT !.reserved = @ + q] /\ \A m \in Levels : m # l => level'[m] = level[m]
  BY <1>0, <1>1, <1>4
<1>6. /\ level'[l].reserved = level[l].reserved + q /\ level'[l].transit = level[l].transit
      /\ Stock(level'[l]) = Stock(level[l])
  BY <1>4, <1>5 DEF Quantities, Stock
<1>7. /\ BookingFor(b, l, booking[b], "active") = 0 /\ BookingFor(b, l, "active", "active") = q
      /\ BookingFor(b, l, booking[b], "consumed") = 0 /\ BookingFor(b, l, "active", "consumed") = 0
  BY <1>1 DEF BookingFor
<1>8. level[l].reserved \in Int /\ Stock(level[l]) \in Int
  BY <1>0, StockTyped
<1>9. PICK status : status = "active"
  OBVIOUS
<1>10. /\ level'[l].reserved = level[l].reserved - BookingFor(b, l, booking[b], "active")
                                 + BookingFor(b, l, status, "active")
       /\ Stock(level'[l]) = Stock(level[l]) + BookingFor(b, l, booking[b], "consumed")
                               - BookingFor(b, l, status, "consumed")
  BY <1>0, <1>6, <1>7, <1>8, <1>9
<1>11. Agreed'
  BY <1>0, <1>1, <1>5, <1>6, <1>9, <1>10, BookingAgreed
<1> QED BY <1>2, <1>3, <1>11 DEF Told

LEMMA BeginReleaseAgreed ==
  ASSUME DInv, NEW h \in Handlers, NEW b \in Bookings, BeginRelease(h, b)
  PROVE  Told' /\ Agreed'
<1>1. PICK action : booking[b] = "active" /\ Begin(h, "release", b, booking[b], action)
  BY DEF BeginRelease
<1>2. PICK s : s = [op |-> "release", id |-> b, seen |-> booking[b], arg |-> action]
  OBVIOUS
<1>3. s.op = "release" /\ s.id = b
  BY <1>2
<1>4. SeenOK(s)
  BY <1>1, <1>3 DEF SeenOK, TransferOps, AdjustOps, CountOps
<1> QED BY <1>1, <1>2, <1>3, <1>4, Begun

LEMMA ReleaseAgreed ==
  ASSUME DInv, NEW h \in Handlers, NEW b \in Bookings, Release(h, b)
  PROVE  Told' /\ Agreed'
<1> DEFINE l == BookingOf[b].lv
           q == BookingOf[b].qty
<1>0. Kept /\ Told /\ Agreed /\ DocsOK /\ LevelsOK /\ PiecesOK /\ HandlersOK /\ l \in Levels /\ q \in Nat
  BY Constants DEF DInv, Kept, Told
<1>1. Commits(h, "release", b) /\ handler[h].op = "release" /\ handler[h].id = b /\ handler[h] # Idle /\ raced' = raced
  BY DEF Release, Commits
<1>2. PICK action : action = handler[h].arg
  OBVIOUS
<1>3. action \in {"released", "consumed", "cancelled"}
  <2>1. handler[h] \in Working
    BY <1>0, <1>1 DEF HandlersOK
  <2> QED BY <1>1, <1>2, <2>1 DEF Working
<1>4. b \notin raced => booking[b] = "active"
  BY <1>0, <1>1 DEF Told, HandlersSeen, SeenOK
<1>5. CASE Refused
  BY <1>1, <1>5, RefusedTold
<1>6. CASE ~Refused
  <2>1. /\ level' = [level EXCEPT ![l] = Freed(level[l], b, action)]
        /\ booking' = [booking EXCEPT ![b] = action] /\ OnlyBookings /\ UNCHANGED lost
    BY <1>2, <1>6 DEF Release
  <2>2. HandlersSeen' /\ HandlersApart'
    <3>1. \A x \in Bookings : x # b => booking'[x] = booking[x]
      BY <2>1
    <3> QED BY <1>1, <2>1, <3>1, HandlersEnd DEF OnlyBookings
  <2>3. PiecesOK' /\ DocsRight'
    BY <1>0, <1>1, <2>1 DEF Told, PiecesOK, DocsRight, OnlyBookings, KeysRight, NoKeys
  <2>4. level[l] \in Quantities /\ DOMAIN level = Levels
    BY <1>0 DEF LevelsOK
  <2>5. level'[l] = Freed(level[l], b, action) /\ \A m \in Levels : m # l => level'[m] = level[m]
    BY <1>0, <2>1, <2>4
  <2>6. PICK sold \in Int : sold = IF action = "consumed" THEN q ELSE 0
    BY <1>0
  <2>7. /\ level'[l].reserved = level[l].reserved - q /\ level'[l].transit = level[l].transit
        /\ level'[l].hand = level[l].hand - sold /\ level'[l].damaged = level[l].damaged
    <3>1. level[l].hand \in Int
      BY <1>0, StockTyped
    <3> QED BY <2>4, <2>5, <2>6, <3>1 DEF Quantities, Freed
  <2>8. level[l].reserved \in Int /\ Stock(level[l]) \in Int /\ level[l].hand \in Int /\ level[l].damaged \in Int
    BY <1>0, StockTyped
  <2>9. Stock(level'[l]) = Stock(level[l]) - sold
    BY <2>6, <2>7, <2>8 DEF Stock
  <2>10. b \notin raced =>
           /\ BookingFor(b, l, booking[b], "active") = q /\ BookingFor(b, l, action, "active") = 0
           /\ BookingFor(b, l, booking[b], "consumed") = 0 /\ BookingFor(b, l, action, "consumed") = sold
    BY <1>3, <1>4, <2>6 DEF BookingFor
  <2>11. b \notin raced =>
           /\ level'[l].reserved = level[l].reserved - BookingFor(b, l, booking[b], "active")
                                     + BookingFor(b, l, action, "active")
           /\ Stock(level'[l]) = Stock(level[l]) + BookingFor(b, l, booking[b], "consumed")
                                   - BookingFor(b, l, action, "consumed")
    BY <1>0, <2>6, <2>7, <2>8, <2>9, <2>10
  <2>12. Agreed'
    BY <1>0, <1>1, <2>1, <2>5, <2>7, <2>11, BookingAgreed
  <2> QED BY <2>2, <2>3, <2>12 DEF Told
<1> QED BY <1>5, <1>6

-----------------------------------------------------------------------------
(* Adjustments and counts: only the quantity on hand of one level changes.   *)

LEMMA HandMoved ==
  ASSUME LevelsOK, NEW l \in Levels, NEW q \in Int, Hand(l, q) \/ (q = 0 /\ UNCHANGED level)
  PROVE  /\ \A m \in Levels : m # l => level'[m] = level[m]
         /\ \A m \in Levels : level'[m].reserved = level[m].reserved /\ level'[m].transit = level[m].transit
         /\ Stock(level'[l]) = Stock(level[l]) + q
<1>1. level[l] \in Quantities /\ DOMAIN level = Levels
  BY DEF LevelsOK
<1>2. level[l].hand \in Int /\ level[l].damaged \in Int
  BY <1>1 DEF Quantities
<1>3. CASE Hand(l, q)
  <2>1. level'[l] = [level[l] EXCEPT !.hand = @ + q] /\ \A m \in Levels : m # l => level'[m] = level[m]
    BY <1>1, <1>3 DEF Hand
  <2>2. /\ level'[l].hand = level[l].hand + q /\ level'[l].damaged = level[l].damaged
        /\ level'[l].reserved = level[l].reserved /\ level'[l].transit = level[l].transit
    BY <1>1, <2>1 DEF Quantities
  <2>3. Stock(level'[l]) = Stock(level[l]) + q
    BY <1>2, <2>2 DEF Stock
  <2> QED BY <2>1, <2>2, <2>3
<1>4. CASE q = 0 /\ UNCHANGED level
  BY <1>2, <1>4 DEF Stock
<1> QED BY <1>3, <1>4

(* What is promised does not change. *)
LEMMA PromisesStay ==
  ASSUME NEW l \in Levels, Promises(l), raced' = raced, UNCHANGED <<transfer, booking>>,
         level'[l].reserved = level[l].reserved, level'[l].transit = level[l].transit
  PROVE  Promises(l)'
BY DEF Promises, Inbound, HeldAt, Local

LEMMA AdjustAgreed ==
  ASSUME Kept, PiecesOK, Agreed, NEW a \in Adjusts, NEW row \in AdjustRows, SetAdjust(a, row), OnlyAdjusts,
         raced' = raced, UNCHANGED lost,
         \A m \in Levels : m # AdjustAt[a] => level'[m] = level[m],
         \A m \in Levels : level'[m].reserved = level[m].reserved /\ level'[m].transit = level[m].transit,
         a \notin raced =>
           Stock(level'[AdjustAt[a]]) = Stock(level[AdjustAt[a]]) - AdjustOf(a, AdjustAt[a], adjust[a])
                                         + AdjustOf(a, AdjustAt[a], row)
  PROVE  Agreed'
<1>0. LevelsOK /\ DocsOK /\ adjust \in [Adjusts -> AdjustRows] /\ adjust[a] \in AdjustRows
  BY DEF Kept, DocsOK
<1>1. PICK old \in AdjustRows : old = adjust[a]
  BY <1>0
<1>2. adjust' = [adjust EXCEPT ![a] = row]
  BY DEF SetAdjust
<1> SUFFICES ASSUME NEW l \in Levels PROVE Explains(l)' /\ Promises(l)'
  BY DEF Agreed
<1>3. Explains(l) /\ Promises(l)
  BY DEF Agreed
<1>4. Adjusted(l, adjust') = Adjusted(l, adjust) - AdjustOf(a, l, old) + AdjustOf(a, l, row)
  BY <1>0, <1>1, <1>2, AdjustedChanges
<1>5. \A x \in AdjustRows : AdjustOf(a, l, x) \in Int /\ (l # AdjustAt[a] => AdjustOf(a, l, x) = 0)
  BY DEF AdjustOf, AdjustRows
<1>6. PICK x \in Int, y \in Int : x = AdjustOf(a, l, old) /\ y = AdjustOf(a, l, row)
  BY <1>5
<1>7. Explains(l)'
  <2>1. PICK d \in Int : d = y - x
    BY <1>6
  <2>2. Explained(l)' = Explained(l) + d
    <3>1. /\ Moved(l, transfer') = Moved(l, transfer) /\ Corrected(l, count') = Corrected(l, count)
          /\ Booked(l, booking', "consumed") = Booked(l, booking, "consumed") /\ Used(l, made') = Used(l, made)
          /\ loose'[l] = loose[l] /\ made'[l] = made[l]
      BY DEF OnlyAdjusts
    <3>2. PICK m, c, u, k, i : /\ m = Moved(l, transfer) /\ c = Corrected(l, count) /\ u = Used(l, made)
                              /\ k = Booked(l, booking, "consumed") /\ i = Adjusted(l, adjust)
      OBVIOUS
    <3>3. /\ m \in Int /\ c \in Int /\ u \in Int /\ k \in Int /\ i \in Int
          /\ Opening[l] \in Int /\ loose[l] \in Int /\ made[l] \in Int
      BY <1>0, <3>2, SumsTyped
    <3>4. Explained(l) = Opening[l] + loose[l] + made[l] + m + i + c - k - u
      BY <3>2, ExplainedIs
    <3>5. Explained(l)' = Opening[l] + loose[l] + made[l] + m + (i - x + y) + c - k - u
      BY <1>4, <1>6, <3>1, <3>2, ExplainedIs
    <3> QED BY <1>6, <2>1, <3>3, <3>4, <3>5
  <2>3. ASSUME Touching(l) \cap raced = {} PROVE Stock(level'[l]) = Stock(level[l]) + d
    <3>1. Stock(level[l]) \in Int
      BY <1>0, StockTyped
    <3>2. CASE l = AdjustAt[a]
      <4>1. a \notin raced
        BY <2>3, <3>2 DEF Touching
      <4>2. Stock(level'[l]) = Stock(level[l]) - x + y
        BY <1>1, <1>6, <3>2, <4>1
      <4> QED BY <1>6, <2>1, <3>1, <4>2
    <3>3. CASE l # AdjustAt[a]
      <4>1. x = 0 /\ y = 0 /\ level'[l] = level[l]
        BY <1>5, <1>6, <3>3
      <4> QED BY <2>1, <3>1, <4>1
    <3> QED BY <3>2, <3>3
  <2> QED BY <1>3, <2>2, <2>3, ExplainsMoves
<1>8. Promises(l)'
  BY <1>3, PromisesStay DEF OnlyAdjusts
<1> QED BY <1>7, <1>8

(* The keys of the other adjustments stay. *)
OthersKeys(a) ==
  \A x \in Adjusts, g \in Nat, d \in {"apply", "reverse"} : x # a => (<<x, g, d>> \in keys' <=> <<x, g, d>> \in keys)

LEMMA AdjustRight ==
  ASSUME PiecesOK, DocsRight, NEW a \in Adjusts, NEW row, adjust \in [Adjusts -> AdjustRows],
         SetAdjust(a, row), OnlyAdjusts, raced' = raced, OthersKeys(a),
         a \notin raced => KeysRight(a, row)'
  PROVE  PiecesOK' /\ DocsRight'
<1>1. adjust' = [adjust EXCEPT ![a] = row]
  BY DEF SetAdjust
<1>2. ASSUME NEW x \in Adjusts, x \notin raced PROVE KeysRight(x, adjust[x])' 
  <2>1. CASE x = a
    <3>1. adjust'[a] = row
      BY <1>1
    <3> QED BY <1>2, <2>1, <3>1 DEF KeysRight, NoKeys
  <2>2. CASE x # a
    <3>1. KeysRight(x, adjust[x]) /\ adjust[x] \in AdjustRows /\ adjust'[x] = adjust[x]
      BY <1>1, <1>2, <2>2 DEF DocsRight
    <3>2. adjust[x].gen \in Nat
      BY <3>1 DEF AdjustRows
    <3>3. \A g \in Nat, d \in {"apply", "reverse"} : (<<x, g, d>> \in keys' <=> <<x, g, d>> \in keys)
      BY <2>2 DEF OthersKeys
    <3>4. NoKeys(x) => NoKeys(x)'
      BY <3>3 DEF NoKeys
    <3>5. <<x, adjust[x].gen, "apply">> \in keys => <<x, adjust[x].gen, "apply">> \in keys'
      BY <3>2, <3>3
    <3>6. (\A g \in Nat : <<x, g, "reverse">> \notin keys) => \A g \in Nat : <<x, g, "reverse">> \notin keys'
      BY <3>3
    <3> QED BY <3>1, <3>4, <3>5, <3>6 DEF KeysRight
  <2> QED BY <2>1, <2>2
<1> QED BY <1>2 DEF PiecesOK, DocsRight, OnlyAdjusts

(* A movement of a line: nothing when its key is known. *)
LEMMA LineMoves ==
  ASSUME LevelsOK, NEW a \in Adjusts, NEW row \in AdjustRows, NEW dir \in {"apply", "reverse"},
         Moves(a, row, dir), NEW q, q = IF dir = "apply" THEN row.qty ELSE -row.qty
  PROVE  /\ \A m \in Levels : m # AdjustAt[a] => level'[m] = level[m]
         /\ \A m \in Levels : level'[m].reserved = level[m].reserved /\ level'[m].transit = level[m].transit
         /\ OthersKeys(a) /\ keys \subseteq keys' /\ keys' \subseteq keys \cup {<<a, row.gen, dir>>}
         /\ q # 0 => <<a, row.gen, dir>> \in keys'
         /\ <<a, row.gen, dir>> \in keys => UNCHANGED level
         /\ <<a, row.gen, dir>> \notin keys => Stock(level'[AdjustAt[a]]) = Stock(level[AdjustAt[a]]) + q
<1>1. AdjustAt[a] \in Levels /\ q \in Int
  BY Constants DEF AdjustRows
<1>2. PICK k : k = <<a, row.gen, dir>>
  OBVIOUS
<1>3. IF q = 0 \/ k \in keys THEN UNCHANGED <<level, keys>> ELSE Hand(AdjustAt[a], q) /\ keys' = keys \cup {k}
  BY <1>2 DEF Moves, KeyOf
<1>4. CASE q = 0 \/ k \in keys
  <2>1. UNCHANGED level /\ keys' = keys
    BY <1>3, <1>4
  <2>2. Stock(level[AdjustAt[a]]) \in Int
    BY <1>1, StockTyped
  <2>3. k \notin keys => Stock(level'[AdjustAt[a]]) = Stock(level[AdjustAt[a]]) + q
    BY <1>4, <2>1, <2>2
  <2> QED BY <1>2, <1>4, <2>1, <2>3 DEF OthersKeys
<1>5. CASE ~(q = 0 \/ k \in keys)
  <2>1. Hand(AdjustAt[a], q) /\ keys' = keys \cup {k}
    BY <1>3, <1>5
  <2>2. OthersKeys(a)
    BY <1>2, <2>1 DEF OthersKeys
  <2> QED BY <1>1, <1>2, <1>5, <2>1, <2>2, HandMoved
<1> QED BY <1>4, <1>5

(* What writing an adjustment does to its level and its keys. *)
Rewritten(a, row) ==
  /\ \A m \in Levels : m # AdjustAt[a] => level'[m] = level[m]
  /\ \A m \in Levels : level'[m].reserved = level[m].reserved /\ level'[m].transit = level[m].transit
  /\ OthersKeys(a)
  /\ a \notin raced =>
       /\ KeysRight(a, row)'
       /\ Stock(level'[AdjustAt[a]]) = Stock(level[AdjustAt[a]]) - AdjustOf(a, AdjustAt[a], adjust[a])
                                         + AdjustOf(a, AdjustAt[a], row)

Unapplied(a) == NoKeys(a) /\ adjust[a].status \in {"none", "draft", "pending"}

LEMMA LineApplied ==
  ASSUME LevelsOK, NEW a \in Adjusts, NEW row \in AdjustRows, row.status = "adjusted",
         Moves(a, row, "apply"), a \notin raced => Unapplied(a)
  PROVE  Rewritten(a, row)
<1>1. PICK dir, q : dir \in {"apply", "reverse"} /\ dir = "apply" /\ q = row.qty
  OBVIOUS
<1>2. row.gen \in Nat /\ q \in Int /\ Moves(a, row, dir) /\ q = IF dir = "apply" THEN row.qty ELSE -row.qty
  BY <1>1 DEF AdjustRows
<1>3. /\ \A m \in Levels : m # AdjustAt[a] => level'[m] = level[m]
      /\ \A m \in Levels : level'[m].reserved = level[m].reserved /\ level'[m].transit = level[m].transit
      /\ OthersKeys(a) /\ keys \subseteq keys' /\ keys' \subseteq keys \cup {<<a, row.gen, dir>>}
      /\ q # 0 => <<a, row.gen, dir>> \in keys'
      /\ <<a, row.gen, dir>> \notin keys => Stock(level'[AdjustAt[a]]) = Stock(level[AdjustAt[a]]) + q
  BY <1>1, <1>2, LineMoves
<1>4. ASSUME a \notin raced
      PROVE  /\ KeysRight(a, row)'
             /\ Stock(level'[AdjustAt[a]]) = Stock(level[AdjustAt[a]]) - AdjustOf(a, AdjustAt[a], adjust[a])
                                               + AdjustOf(a, AdjustAt[a], row)
  <2>1. NoKeys(a) /\ adjust[a].status \in {"none", "draft", "pending"}
    BY <1>4 DEF Unapplied
  <2>2. \A g \in Nat : <<a, g, "reverse">> \notin keys'
    BY <1>1, <1>3, <2>1 DEF NoKeys
  <2>3. KeysRight(a, row)'
    BY <1>1, <1>3, <2>2 DEF KeysRight
  <2>4. <<a, row.gen, dir>> \notin keys
    BY <1>1, <1>2, <2>1 DEF NoKeys
  <2>5. AdjustOf(a, AdjustAt[a], adjust[a]) = 0 /\ AdjustOf(a, AdjustAt[a], row) = q
    BY <1>1, <2>1 DEF AdjustOf
  <2>6. Stock(level[AdjustAt[a]]) \in Int
    BY Constants, StockTyped
  <2> QED BY <1>2, <1>3, <2>3, <2>4, <2>5, <2>6
<1> QED BY <1>3, <1>4 DEF Rewritten

LEMMA LineKept ==
  ASSUME LevelsOK, NEW a \in Adjusts, NEW row \in AdjustRows, row.status # "adjusted",
         UNCHANGED <<level, keys>>, a \notin raced => Unapplied(a)
  PROVE  Rewritten(a, row)
<1>1. a \notin raced => /\ AdjustOf(a, AdjustAt[a], adjust[a]) = 0 /\ AdjustOf(a, AdjustAt[a], row) = 0
                       /\ KeysRight(a, row)'
  BY DEF AdjustOf, Unapplied, KeysRight, NoKeys
<1>2. Stock(level[AdjustAt[a]]) \in Int
  BY Constants, StockTyped
<1> QED BY <1>1, <1>2 DEF Rewritten, OthersKeys

(* A second finalization moves nothing. *)
LEMMA LineAgain ==
  ASSUME LevelsOK, DocsOK, NEW a \in Adjusts, NEW row \in AdjustRows, row.qty = adjust[a].qty, row.gen = adjust[a].gen,
         row.status = "adjusted", Moves(a, row, "apply"),
         a \notin raced => KeysRight(a, adjust[a]) /\ adjust[a].status = "adjusted"
  PROVE  Rewritten(a, row)
<1>1. PICK dir, q : dir \in {"apply", "reverse"} /\ dir = "apply" /\ q = row.qty
  OBVIOUS
<1>2. row.gen \in Nat /\ q \in Int /\ Moves(a, row, dir) /\ q = IF dir = "apply" THEN row.qty ELSE -row.qty
  BY <1>1 DEF AdjustRows
<1>3. /\ \A m \in Levels : m # AdjustAt[a] => level'[m] = level[m]
      /\ \A m \in Levels : level'[m].reserved = level[m].reserved /\ level'[m].transit = level[m].transit
      /\ OthersKeys(a) /\ keys \subseteq keys' /\ keys' \subseteq keys \cup {<<a, row.gen, dir>>}
      /\ <<a, row.gen, dir>> \in keys => UNCHANGED level
      /\ <<a, row.gen, dir>> \notin keys => Stock(level'[AdjustAt[a]]) = Stock(level[AdjustAt[a]]) + q
  BY <1>1, <1>2, LineMoves
<1>4. ASSUME a \notin raced
      PROVE  /\ KeysRight(a, row)'
             /\ Stock(level'[AdjustAt[a]]) = Stock(level[AdjustAt[a]]) - AdjustOf(a, AdjustAt[a], adjust[a])
                                               + AdjustOf(a, AdjustAt[a], row)
  <2>1. /\ row.qty # 0 => <<a, row.gen, "apply">> \in keys
        /\ \A g \in Nat : <<a, g, "reverse">> \notin keys
    BY <1>4 DEF KeysRight
  <2>2. KeysRight(a, row)'
    BY <1>1, <1>3, <2>1 DEF KeysRight
  <2>3. AdjustOf(a, AdjustAt[a], adjust[a]) = q /\ AdjustOf(a, AdjustAt[a], row) = q
    BY <1>1, <1>4 DEF AdjustOf
  <2>4. Stock(level[AdjustAt[a]]) \in Int
    BY Constants, StockTyped
  <2>5. Stock(level'[AdjustAt[a]]) = Stock(level[AdjustAt[a]])
    <3>1. CASE <<a, row.gen, dir>> \in keys
      BY <1>3, <3>1
    <3>2. CASE <<a, row.gen, dir>> \notin keys
      <4>1. q = 0
        BY <1>1, <2>1, <3>2
      <4> QED BY <1>3, <2>4, <3>2, <4>1
    <3> QED BY <3>1, <3>2
  <2> QED BY <1>2, <2>2, <2>3, <2>4, <2>5
<1> QED BY <1>3, <1>4 DEF Rewritten

(* A reversal takes back what the line applied. *)
LEMMA LineReversed ==
  ASSUME LevelsOK, DocsOK, NEW a \in Adjusts, NEW row \in AdjustRows, row.qty = adjust[a].qty,
         row.status = "cancelled", Moves(a, row, "reverse"),
         a \notin raced => KeysRight(a, adjust[a]) /\ adjust[a].status = "adjusted"
  PROVE  Rewritten(a, row)
<1>1. PICK dir, q : dir \in {"apply", "reverse"} /\ dir = "reverse" /\ q = -row.qty
  OBVIOUS
<1>2. row.gen \in Nat /\ row.qty \in Int /\ q \in Int /\ Moves(a, row, dir)
      /\ q = IF dir = "apply" THEN row.qty ELSE -row.qty
  BY <1>1 DEF AdjustRows
<1>3. /\ \A m \in Levels : m # AdjustAt[a] => level'[m] = level[m]
      /\ \A m \in Levels : level'[m].reserved = level[m].reserved /\ level'[m].transit = level[m].transit
      /\ OthersKeys(a)
      /\ <<a, row.gen, dir>> \notin keys => Stock(level'[AdjustAt[a]]) = Stock(level[AdjustAt[a]]) + q
  BY <1>1, <1>2, LineMoves
<1>4. ASSUME a \notin raced
      PROVE  Stock(level'[AdjustAt[a]]) = Stock(level[AdjustAt[a]]) - AdjustOf(a, AdjustAt[a], adjust[a])
                                           + AdjustOf(a, AdjustAt[a], row)
  <2>1. \A g \in Nat : <<a, g, "reverse">> \notin keys
    BY <1>4 DEF KeysRight
  <2>2. AdjustOf(a, AdjustAt[a], adjust[a]) = row.qty /\ AdjustOf(a, AdjustAt[a], row) = 0
    BY <1>4 DEF AdjustOf
  <2>3. Stock(level[AdjustAt[a]]) \in Int
    BY Constants, StockTyped
  <2> QED BY <1>1, <1>2, <1>3, <2>1, <2>2, <2>3
<1>5. KeysRight(a, row)'
  BY DEF KeysRight
<1> QED BY <1>3, <1>4, <1>5 DEF Rewritten

(* The transaction of a handler that writes an adjustment. *)
LEMMA AdjustEnds ==
  ASSUME DInv, NEW h \in Handlers, NEW op \in AdjustOps, NEW a \in Adjusts, Commits(h, op, a),
         NEW row \in AdjustRows, SetAdjust(a, row), OnlyAdjusts, UNCHANGED lost, Rewritten(a, row),
         op = "finalize" => row.status = "adjusted"
  PROVE  Told' /\ Agreed'
<1>0. Kept /\ Told /\ Agreed /\ DocsOK /\ PiecesOK /\ DocsRight /\ raced' = raced
      /\ adjust \in [Adjusts -> AdjustRows]
  BY DEF DInv, Kept, Told, Commits, DocsOK
<1>1. adjust' = [adjust EXCEPT ![a] = row]
  BY DEF SetAdjust
<1>2. HandlersSeen' /\ HandlersApart'
  <2>1. op # "idle" /\ \A x \in Adjusts : x # a => adjust'[x] = adjust[x]
    BY <1>1 DEF AdjustOps
  <2>2. op = "finalize" => adjust'[a].status \in {"draft", "pending", "adjusted"}
    BY <1>0, <1>1
  <2> QED BY <2>1, <2>2, HandlersEnd DEF OnlyAdjusts
<1>3. PiecesOK' /\ DocsRight'
  BY <1>0, AdjustRight DEF Rewritten
<1>4. Agreed'
  BY <1>0, AdjustAgreed DEF Rewritten
<1> QED BY <1>2, <1>3, <1>4 DEF Told

LEMMA CreateAdjustAgreed ==
  ASSUME DInv, NEW a \in Adjusts, NEW s \in {"draft", "pending", "adjusted"}, NEW q \in Deltas,
         CreateAdjust(a, s, q)
  PROVE  Told' /\ Agreed'
<1>0. Kept /\ Told /\ Agreed /\ DocsOK /\ LevelsOK /\ PiecesOK /\ DocsRight /\ q \in Int
      /\ adjust \in [Adjusts -> AdjustRows]
  BY DocumentsAssumption DEF DInv, Kept, Told, DocumentsAssumption, DocsOK
<1>1. PICK row : row = [status |-> s, qty |-> q, gen |-> 1]
  OBVIOUS
<1>2. row \in AdjustRows /\ row.status = s
  BY <1>0, <1>1 DEF AdjustRows
<1>3. /\ adjust[a].status = "none" /\ SetAdjust(a, row) /\ OnlyAdjusts /\ UNCHANGED <<handler, raced, lost>>
      /\ s = "adjusted" => Moves(a, row, "apply")
      /\ s # "adjusted" => UNCHANGED <<level, keys>>
  BY <1>1 DEF CreateAdjust, Once, NoAdjust
<1>4. adjust' = [adjust EXCEPT ![a] = row]
  BY <1>3 DEF SetAdjust
<1>5. a \notin raced => Unapplied(a)
  BY <1>0, <1>3 DEF DocsRight, KeysRight, Unapplied
<1>6. Rewritten(a, row)
  BY <1>0, <1>2, <1>3, <1>5, LineApplied, LineKept
<1>7. HandlersSeen' /\ HandlersApart'
  <2>1. \A x \in Adjusts : adjust[x].status = "none" \/ adjust'[x] = adjust[x]
    BY <1>3, <1>4
  <2> QED BY <1>3, <2>1, HandlersOnce DEF OnlyAdjusts
<1>8. PiecesOK' /\ DocsRight'
  BY <1>0, <1>3, <1>6, AdjustRight DEF Rewritten
<1>9. Agreed'
  BY <1>0, <1>2, <1>3, <1>6, AdjustAgreed DEF Rewritten
<1> QED BY <1>7, <1>8, <1>9 DEF Told

LEMMA BeginAdjustAgreed ==
  ASSUME DInv, NEW h \in Handlers, NEW a \in Adjusts, BeginAdjust(h, a)
  PROVE  Told' /\ Agreed'
<1>1. PICK op \in AdjustOps : \E arg :
        /\ Begin(h, op, a, adjust[a], arg)
        /\ op = "finalize" => adjust[a].status \in {"draft", "pending"}
        /\ op = "annul" => adjust[a].status \in {"draft", "pending", "adjusted"}
        /\ op \in {"delete", "update"} => adjust[a].status = "draft"
  BY DEF BeginAdjust, AdjustOps
<1>2. PICK arg : Begin(h, op, a, adjust[a], arg)
  BY <1>1
<1>3. PICK s : s = [op |-> op, id |-> a, seen |-> adjust[a], arg |-> arg]
  OBVIOUS
<1>4. s.op = op /\ s.id = a /\ s.seen = adjust[a] /\ op # "idle"
  BY <1>3 DEF AdjustOps
<1>5. SeenOK(s)
  BY <1>1, <1>4 DEF SeenOK, SeenAdjust, TransferOps, AdjustOps, CountOps
<1> QED BY <1>2, <1>3, <1>4, <1>5, Begun

(* What a handler of an adjustment has. *)
LEMMA AdjustSeen ==
  ASSUME DInv, NEW h \in Handlers, NEW op \in AdjustOps, NEW a \in Adjusts, Commits(h, op, a)
  PROVE  /\ DocsOK /\ LevelsOK /\ adjust[a] \in AdjustRows /\ op # "idle"
         /\ handler[h].op = op /\ handler[h].id = a /\ handler[h] \in Working
         /\ a \notin raced => KeysRight(a, adjust[a]) /\ SeenAdjust(handler[h], adjust[a])
<1>1. handler[h].op = op /\ handler[h].id = a /\ handler[h] # Idle /\ op # "idle"
  BY DEF Commits, AdjustOps
<1>2. SeenOK(handler[h]) /\ DocsOK /\ LevelsOK /\ HandlersOK /\ DocsRight
  BY DEF DInv, Told, HandlersSeen, Kept
<1> QED BY <1>1, <1>2 DEF SeenOK, DocsRight, DocsOK, HandlersOK

LEMMA FinalizeAgreed ==
  ASSUME DInv, NEW h \in Handlers, NEW a \in Adjusts, Finalize(h, a)
  PROVE  Told' /\ Agreed'
<1>1. PICK op : op \in AdjustOps /\ op = "finalize"
  BY DEF AdjustOps
<1>2. Commits(h, op, a)
  BY <1>1 DEF Finalize
<1>3. /\ DocsOK /\ LevelsOK /\ adjust[a] \in AdjustRows /\ op # "idle"
      /\ a \notin raced => KeysRight(a, adjust[a]) /\ adjust[a].status \in {"draft", "pending", "adjusted"}
  BY <1>1, <1>2, AdjustSeen DEF SeenAdjust
<1>4. PICK row : row = [adjust[a] EXCEPT !.status = "adjusted"]
  OBVIOUS
<1>5. row \in AdjustRows /\ row.status = "adjusted" /\ row.qty = adjust[a].qty /\ row.gen = adjust[a].gen
  BY <1>3, <1>4 DEF AdjustRows
<1>6. CASE Refused
  BY <1>2, <1>3, <1>6, RefusedTold
<1>7. CASE ~Refused
  <2>1. SetAdjust(a, row) /\ Moves(a, row, "apply") /\ OnlyAdjusts /\ UNCHANGED lost
    BY <1>4, <1>7 DEF Finalize
  <2>2. Rewritten(a, row)
    <3>1. CASE adjust[a].status = "adjusted"
      BY <1>3, <1>5, <2>1, <3>1, LineAgain
    <3>2. CASE adjust[a].status # "adjusted"
      <4>1. a \notin raced => Unapplied(a)
        BY <1>3, <3>2 DEF KeysRight, Unapplied
      <4> QED BY <1>3, <1>5, <2>1, <4>1, LineApplied
    <3> QED BY <3>1, <3>2
  <2> QED BY <1>1, <1>2, <1>5, <2>1, <2>2, AdjustEnds
<1> QED BY <1>6, <1>7

LEMMA UpdateAdjustAgreed ==
  ASSUME DInv, NEW h \in Handlers, NEW a \in Adjusts, UpdateAdjust(h, a)
  PROVE  Told' /\ Agreed'
<1>1. PICK op : op \in AdjustOps /\ op = "update"
  BY DEF AdjustOps
<1>2. Commits(h, op, a)
  BY <1>1 DEF UpdateAdjust
<1>3. /\ DocsOK /\ LevelsOK /\ adjust[a] \in AdjustRows /\ op # "idle"
      /\ handler[h].op = op /\ handler[h] \in Working
      /\ a \notin raced => KeysRight(a, adjust[a]) /\ adjust[a].status = "draft"
  BY <1>1, <1>2, AdjustSeen DEF SeenAdjust
<1>4. PICK new : new = handler[h].arg
  OBVIOUS
<1>5. new \in [status: {"draft", "pending", "adjusted"}, qty: Int]
  BY <1>1, <1>3, <1>4 DEF Working
<1>6. PICK row : row = [status |-> new.status, qty |-> new.qty, gen |-> adjust[a].gen + 1]
  OBVIOUS
<1>7. row \in AdjustRows /\ row.status = new.status
  BY <1>3, <1>5, <1>6 DEF AdjustRows
<1>8. CASE Refused
  BY <1>2, <1>3, <1>8, RefusedTold
<1>9. CASE ~Refused
  <2>1. /\ SetAdjust(a, row) /\ OnlyAdjusts /\ UNCHANGED lost
        /\ new.status = "adjusted" => Moves(a, row, "apply")
        /\ new.status # "adjusted" => UNCHANGED <<level, keys>>
    BY <1>4, <1>6, <1>9 DEF UpdateAdjust
  <2>2. a \notin raced => Unapplied(a)
    BY <1>3 DEF KeysRight, Unapplied
  <2>3. Rewritten(a, row)
    BY <1>3, <1>7, <2>1, <2>2, LineApplied, LineKept
  <2>4. op # "finalize"
    BY <1>1
  <2> QED BY <1>1, <1>2, <1>7, <2>1, <2>3, <2>4, AdjustEnds
<1> QED BY <1>8, <1>9

LEMMA AnnulAgreed ==
  ASSUME DInv, NEW h \in Handlers, NEW a \in Adjusts, Annul(h, a)
  PROVE  Told' /\ Agreed'
<1>1. PICK op : op \in AdjustOps /\ op = "annul"
  BY DEF AdjustOps
<1>2. Commits(h, op, a)
  BY <1>1 DEF Annul
<1>3. /\ DocsOK /\ LevelsOK /\ adjust[a] \in AdjustRows /\ op # "idle"
      /\ a \notin raced => /\ KeysRight(a, adjust[a]) /\ handler[h].seen = adjust[a]
                           /\ adjust[a].status \in {"draft", "pending", "adjusted"}
  BY <1>1, <1>2, AdjustSeen DEF SeenAdjust
<1>4. PICK row : row = [adjust[a] EXCEPT !.status = "cancelled"]
  OBVIOUS
<1>5. row \in AdjustRows /\ row.status = "cancelled" /\ row.qty = adjust[a].qty
  BY <1>3, <1>4 DEF AdjustRows
<1>6. CASE Refused
  BY <1>2, <1>3, <1>6, RefusedTold
<1>7. CASE ~Refused
  <2>1. /\ SetAdjust(a, row) /\ OnlyAdjusts /\ UNCHANGED lost
        /\ handler[h].seen.status = "adjusted" => Moves(a, row, "reverse")
        /\ handler[h].seen.status # "adjusted" => UNCHANGED <<level, keys>>
    BY <1>4, <1>7 DEF Annul
  <2>2. Rewritten(a, row)
    <3>1. CASE handler[h].seen.status = "adjusted"
      BY <1>3, <1>5, <2>1, <3>1, LineReversed
    <3>2. CASE handler[h].seen.status # "adjusted"
      <4>1. a \notin raced => Unapplied(a)
        BY <1>3, <3>2 DEF KeysRight, Unapplied
      <4> QED BY <1>3, <1>5, <2>1, <3>2, <4>1, LineKept
    <3> QED BY <3>1, <3>2
  <2>3. op # "finalize"
    BY <1>1
  <2> QED BY <1>1, <1>2, <1>5, <2>1, <2>2, <2>3, AdjustEnds
<1> QED BY <1>6, <1>7

LEMMA DeleteAdjustAgreed ==
  ASSUME DInv, NEW h \in Handlers, NEW a \in Adjusts, DeleteAdjust(h, a)
  PROVE  Told' /\ Agreed'
<1>1. PICK op : op \in AdjustOps /\ op = "delete"
  BY DEF AdjustOps
<1>2. Commits(h, op, a) /\ SetAdjust(a, NoAdjust) /\ OnlyAdjusts /\ UNCHANGED <<level, keys, lost>>
  BY <1>1 DEF DeleteAdjust
<1>3. /\ LevelsOK /\ adjust[a] \in AdjustRows
      /\ a \notin raced => KeysRight(a, adjust[a]) /\ adjust[a].status = "draft"
  BY <1>1, <1>2, AdjustSeen DEF SeenAdjust
<1>4. NoAdjust \in AdjustRows /\ NoAdjust.status # "adjusted" /\ op # "finalize"
  BY <1>1 DEF NoAdjust, AdjustRows
<1>5. a \notin raced => Unapplied(a)
  BY <1>3 DEF KeysRight, Unapplied
<1>6. Rewritten(a, NoAdjust)
  BY <1>2, <1>3, <1>4, <1>5, LineKept
<1> QED BY <1>1, <1>2, <1>4, <1>6, AdjustEnds

LEMMA CountAgreed ==
  ASSUME Kept, PiecesOK, Agreed, NEW c \in Counts, NEW row \in CountRows, SetCount(c, row), OnlyCounts,
         raced' = raced, UNCHANGED lost,
         \A m \in Levels : m # CountAt[c] => level'[m] = level[m],
         \A m \in Levels : level'[m].reserved = level[m].reserved /\ level'[m].transit = level[m].transit,
         c \notin raced =>
           Stock(level'[CountAt[c]]) = Stock(level[CountAt[c]]) - CorrectOf(c, CountAt[c], count[c])
                                         + CorrectOf(c, CountAt[c], row)
  PROVE  Agreed'
<1>0. LevelsOK /\ DocsOK /\ count \in [Counts -> CountRows] /\ count[c] \in CountRows
  BY DEF Kept, DocsOK
<1>1. PICK old \in CountRows : old = count[c]
  BY <1>0
<1>2. count' = [count EXCEPT ![c] = row]
  BY DEF SetCount
<1> SUFFICES ASSUME NEW l \in Levels PROVE Explains(l)' /\ Promises(l)'
  BY DEF Agreed
<1>3. Explains(l) /\ Promises(l)
  BY DEF Agreed
<1>4. Corrected(l, count') = Corrected(l, count) - CorrectOf(c, l, old) + CorrectOf(c, l, row)
  BY <1>0, <1>1, <1>2, CorrectedChanges
<1>5. \A x \in CountRows : CorrectOf(c, l, x) \in Int /\ (l # CountAt[c] => CorrectOf(c, l, x) = 0)
  BY DEF CorrectOf, CountRows
<1>6. PICK x \in Int, y \in Int : x = CorrectOf(c, l, old) /\ y = CorrectOf(c, l, row)
  BY <1>5
<1>7. Explains(l)'
  <2>1. PICK d \in Int : d = y - x
    BY <1>6
  <2>2. Explained(l)' = Explained(l) + d
    <3>1. /\ Moved(l, transfer') = Moved(l, transfer) /\ Adjusted(l, adjust') = Adjusted(l, adjust)
          /\ Booked(l, booking', "consumed") = Booked(l, booking, "consumed") /\ Used(l, made') = Used(l, made)
          /\ loose'[l] = loose[l] /\ made'[l] = made[l]
      BY DEF OnlyCounts
    <3>2. PICK m, a, u, k, i : /\ m = Moved(l, transfer) /\ a = Adjusted(l, adjust) /\ u = Used(l, made)
                              /\ k = Booked(l, booking, "consumed") /\ i = Corrected(l, count)
      OBVIOUS
    <3>3. /\ m \in Int /\ a \in Int /\ u \in Int /\ k \in Int /\ i \in Int
          /\ Opening[l] \in Int /\ loose[l] \in Int /\ made[l] \in Int
      BY <1>0, <3>2, SumsTyped
    <3>4. Explained(l) = Opening[l] + loose[l] + made[l] + m + a + i - k - u
      BY <3>2, ExplainedIs
    <3>5. Explained(l)' = Opening[l] + loose[l] + made[l] + m + a + (i - x + y) - k - u
      BY <1>4, <1>6, <3>1, <3>2, ExplainedIs
    <3> QED BY <1>6, <2>1, <3>3, <3>4, <3>5
  <2>3. ASSUME Touching(l) \cap raced = {} PROVE Stock(level'[l]) = Stock(level[l]) + d
    <3>1. Stock(level[l]) \in Int
      BY <1>0, StockTyped
    <3>2. CASE l = CountAt[c]
      <4>1. c \notin raced
        BY <2>3, <3>2 DEF Touching
      <4>2. Stock(level'[l]) = Stock(level[l]) - x + y
        BY <1>1, <1>6, <3>2, <4>1
      <4> QED BY <1>6, <2>1, <3>1, <4>2
    <3>3. CASE l # CountAt[c]
      <4>1. x = 0 /\ y = 0 /\ level'[l] = level[l]
        BY <1>5, <1>6, <3>3
      <4> QED BY <2>1, <3>1, <4>1
    <3> QED BY <3>2, <3>3
  <2> QED BY <1>3, <2>2, <2>3, ExplainsMoves
<1>8. Promises(l)'
  BY <1>3, PromisesStay DEF OnlyCounts
<1> QED BY <1>7, <1>8

LEMMA CountRightly ==
  ASSUME PiecesOK, DocsRight, NEW c \in Counts, NEW row, count \in [Counts -> CountRows],
         SetCount(c, row), OnlyCounts, raced' = raced, c \notin raced => CountRight(row)
  PROVE  PiecesOK' /\ DocsRight'
<1>1. count' = [count EXCEPT ![c] = row]
  BY DEF SetCount
<1>2. \A x \in Counts : x \notin raced => CountRight(count'[x])
  BY <1>1 DEF DocsRight
<1> QED BY <1>2 DEF PiecesOK, DocsRight, OnlyCounts, KeysRight, NoKeys

LEMMA CreateCountAgreed ==
  ASSUME DInv, NEW c \in Counts, CreateCount(c)
  PROVE  Told' /\ Agreed'
<1>0. Kept /\ Told /\ Agreed /\ DocsOK /\ LevelsOK /\ PiecesOK /\ DocsRight /\ count \in [Counts -> CountRows]
  BY DEF DInv, Kept, Told, DocsOK
<1>1. PICK n \in Int : n = level[CountAt[c]].hand
  BY <1>0, Constants, StockTyped
<1>2. PICK row : row = [NoCount EXCEPT !.status = "in_progress", !.system = n]
  OBVIOUS
<1>3. row \in CountRows /\ ~row.applied /\ NoCount.status = "none" /\ ~NoCount.applied
  <2>1. row = [status |-> "in_progress", system |-> n, variance |-> 0, applied |-> FALSE]
    BY <1>2 DEF NoCount
  <2>2. NoCount.status = "none" /\ ~NoCount.applied
    BY DEF NoCount
  <2> QED BY <2>1, <2>2 DEF CountRows
<1>4. /\ count[c] = NoCount /\ SetCount(c, row) /\ OnlyCounts /\ UNCHANGED <<level, handler, raced, lost>>
  BY <1>1, <1>2 DEF CreateCount, Once
<1>5. HandlersSeen' /\ HandlersApart'
  <2>1. \A x \in Counts : count[x].status = "none" \/ count'[x] = count[x]
    BY <1>3, <1>4 DEF SetCount
  <2> QED BY <1>4, <2>1, HandlersOnce DEF OnlyCounts
<1>6. PiecesOK' /\ DocsRight'
  BY <1>0, <1>3, <1>4, CountRightly DEF CountRight
<1>7. Agreed'
  <2>1. Stock(level[CountAt[c]]) \in Int
    BY <1>0, Constants, StockTyped
  <2>2. CorrectOf(c, CountAt[c], count[c]) = 0 /\ CorrectOf(c, CountAt[c], row) = 0
    BY <1>3, <1>4 DEF CorrectOf
  <2> QED BY <1>0, <1>3, <1>4, <2>1, <2>2, CountAgreed
<1> QED BY <1>5, <1>6, <1>7 DEF Told

LEMMA BeginCountAgreed ==
  ASSUME DInv, NEW h \in Handlers, NEW c \in Counts, BeginCount(h, c)
  PROVE  Told' /\ Agreed'
<1>1. PICK op \in CountOps : \E arg : Begin(h, op, c, count[c], arg)
  BY DEF BeginCount, CountOps
<1>2. PICK arg : Begin(h, op, c, count[c], arg)
  BY <1>1
<1>3. PICK s : s = [op |-> op, id |-> c, seen |-> count[c], arg |-> arg]
  OBVIOUS
<1>4. s.op = op /\ s.id = c /\ s.seen = count[c] /\ op # "idle" /\ count[c].status = "in_progress"
  BY <1>3 DEF CountOps, BeginCount
<1>5. SeenOK(s)
  BY <1>1, <1>4 DEF SeenOK, TransferOps, AdjustOps, CountOps
<1> QED BY <1>2, <1>3, <1>4, <1>5, Begun

(* The transaction of a handler that writes a count. *)
LEMMA CountEnds ==
  ASSUME DInv, NEW h \in Handlers, NEW op \in CountOps, NEW c \in Counts, Commits(h, op, c),
         NEW row \in CountRows, SetCount(c, row), OnlyCounts, UNCHANGED lost,
         c \notin raced => CountRight(row),
         \A m \in Levels : m # CountAt[c] => level'[m] = level[m],
         \A m \in Levels : level'[m].reserved = level[m].reserved /\ level'[m].transit = level[m].transit,
         c \notin raced =>
           Stock(level'[CountAt[c]]) = Stock(level[CountAt[c]]) - CorrectOf(c, CountAt[c], count[c])
                                         + CorrectOf(c, CountAt[c], row)
  PROVE  Told' /\ Agreed'
<1>0. Kept /\ Told /\ Agreed /\ DocsOK /\ PiecesOK /\ DocsRight /\ raced' = raced
      /\ count \in [Counts -> CountRows]
  BY DEF DInv, Kept, Told, Commits, DocsOK
<1>1. HandlersSeen' /\ HandlersApart'
  <2>1. op # "idle" /\ op # "finalize" /\ \A x \in Counts : x # c => count'[x] = count[x]
    BY <1>0 DEF CountOps, SetCount
  <2> QED BY <2>1, HandlersEnd DEF OnlyCounts
<1>2. PiecesOK' /\ DocsRight'
  BY <1>0, CountRightly
<1>3. Agreed'
  BY <1>0, CountAgreed
<1> QED BY <1>1, <1>2, <1>3 DEF Told

(* What a handler of a count has. *)
LEMMA CountSeen ==
  ASSUME DInv, NEW h \in Handlers, NEW op \in CountOps, NEW c \in Counts, Commits(h, op, c)
  PROVE  /\ DocsOK /\ LevelsOK /\ count[c] \in CountRows /\ op # "idle"
         /\ handler[h].op = op /\ handler[h].id = c /\ handler[h] \in Working
         /\ c \notin raced => handler[h].seen = count[c] /\ ~count[c].applied
<1>1. handler[h].op = op /\ handler[h].id = c /\ handler[h] # Idle /\ op # "idle"
  BY DEF Commits, CountOps
<1>2. SeenOK(handler[h]) /\ DocsOK /\ LevelsOK /\ HandlersOK /\ DocsRight
  BY DEF DInv, Told, HandlersSeen, Kept
<1> QED BY <1>1, <1>2 DEF SeenOK, DocsRight, CountRight, DocsOK, HandlersOK

LEMMA UpsertAgreed ==
  ASSUME DInv, NEW h \in Handlers, NEW c \in Counts, UpsertLine(h, c)
  PROVE  Told' /\ Agreed'
<1>1. PICK op : op \in CountOps /\ op = "upsert"
  BY DEF CountOps
<1>2. Commits(h, op, c) /\ OnlyCounts /\ UNCHANGED <<level, lost>>
  BY <1>1 DEF UpsertLine
<1>3. /\ LevelsOK /\ count[c] \in CountRows /\ handler[h].op = op /\ handler[h] \in Working
      /\ c \notin raced => ~count[c].applied
  BY <1>1, <1>2, CountSeen
<1>4. PICK v \in Int : v = handler[h].arg - count[c].system
  BY <1>1, <1>3 DEF Working, CountRows
<1>5. PICK row : row = [count[c] EXCEPT !.variance = v]
  OBVIOUS
<1>6. row \in CountRows /\ row.applied = count[c].applied /\ SetCount(c, row)
  BY <1>3, <1>4, <1>5 DEF CountRows, UpsertLine
<1>7. c \notin raced => CorrectOf(c, CountAt[c], count[c]) = 0 /\ CorrectOf(c, CountAt[c], row) = 0
  BY <1>3, <1>6 DEF CorrectOf
<1>8. c \notin raced => CountRight(row)
  BY <1>3, <1>6 DEF CountRight
<1>9. Stock(level[CountAt[c]]) \in Int
  BY <1>3, Constants, StockTyped
<1> QED BY <1>1, <1>2, <1>6, <1>7, <1>8, <1>9, CountEnds

LEMMA CompleteCountAgreed ==
  ASSUME DInv, NEW h \in Handlers, NEW c \in Counts, CompleteCount(h, c)
  PROVE  Told' /\ Agreed'
<1>1. PICK op : op \in CountOps /\ op = "complete"
  BY DEF CountOps
<1>2. Commits(h, op, c)
  BY <1>1 DEF CompleteCount
<1>3. /\ LevelsOK /\ count[c] \in CountRows /\ op # "idle" /\ handler[h].op = op /\ handler[h] \in Working
      /\ c \notin raced => handler[h].seen = count[c] /\ ~count[c].applied
  BY <1>1, <1>2, CountSeen
<1>4. PICK apply \in BOOLEAN : apply = handler[h].arg
  BY <1>1, <1>3 DEF Working
<1>5. PICK v \in Int : v = IF apply THEN handler[h].seen.variance ELSE 0
  <2>1. handler[h].seen \in CountRows
    BY <1>1, <1>3 DEF Working
  <2> QED BY <2>1 DEF CountRows
<1>6. PICK row : row = [count[c] EXCEPT !.status = "completed", !.applied = apply]
  OBVIOUS
<1>7. row \in CountRows /\ row.status = "completed" /\ row.applied = apply /\ row.variance = count[c].variance
  BY <1>3, <1>6 DEF CountRows
<1>8. CASE Refused
  BY <1>2, <1>3, <1>8, RefusedTold
<1>9. CASE ~Refused
  <2>1. Hand(CountAt[c], v) /\ SetCount(c, row) /\ OnlyCounts /\ UNCHANGED lost
    BY <1>4, <1>5, <1>6, <1>9 DEF CompleteCount
  <2>2. /\ \A m \in Levels : m # CountAt[c] => level'[m] = level[m]
        /\ \A m \in Levels : level'[m].reserved = level[m].reserved /\ level'[m].transit = level[m].transit
        /\ Stock(level'[CountAt[c]]) = Stock(level[CountAt[c]]) + v
    BY <1>3, <2>1, Constants, HandMoved
  <2>3. c \notin raced => CorrectOf(c, CountAt[c], count[c]) = 0 /\ CorrectOf(c, CountAt[c], row) = v
    BY <1>3, <1>5, <1>7 DEF CorrectOf
  <2>4. CountRight(row)
    BY <1>7 DEF CountRight
  <2>5. Stock(level[CountAt[c]]) \in Int
    BY <1>3, Constants, StockTyped
  <2>6. c \notin raced =>
          Stock(level'[CountAt[c]]) = Stock(level[CountAt[c]]) - CorrectOf(c, CountAt[c], count[c])
                                        + CorrectOf(c, CountAt[c], row)
    BY <2>2, <2>3, <2>5
  <2> QED BY <1>1, <1>2, <1>7, <2>1, <2>2, <2>4, <2>6, CountEnds
<1> QED BY <1>8, <1>9

-----------------------------------------------------------------------------
(* Requests without a document.                                              *)

LEMMA OnceTold ==
  ASSUME DInv, UNCHANGED <<handler, raced, transfer, booking, adjust, count, keys>>, PiecesOK'
  PROVE  Told'
<1>1. HandlersSeen' /\ HandlersApart'
  BY HandlersOnce
<1>2. DocsRight'
  BY DEF DInv, Told, DocsRight, KeysRight, NoKeys
<1> QED BY <1>1, <1>2 DEF Told

LEMMA DamageAgreed ==
  ASSUME DInv, NEW l \in Levels, NEW q \in {-1, 1}, Damage(l, q)
  PROVE  Told' /\ Agreed'
<1>0. Kept /\ Told /\ Agreed /\ DocsOK /\ LevelsOK /\ PiecesOK
  BY DEF DInv, Kept, Told
<1>1. /\ level' = [level EXCEPT ![l].hand = @ - q, ![l].damaged = @ + q]
      /\ UNCHANGED <<transfer, booking, adjust, count, made, loose, keys, handler, raced, lost>>
  BY DEF Damage, Once, docVars
<1>2. level[l] \in Quantities /\ DOMAIN level = Levels
  BY <1>0 DEF LevelsOK
<1>3. level[l].hand \in Int /\ level[l].damaged \in Int /\ q \in Int
  BY <1>2 DEF Quantities
<1>4. level'[l] = [level[l] EXCEPT !.hand = @ - q, !.damaged = @ + q] /\ \A m \in Levels : m # l => level'[m] = level[m]
  BY <1>1, <1>2
<1>5. /\ level'[l].hand = level[l].hand - q /\ level'[l].damaged = level[l].damaged + q
      /\ level'[l].reserved = level[l].reserved /\ level'[l].transit = level[l].transit
  BY <1>2, <1>4 DEF Quantities
<1>6. Stock(level'[l]) = Stock(level[l])
  BY <1>3, <1>5 DEF Stock
<1>7. Told'
  BY <1>0, <1>1, OnceTold DEF PiecesOK
<1>8. ASSUME NEW m \in Levels PROVE Explains(m)' /\ Promises(m)'
  <2>1. Explains(m) /\ Promises(m)
    BY <1>0 DEF Agreed
  <2>2. Explained(m)' = Explained(m)
    BY <1>1, ExplainedIs
  <2>3. Stock(level'[m]) = Stock(level[m]) /\ level'[m].reserved = level[m].reserved
        /\ level'[m].transit = level[m].transit
    BY <1>4, <1>5, <1>6
  <2>4. Explains(m)'
    BY <1>1, <2>1, <2>2, <2>3 DEF Explains, Touching, Stock
  <2> QED BY <1>1, <2>1, <2>3, <2>4, PromisesStay
<1> QED BY <1>7, <1>8 DEF Agreed

LEMMA ProductionAgreed ==
  ASSUME DInv, NEW l \in Levels, CompleteProduction(l)
  PROVE  Told' /\ Agreed'
<1>0. Kept /\ Told /\ Agreed /\ DocsOK /\ LevelsOK /\ PiecesOK /\ made \in [Levels -> Nat]
  BY DEF DInv, Kept, Told, PiecesOK
<1>1. /\ level' = [p \in Levels |-> [level[p] EXCEPT !.hand = @ - Parts[l][p] + (IF p = l THEN 1 ELSE 0)]]
      /\ made' = [made EXCEPT ![l] = @ + 1]
      /\ UNCHANGED <<transfer, booking, adjust, count, loose, keys, handler, raced, lost>>
  BY DEF CompleteProduction, Once
<1>2. made' \in [Levels -> Nat]
  BY <1>0, <1>1
<1>3. Told'
  BY <1>0, <1>1, <1>2, OnceTold DEF PiecesOK
<1>4. ASSUME NEW m \in Levels PROVE Explains(m)' /\ Promises(m)'
  <2>1. Explains(m) /\ Promises(m)
    BY <1>0 DEF Agreed
  <2>2. level[m] \in Quantities /\ level[m].hand \in Int /\ level[m].damaged \in Int
    BY <1>0, StockTyped
  <2>3. PICK n \in Nat, one \in Nat : n = Parts[l][m] /\ one = IF m = l THEN 1 ELSE 0
    BY Constants
  <2>4. level'[m] = [level[m] EXCEPT !.hand = @ - n + one]
    BY <1>1, <2>3
  <2>5. /\ level'[m].hand = level[m].hand - n + one /\ level'[m].damaged = level[m].damaged
        /\ level'[m].reserved = level[m].reserved /\ level'[m].transit = level[m].transit
    BY <2>2, <2>4 DEF Quantities
  <2>6. PICK d \in Int : d = one - n
    BY <2>3
  <2>7. Stock(level'[m]) = Stock(level[m]) + d
    BY <2>2, <2>5, <2>6 DEF Stock
  <2>8. made'[m] = made[m] + one /\ made[m] \in Nat
    BY <1>0, <1>1, <2>3
  <2>9. Used(m, made') = Used(m, made) + n
    BY <1>0, <1>1, <2>3, UsedGrows
  <2>10. Explained(m)' = Explained(m) + d
    <3>1. PICK e : e = Opening[m] + loose[m] + Moved(m, transfer) + Adjusted(m, adjust) + Corrected(m, count)
                         - Booked(m, booking, "consumed")
      OBVIOUS
    <3>2. PICK u, x, y : u = Used(m, made) /\ x = made[m] /\ y = made'[m]
      OBVIOUS
    <3>3. e \in Int /\ u \in Int /\ x \in Int
      BY <1>0, <3>1, <3>2, SumsTyped
    <3>4. Explained(m) = e + x - u
      BY <1>0, <3>1, <3>2, SumsTyped, ExplainedIs
    <3>5. y = x + one
      BY <2>8, <3>2
    <3>6. Explained(m)' = e + y - (u + n)
      <4>1. Explained(m)' = Opening[m] + loose[m] + y + Moved(m, transfer) + Adjusted(m, adjust)
                              + Corrected(m, count) - Booked(m, booking, "consumed") - (u + n)
        BY <1>1, <2>9, <3>2, ExplainedIs
      <4>2. y \in Int
        BY <2>3, <3>3, <3>5
      <4> QED BY <1>0, <2>3, <3>1, <3>3, <4>1, <4>2, SumsTyped
    <3> QED BY <2>3, <2>6, <3>3, <3>4, <3>5, <3>6
  <2>11. Explains(m)'
    BY <1>1, <2>1, <2>7, <2>10, ExplainsMoves
  <2> QED BY <1>1, <2>1, <2>5, <2>11, PromisesStay
<1> QED BY <1>3, <1>4 DEF Agreed

LEMMA TransferStockAgreed ==
  ASSUME DInv, NEW l \in Levels, NEW m \in Levels, TransferStock(l, m)
  PROVE  Told' /\ Agreed'
<1>0. Kept /\ Told /\ Agreed /\ DocsOK /\ LevelsOK /\ PiecesOK /\ loose \in [Levels -> Int] /\ l # m
  BY DEF DInv, Kept, Told, PiecesOK, TransferStock
<1>1. /\ level' = [level EXCEPT ![l].hand = @ - 1, ![m].hand = @ + 1]
      /\ loose' = [loose EXCEPT ![l] = @ - 1, ![m] = @ + 1]
      /\ UNCHANGED <<transfer, booking, adjust, count, made, keys, handler, raced, lost>>
  BY DEF TransferStock, Once
<1>2. loose' \in [Levels -> Int]
  BY <1>0, <1>1
<1>3. Told'
  BY <1>0, <1>1, <1>2, OnceTold DEF PiecesOK
<1>4. ASSUME NEW p \in Levels PROVE Explains(p)' /\ Promises(p)'
  <2>1. Explains(p) /\ Promises(p)
    BY <1>0 DEF Agreed
  <2>2. level[p] \in Quantities /\ level[p].hand \in Int /\ level[p].damaged \in Int /\ DOMAIN level = Levels
        /\ loose[p] \in Int
    BY <1>0, StockTyped DEF LevelsOK
  <2>3. PICK d \in Int : d = IF p = l THEN -1 ELSE IF p = m THEN 1 ELSE 0
    OBVIOUS
  <2>4. level'[p] = [level[p] EXCEPT !.hand = level[p].hand + d] /\ loose'[p] = loose[p] + d
    <3>1. CASE p = l
      BY <1>0, <1>1, <2>2, <2>3, <3>1
    <3>2. CASE p = m
      BY <1>0, <1>1, <2>2, <2>3, <3>2
    <3>3. CASE p # l /\ p # m
      <4>1. level'[p] = level[p] /\ loose'[p] = loose[p] /\ d = 0
        BY <1>0, <1>1, <2>2, <2>3, <3>3
      <4>2. [level[p] EXCEPT !.hand = level[p].hand] = level[p]
        BY <2>2 DEF Quantities
      <4> QED BY <2>2, <4>1, <4>2
    <3> QED BY <3>1, <3>2, <3>3
  <2>5. /\ level'[p].hand = level[p].hand + d /\ level'[p].damaged = level[p].damaged
        /\ level'[p].reserved = level[p].reserved /\ level'[p].transit = level[p].transit
    BY <2>2, <2>4 DEF Quantities
  <2>6. Stock(level'[p]) = Stock(level[p]) + d
    BY <2>2, <2>3, <2>5 DEF Stock
  <2>7. Explained(p)' = Explained(p) + d
    <3>1. PICK t, a, c, u, k : /\ t = Moved(p, transfer) /\ a = Adjusted(p, adjust) /\ c = Corrected(p, count)
                              /\ u = Used(p, made) /\ k = Booked(p, booking, "consumed")
      OBVIOUS
    <3>2. /\ t \in Int /\ a \in Int /\ c \in Int /\ u \in Int /\ k \in Int
          /\ Opening[p] \in Int /\ loose[p] \in Int /\ made[p] \in Int
      BY <1>0, <3>1, SumsTyped
    <3>3. Explained(p) = Opening[p] + loose[p] + made[p] + t + a + c - k - u
      BY <3>1, ExplainedIs
    <3>4. Explained(p)' = Opening[p] + (loose[p] + d) + made[p] + t + a + c - k - u
      BY <1>1, <2>4, <3>1, ExplainedIs
    <3> QED BY <2>3, <3>2, <3>3, <3>4
  <2>8. Explains(p)'
    BY <1>1, <2>1, <2>3, <2>6, <2>7, ExplainsMoves
  <2> QED BY <1>1, <2>1, <2>5, <2>8, PromisesStay
<1> QED BY <1>3, <1>4 DEF Agreed

-----------------------------------------------------------------------------
LEMMA InitAgreed == Init => DInv
<1> SUFFICES ASSUME Init PROVE DInv
  OBVIOUS
<1>1. Kept /\ DocsOK
  BY InitKept, DocumentsAssumption DEF Kept
<1>2. PiecesOK
  BY DEF Init, PiecesOK
<1>3. DocsRight
  <2>1. \A t \in Transfers : TransferRight(t, transfer[t])
    BY DEF Init, TransferRight, NoTransfer
  <2>2. \A a \in Adjusts : KeysRight(a, adjust[a])
    BY DEF Init, KeysRight, NoKeys, NoAdjust
  <2>3. \A c \in Counts : CountRight(count[c])
    BY DEF Init, CountRight, NoCount
  <2> QED BY <2>1, <2>2, <2>3 DEF DocsRight
<1>4. HandlersSeen /\ HandlersApart
  BY DEF Init, HandlersSeen, SeenOK, HandlersApart, Apart, Idle
<1>5. ASSUME NEW l \in Levels PROVE Explains(l) /\ Promises(l)
  <2>1. Moved(l, transfer) = 0
    <3> DEFINE f == [t \in Transfers |-> MoveOf(t, l, transfer[t])]
    <3>1. \A t \in Transfers : f[t] = 0
      BY DEF Init, MoveOf, NoTransfer
    <3>2. DOMAIN f = Transfers
      OBVIOUS
    <3>3. SumFunction(f) = 0
      <4> HIDE DEF f
      <4> QED BY <3>1, <3>2, Finite, SumNothing
    <3> QED BY <3>3 DEF Moved
  <2>2. Owed(l, transfer) = 0
    <3> DEFINE R == {t \in Transfers : Local(t) /\ TransferOf[t].to = l}
               f == [t \in R |-> InTransit(t, transfer[t])]
    <3>1. \A t \in R : f[t] = 0
      BY DEF Init, InTransit, NoTransfer
    <3>2. DOMAIN f = R /\ IsFiniteSet(R)
      BY Finite, FS_Subset
    <3>3. SumFunction(f) = 0
      <4> HIDE DEF f, R
      <4> QED BY <3>1, <3>2, SumNothing
    <3> QED BY <3>3 DEF Owed
  <2>3. Adjusted(l, adjust) = 0
    <3> DEFINE R == {a \in Adjusts : AdjustAt[a] = l /\ adjust[a].status = "adjusted"}
               f == [a \in R |-> adjust[a].qty]
    <3>1. R = {}
      BY DEF Init, NoAdjust
    <3>2. DOMAIN f = R /\ \A a \in R : f[a] = 0
      BY <3>1
    <3>3. SumFunction(f) = 0
      <4> HIDE DEF f, R
      <4> QED BY <3>1, <3>2, SumNothing, FS_EmptySet
    <3> QED BY <3>3 DEF Adjusted
  <2>4. Corrected(l, count) = 0
    <3> DEFINE R == {c \in Counts : CountAt[c] = l /\ count[c].applied}
               f == [c \in R |-> count[c].variance]
    <3>1. R = {}
      BY DEF Init, NoCount
    <3>2. DOMAIN f = R /\ \A c \in R : f[c] = 0
      BY <3>1
    <3>3. SumFunction(f) = 0
      <4> HIDE DEF f, R
      <4> QED BY <3>1, <3>2, SumNothing, FS_EmptySet
    <3> QED BY <3>3 DEF Corrected
  <2>5. ASSUME NEW s, s # "none" PROVE Booked(l, booking, s) = 0
    <3> DEFINE R == {b \in Bookings : BookingOf[b].lv = l /\ booking[b] = s}
               f == [b \in R |-> BookingOf[b].qty]
    <3>1. R = {}
      BY <2>5 DEF Init
    <3>2. DOMAIN f = R /\ \A b \in R : f[b] = 0
      BY <3>1
    <3>3. SumFunction(f) = 0
      <4> HIDE DEF f, R
      <4> QED BY <3>1, <3>2, SumNothing, FS_EmptySet
    <3> QED BY <3>3 DEF Booked
  <2>6. Used(l, made) = 0
    <3> DEFINE f == [p \in Levels |-> made[p] * Parts[p][l]]
    <3>1. \A n \in Nat : 0 * n = 0
      OBVIOUS
    <3>2. \A p \in Levels : made[p] = 0 /\ Parts[p][l] \in Nat
      BY Constants DEF Init
    <3>3. DOMAIN f = Levels /\ \A p \in Levels : f[p] = 0
      BY <3>1, <3>2
    <3>4. SumFunction(f) = 0
      <4> HIDE DEF f
      <4> QED BY <3>3, Finite, SumNothing
    <3> QED BY <3>4 DEF Used
  <2>7. /\ loose[l] = 0 /\ made[l] = 0 /\ level[l].hand = Opening[l] /\ level[l].damaged = 0
        /\ level[l].transit = 0 /\ level[l].reserved = 0 /\ Opening[l] \in Nat
    BY Constants DEF Init
  <2>8. Booked(l, booking, "consumed") = 0 /\ Booked(l, booking, "active") = 0
    BY <2>5
  <2>9. Explains(l)
    BY <2>1, <2>3, <2>4, <2>6, <2>7, <2>8, ExplainedIs DEF Explains, Stock
  <2>10. Promises(l)
    BY <2>2, <2>7, <2>8 DEF Promises
  <2> QED BY <2>9, <2>10
<1> QED BY <1>1, <1>2, <1>3, <1>4, <1>5 DEF DInv, Told, Agreed

LEMMA StepAgreed == DInv /\ [Next]_vars => DInv'
<1> SUFFICES ASSUME DInv, [Next]_vars PROVE Told' /\ Agreed'
  BY StepKept, DocumentsAssumption DEF DInv
<1>1. CASE UNCHANGED vars
  <2>0. Kept /\ Told /\ Agreed /\ PiecesOK /\ DocsRight
    BY DEF DInv, Told
  <2>1. UNCHANGED <<level, docVars, handler, raced, lost>>
    BY <1>1 DEF vars
  <2>2. PiecesOK' /\ DocsRight' /\ Agreed'
    BY <2>0, <2>1, RightStays, AgreedStays DEF docVars
  <2>3. HandlersSeen' /\ HandlersApart'
    BY <2>1, HandlersOnce DEF docVars
  <2> QED BY <2>2, <2>3 DEF Told
<1>2. ASSUME NEW h \in Handlers, Step(h) PROVE Told' /\ Agreed'
  <2>1. ASSUME NEW t \in Transfers,
               \/ BeginIssue(h, t) \/ BeginReceive(h, t) \/ BeginCancel(h, t)
               \/ Issue(h, t) \/ Receive(h, t) \/ Cancel(h, t)
               \/ ReadLevel(h, t) \/ GroupIssue(h, t) \/ GroupReceive(h, t)
        PROVE  Told' /\ Agreed'
    BY <2>1, BeginTransferAgreed, IssueAgreed, ReceiveAgreed, CancelAgreed, ReadLevelAgreed, GroupAgreed
  <2>2. ASSUME NEW b \in Bookings, BeginRelease(h, b) \/ Release(h, b) PROVE Told' /\ Agreed'
    BY <2>2, BeginReleaseAgreed, ReleaseAgreed
  <2>3. ASSUME NEW a \in Adjusts,
               \/ BeginAdjust(h, a) \/ Finalize(h, a) \/ UpdateAdjust(h, a)
               \/ Annul(h, a) \/ DeleteAdjust(h, a)
        PROVE  Told' /\ Agreed'
    BY <2>3, BeginAdjustAgreed, FinalizeAgreed, UpdateAdjustAgreed, AnnulAgreed, DeleteAdjustAgreed
  <2>4. ASSUME NEW c \in Counts, BeginCount(h, c) \/ UpsertLine(h, c) \/ CompleteCount(h, c)
        PROVE  Told' /\ Agreed'
    BY <2>4, BeginCountAgreed, UpsertAgreed, CompleteCountAgreed
  <2> QED
    BY <1>2, <2>1, <2>2, <2>3, <2>4 DEF Step
<1>3. ASSUME NEW t \in Transfers, CreateTransfer(t) PROVE Told' /\ Agreed'
  BY <1>3, CreateTransferAgreed
<1>4. ASSUME NEW b \in Bookings, ReserveQty(b) PROVE Told' /\ Agreed'
  BY <1>4, ReserveAgreed
<1>5. ASSUME NEW a \in Adjusts, NEW s \in {"draft", "pending", "adjusted"}, NEW q \in Deltas,
             CreateAdjust(a, s, q)
      PROVE  Told' /\ Agreed'
  BY <1>5, CreateAdjustAgreed
<1>6. ASSUME NEW c \in Counts, CreateCount(c) PROVE Told' /\ Agreed'
  BY <1>6, CreateCountAgreed
<1>7. ASSUME NEW l \in Levels, NEW q \in {-1, 1}, Damage(l, q) PROVE Told' /\ Agreed'
  BY <1>7, DamageAgreed
<1>8. ASSUME NEW l \in Levels, CompleteProduction(l) PROVE Told' /\ Agreed'
  BY <1>8, ProductionAgreed
<1>9. ASSUME NEW l \in Levels, NEW m \in Levels, TransferStock(l, m) PROVE Told' /\ Agreed'
  BY <1>9, TransferStockAgreed
<1> QED
  BY <1>1, <1>2, <1>3, <1>4, <1>5, <1>6, <1>7, <1>8, <1>9 DEF Next

(* Every reachable state has the second inductive invariant: what a document *)
(* says of itself, what a handler has read of it, and the sums.              *)
THEOREM AgreementInvariance == Spec => []DInv
<1>1. DInv /\ [Next]_vars => DInv'
  BY StepAgreed
<1> QED
  BY InitAgreed, <1>1, PTL DEF Spec

(* A level holds what its transfers, adjustments, counts, consumed           *)
(* reservations and productions say, for any number of them, of handlers and *)
(* of levels, as long as no two requests raced on one of these documents and *)
(* no intercompany transfer overwrote a change of the level.                 *)
THEOREM DocumentsExplainStock == Spec => []StockExplained
  BY AgreementInvariance, DInvIs, PTL

(* A level has in transit what its open transfers owe it and keeps reserved  *)
(* what its active reservations hold, as long as no two requests raced on    *)
(* one of them.                                                              *)
THEOREM PromisesKept == Spec => []PromisesAgree
  BY AgreementInvariance, DInvIs, PTL
=============================================================================
