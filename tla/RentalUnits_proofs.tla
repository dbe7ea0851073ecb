------------------------- MODULE RentalUnits_proofs -------------------------
(* Proofs about RentalUnits, for any orders, lines, units and handlers.      *)
EXTENDS RentalUnits, SequenceTheorems, FiniteSetTheorems, TLAPS

Lives == DOMAIN Allowed
Statuses == DOMAIN Transitions
OrderRows == [life: Lives, status: Statuses, from: Int, to: Int]
HoldStatuses == {"held", "checked_out", "released", "cancelled"}
HoldRows ==
  [unit: Units, item: Items \cup {None}, from: Int, to: Int, status: HoldStatuses,
   by: {"order", "counter", "exchange", "pickup", "revived"}]

(* Types of the rows. *)
RowsOK ==
  /\ order \in [Orders -> OrderRows]
  /\ itemUnit \in [Items -> Units \cup {None}]
  /\ holds \in Seq(HoldRows)

(* No line of a quote has a reservation. *)
NoQuoteHeld ==
  \A n \in DOMAIN holds :
    holds[n].item # None => order[OrderOf[holds[n].item]].life # "quote"

(* Two handlers that work on the same rows know it. *)
RacedOK ==
  \A g, h \in Handlers :
    g # h /\ handler[g].on \cap handler[h].on # {} => handler[g].on \cup handler[h].on \subseteq raced

Clashes(n, u, from, to) ==
  holds[n].unit = u /\ Live(holds[n]) /\ Overlaps(holds[n], from, to)

(* What a handler has read and still relies on. *)
AdvanceOK(h) ==
  LET s == handler[h] IN
  /\ DOMAIN s = {"pc", "on", "order", "to", "read", "items", "writes", "free"}
  /\ s.order \in Orders \cap s.on /\ s.to \in Lives \ {"quote"} /\ s.read \in OrderRows
  /\ \A i \in DOMAIN s.items :
       i \in Items /\ OrderOf[i] = s.order /\ s.items[i] \in Units \cap s.on
  /\ s.writes \subseteq DOMAIN s.items

JudgeOK(h) ==
  LET s == handler[h] IN
  s.to = "reserved" /\ (order[s.order].life = "quote" \/ s.on \subseteq raced)

JudgedOK(h) ==
  LET s == handler[h] IN
  s.to = "reserved" =>
    /\ \A i, j \in DOMAIN s.items : s.items[i] = s.items[j] => i = j
    /\ \A i \in s.writes, n \in DOMAIN holds :
         Clashes(n, s.items[i], s.read.from, s.read.to) =>
           s.items[i] \in raced \/ holds[n].item = None \/ holds[n].by = "revived"

ExchangeOK(h) ==
  LET s == handler[h] IN
  /\ s.item \in Items /\ OrderOf[s.item] \in s.on
  /\ s.to \in Units \cap s.on /\ s.read \in OrderRows
  /\ order[OrderOf[s.item]].life # "quote"

PickupOK(h) ==
  LET s == handler[h] IN
  /\ s.order \in Orders \cap s.on /\ s.read \in OrderRows
  /\ \A i \in DOMAIN s.swap : s.swap[i] \in Units \cap s.on
  /\ \A i \in Items : OrderOf[i] = s.order /\ itemUnit[i] # None => itemUnit[i] \in s.on \cup raced

(* The test of reserveUnit holds for what it has seen. *)
CounterOK(h) ==
  LET s == handler[h] IN
  /\ s.unit \in Units \cap s.on /\ s.from \in Int /\ s.to \in Int
  /\ s.seen \in Nat /\ s.seen <= Len(holds)
  /\ \A n \in DOMAIN holds : Clashes(n, s.unit, s.from, s.to) =>
       \/ holds[n].by = "revived"
       \/ s.unit \in raced /\ (n <= s.seen => holds[n].by # "counter")

OrderOK(h) ==
  LET s == handler[h] IN
  /\ s.order \in s.on
  /\ s.pc = "status" => s.to \in Statuses
  /\ s.pc = "extend" => s.due \in Int

HandlerOK(h) ==
  LET pc == handler[h].pc IN
  /\ pc \in {"judge", "advance"} => AdvanceOK(h)
  /\ pc = "judge" => JudgeOK(h)
  /\ pc = "advance" => JudgedOK(h)
  /\ pc = "exchange" => ExchangeOK(h)
  /\ pc = "pickup" => PickupOK(h)
  /\ pc = "reserve" => CounterOK(h)
  /\ pc \in {"status", "extend", "settle", "cancel"} => OrderOK(h)
  /\ pc = "return" => OrderOf[handler[h].item] \in handler[h].on
  /\ pc = "inspect" => handler[h].event[1] \in handler[h].on

HandlersOK ==
  /\ handler = [h \in Handlers |-> handler[h]]
  /\ \A h \in Handlers : HandlerOK(h)

(* The inductive invariant. *)
IInv == RowsOK /\ NoQuoteHeld /\ RacedOK /\ HandlersOK /\ BookedApart

-----------------------------------------------------------------------------
(* Sequences of rows.                                                        *)

LEMMA FunctionIsSeq ==
  ASSUME NEW S, NEW n \in Nat, NEW f \in [1..n -> S]
  PROVE  f \in Seq(S) /\ Len(f) = n
<1>1. f \in Seq(S)
  BY SeqDef
<1>2. DOMAIN f = 1..Len(f) /\ Len(f) \in Nat
  BY <1>1, LenProperties
<1> QED
  BY <1>1, <1>2

LEMMA SameLength ==
  ASSUME NEW S, NEW s \in Seq(S), NEW t \in Seq(S), Len(t) = Len(s)
  PROVE  DOMAIN t = DOMAIN s /\ Len(s) <= Len(t)
  BY LenProperties

LEMMA SetToSeqRows ==
  ASSUME NEW S, IsFiniteSet(S)
  PROVE  /\ SetToSeq(S) \in Seq(S)
         /\ \A i, j \in DOMAIN SetToSeq(S) : SetToSeq(S)[i] = SetToSeq(S)[j] => i = j
<1> DEFINE n == Cardinality(S)
<1>1. n \in Nat /\ ExistsBijection(1..n, S)
  BY FS_CardinalityType
<1>2. PICK f \in [1..n -> S] : IsInjective(f)
  BY <1>1 DEF ExistsBijection, Bijection, Injection
<1>3. SetToSeq(S) \in [1..n -> S] /\ IsInjective(SetToSeq(S))
  BY <1>2 DEF SetToSeq
<1> QED
  BY <1>1, <1>3, FunctionIsSeq DEF IsInjective

LEMMA ImageFinite ==
  ASSUME NEW S, IsFiniteSet(S), NEW R, NEW f \in [S -> R], \A r \in R : \E x \in S : f[x] = r
  PROVE  IsFiniteSet(R)
<1>1. f \in Surjection(S, R)
  BY DEF Surjection
<1> QED
  BY <1>1, FS_Surjection

(* A row with another status. *)
Marked(a, b, st) ==
  /\ b.unit = a.unit /\ b.item = a.item /\ b.from = a.from /\ b.to = a.to /\ b.by = a.by
  /\ b.status = st

LEMMA UpdatedRows ==
  ASSUME holds \in Seq(HoldRows), NEW S, NEW st \in HoldStatuses
  PROVE  LET new == Updated(S, st) IN
         /\ new \in Seq(HoldRows) /\ Len(new) = Len(holds)
         /\ \A n \in DOMAIN holds :
              IF n \in S THEN Marked(holds[n], new[n], st) ELSE new[n] = holds[n]
<1> DEFINE new == Updated(S, st)
<1>1. DOMAIN holds = 1..Len(holds) /\ Len(holds) \in Nat
  BY LenProperties
<1>2. \A n \in DOMAIN holds : holds[n] \in HoldRows
  BY <1>1, ElementOfSeq
<1>3. new \in [1..Len(holds) -> HoldRows]
  BY <1>1, <1>2 DEF Updated, HoldRows
<1>4. \A n \in DOMAIN holds :
        IF n \in S THEN Marked(holds[n], new[n], st) ELSE new[n] = holds[n]
  BY <1>2 DEF Updated, HoldRows, Marked
<1> HIDE DEF new
<1>5. new \in Seq(HoldRows) /\ Len(new) = Len(holds)
  BY <1>1, <1>3, FunctionIsSeq
<1> QED
  BY <1>4, <1>5 DEF new

(* What a step leaves of a row: its unit and dates, its line or none; and it *)
(* is live only if it was, or if pickup revived it.                          *)
Follows(a, b) ==
  /\ b.unit = a.unit /\ b.from = a.from /\ b.to = a.to
  /\ b.item \in {a.item, None}
  /\ Live(b) => \/ Live(a) /\ b.by = a.by
                \/ b.by = "revived"

LEMMA ReleasedRows ==
  ASSUME holds \in Seq(HoldRows), NEW S, NEW st \in {"cancelled", "released"}
  PROVE  LET new == Updated(S, st) IN
         /\ new \in Seq(HoldRows) /\ Len(new) = Len(holds)
         /\ \A n \in DOMAIN holds : Follows(holds[n], new[n])
<1> DEFINE new == Updated(S, st)
<1>1. /\ new \in Seq(HoldRows) /\ Len(new) = Len(holds)
      /\ \A n \in DOMAIN holds :
           IF n \in S THEN Marked(holds[n], new[n], st) ELSE new[n] = holds[n]
  BY UpdatedRows DEF HoldStatuses
<1> HIDE DEF new
<1>2. ASSUME NEW n \in DOMAIN holds PROVE Follows(holds[n], new[n])
  BY <1>1 DEF Follows, Live, Marked
<1> QED
  BY <1>1, <1>2 DEF new

-----------------------------------------------------------------------------
(* What a step that works on the rows of on may do, as others see it.        *)
Effect(on) ==
  /\ raced \subseteq raced'
  /\ Len(holds) <= Len(holds')
  /\ \A n \in DOMAIN holds : Follows(holds[n], holds'[n])
  /\ \A n \in DOMAIN holds' \ DOMAIN holds : holds'[n].unit \in on \cup raced'
  /\ \A o \in Orders : \/ order'[o].life = order[o].life
                       \/ o \in on /\ order'[o].life # "quote"
  /\ \A i \in Items : \/ itemUnit'[i] \in {itemUnit[i], None}
                      \/ OrderOf[i] \in on /\ itemUnit'[i] \in on \cup raced'

(* Such a step leaves another handler what it relies on. *)
LEMMA OtherKept ==
  ASSUME RowsOK, RowsOK', NEW g \in Handlers, HandlerOK(g), handler'[g] = handler[g],
         NEW on, Effect(on), handler[g].on \cap on # {} => handler[g].on \cup on \subseteq raced'
  PROVE  HandlerOK(g)'
<1> DEFINE s == handler[g]
<1>1. raced \subseteq raced' /\ handler'[g] = s
  BY DEF Effect
<1>2. DOMAIN holds = 1..Len(holds) /\ DOMAIN holds' = 1..Len(holds')
      /\ Len(holds) \in Nat /\ Len(holds') \in Nat
  BY LenProperties DEF RowsOK
<1>3. ASSUME NEW x \in s.on, x \in on \cup raced' PROVE x \in raced'
  BY <1>3
<1>4. ASSUME NEW n \in DOMAIN holds', NEW u \in s.on, NEW from, NEW to, Clashes(n, u, from, to)'
      PROVE  \/ holds'[n].by = "revived"
             \/ n \notin DOMAIN holds /\ u \in raced'
             \/ /\ n \in DOMAIN holds /\ Clashes(n, u, from, to)
                /\ holds'[n].by = holds[n].by /\ holds'[n].item \in {holds[n].item, None}
  <2>1. CASE n \in DOMAIN holds
    BY <1>4, <2>1 DEF Effect, Follows, Clashes, Overlaps
  <2>2. CASE n \notin DOMAIN holds
    <3>1. u \in on \cup raced'
      BY <1>4, <2>2 DEF Effect, Clashes
    <3> QED
      BY <2>2, <3>1, <1>3
  <2> QED
    BY <2>1, <2>2
<1>5. s.pc \in {"judge", "advance"} => AdvanceOK(g)'
  BY <1>1 DEF HandlerOK, AdvanceOK
<1>6. s.pc = "judge" => JudgeOK(g)'
  <2> SUFFICES ASSUME s.pc = "judge" PROVE JudgeOK(g)'
    OBVIOUS
  <2>1. s.order \in Orders /\ s.order \in s.on /\ JudgeOK(g)
    BY DEF HandlerOK, AdvanceOK
  <2>2. order'[s.order].life = order[s.order].life \/ s.on \subseteq raced'
    BY <2>1 DEF Effect
  <2> QED
    BY <1>1, <2>1, <2>2 DEF JudgeOK
<1>7. s.pc = "advance" => JudgedOK(g)'
  <2> SUFFICES ASSUME s.pc = "advance", s.to = "reserved" PROVE JudgedOK(g)'
    BY <1>1 DEF JudgedOK
  <2>1. AdvanceOK(g) /\ JudgedOK(g)
    BY DEF HandlerOK
  <2>2. ASSUME NEW i \in s.writes, NEW n \in DOMAIN holds',
               Clashes(n, s.items[i], s.read.from, s.read.to)'
        PROVE  s.items[i] \in raced' \/ holds'[n].item = None \/ holds'[n].by = "revived"
    <3>1. s.items[i] \in s.on
      BY <2>1 DEF AdvanceOK
    <3>2. \/ holds'[n].by = "revived"
          \/ s.items[i] \in raced'
          \/ /\ n \in DOMAIN holds /\ Clashes(n, s.items[i], s.read.from, s.read.to)
             /\ holds'[n].by = holds[n].by /\ holds'[n].item \in {holds[n].item, None}
      BY <2>2, <3>1, <1>1, <1>4
    <3> QED
      BY <1>1, <2>1, <3>2 DEF JudgedOK
  <2> QED
    BY <1>1, <2>1, <2>2 DEF JudgedOK
<1>8. s.pc = "exchange" => ExchangeOK(g)'
  BY <1>1, RentalAssumption DEF HandlerOK, ExchangeOK, Effect, RentalAssumption
<1>9. s.pc = "pickup" => PickupOK(g)'
  <2> SUFFICES ASSUME s.pc = "pickup" PROVE PickupOK(g)'
    OBVIOUS
  <2>1. PickupOK(g)
    BY DEF HandlerOK
  <2>2. ASSUME NEW i \in Items, OrderOf[i] = s.order, itemUnit'[i] # None
        PROVE  itemUnit'[i] \in s.on \cup raced'
    BY <1>1, <2>1, <2>2 DEF PickupOK, Effect
  <2> QED
    BY <1>1, <2>1, <2>2 DEF PickupOK
<1>10. s.pc = "reserve" => CounterOK(g)'
  <2> SUFFICES ASSUME s.pc = "reserve" PROVE CounterOK(g)'
    OBVIOUS
  <2>1. CounterOK(g)
    BY DEF HandlerOK
  <2>2. s.seen \in Nat /\ s.seen <= Len(holds) /\ s.seen <= Len(holds')
    BY <1>2, <2>1 DEF CounterOK, Effect
  <2>3. ASSUME NEW n \in DOMAIN holds', Clashes(n, s.unit, s.from, s.to)'
        PROVE  \/ holds'[n].by = "revived"
               \/ s.unit \in raced' /\ (n <= s.seen => holds'[n].by # "counter")
    <3>1. \/ holds'[n].by = "revived"
          \/ n \notin DOMAIN holds /\ s.unit \in raced'
          \/ /\ n \in DOMAIN holds /\ Clashes(n, s.unit, s.from, s.to)
             /\ holds'[n].by = holds[n].by
      BY <2>1, <2>3, <1>1, <1>4 DEF CounterOK
    <3>2. CASE n \notin DOMAIN holds /\ s.unit \in raced'
      BY <1>2, <2>2, <3>2
    <3> QED
      BY <1>1, <2>1, <3>1, <3>2 DEF CounterOK
  <2> QED
    BY <1>1, <2>1, <2>2, <2>3 DEF CounterOK
<1>11. /\ s.pc \in {"status", "extend", "settle", "cancel"} => OrderOK(g)'
       /\ s.pc = "return" => OrderOf[s.item] \in s.on
       /\ s.pc = "inspect" => s.event[1] \in s.on
  BY <1>1 DEF HandlerOK, OrderOK
<1> QED
  BY <1>1, <1>5, <1>6, <1>7, <1>8, <1>9, <1>10, <1>11 DEF HandlerOK

(* The handlers after a step of h, which becomes state, on the rows of on.   *)
LEMMA HandlersKept ==
  ASSUME IInv, RowsOK', NEW h \in Handlers, NEW state, Become(h, state), NEW on, Effect(on),
         \A g \in Handlers \ {h} :
           /\ handler[g].on \cap on # {} => handler[g].on \cup on \subseteq raced'
           /\ handler[g].on \cap state.on # {} => handler[g].on \cup state.on \subseteq raced',
         HandlerOK(h)'
  PROVE  HandlersOK' /\ RacedOK'
<1>1. handler'[h] = state /\ \A g \in Handlers \ {h} : handler'[g] = handler[g]
  BY DEF IInv, HandlersOK, Become
<1>2. handler' = [g \in Handlers |-> handler'[g]]
  BY DEF IInv, HandlersOK, Become
<1>3. ASSUME NEW g \in Handlers PROVE HandlerOK(g)'
  <2>1. CASE g = h
    BY <2>1
  <2>2. CASE g # h
    <3>1. HandlerOK(g) /\ handler'[g] = handler[g]
      BY <1>1, <2>2 DEF IInv, HandlersOK
    <3>2. handler[g].on \cap on # {} => handler[g].on \cup on \subseteq raced'
      BY <2>2
    <3> QED
      BY <3>1, <3>2, OtherKept DEF IInv
  <2> QED
    BY <2>1, <2>2
<1>4. RacedOK'
  BY <1>1 DEF IInv, RacedOK, Effect
<1> QED
  BY <1>2, <1>3, <1>4 DEF HandlersOK

(* What BookedApart says of two rows. *)
Apart(n, m) ==
  LET a == holds[n]
      b == holds[m]
  IN a.unit = b.unit /\ Live(a) /\ Live(b) /\ Overlaps(a, b.from, b.to) =>
       \/ a.by = "revived" \/ b.by \in {"exchange", "pickup", "revived"}
       \/ b.by = "order" /\ a.item = None
       \/ a.unit \in raced /\ ~ (a.by = "counter" /\ b.by = "counter")

(* The reservations after a step: those that were there keep apart, so it    *)
(* remains to look at the new ones.                                          *)
LEMMA HoldsKept ==
  ASSUME RowsOK, RowsOK', NoQuoteHeld, BookedApart, NEW on, Effect(on),
         \A m \in DOMAIN holds' \ DOMAIN holds :
           /\ \A n \in 1 .. m - 1 : Apart(n, m)'
           /\ holds'[m].item # None => order'[OrderOf[holds'[m].item]].life # "quote"
  PROVE  NoQuoteHeld' /\ BookedApart'
<1>1. DOMAIN holds = 1..Len(holds) /\ DOMAIN holds' = 1..Len(holds')
      /\ Len(holds) \in Nat /\ Len(holds') \in Nat
  BY LenProperties DEF RowsOK
<1>2. \A n \in DOMAIN holds : holds[n] \in HoldRows
  BY <1>1, ElementOfSeq DEF RowsOK
<1>3. ASSUME NEW m \in DOMAIN holds, holds'[m].item # None
      PROVE  order'[OrderOf[holds'[m].item]].life # "quote"
  <2>1. holds'[m].item = holds[m].item /\ holds[m].item \in Items
    BY <1>2, <1>3 DEF Effect, Follows, HoldRows
  <2>2. OrderOf[holds[m].item] \in Orders /\ order[OrderOf[holds[m].item]].life # "quote"
    BY <1>3, <2>1, RentalAssumption DEF NoQuoteHeld, RentalAssumption
  <2> QED
    BY <2>1, <2>2 DEF Effect
<1>4. ASSUME NEW m \in DOMAIN holds, NEW n \in 1 .. m - 1 PROVE Apart(n, m)'
  <2>1. n \in DOMAIN holds /\ Apart(n, m)
    BY <1>1, <1>4 DEF BookedApart, Apart
  <2>2. Follows(holds[n], holds'[n]) /\ Follows(holds[m], holds'[m]) /\ raced \subseteq raced'
    BY <2>1 DEF Effect
  <2> QED
    BY <2>1, <2>2 DEF Apart, Follows, Overlaps
<1> QED
  BY <1>3, <1>4 DEF NoQuoteHeld, BookedApart, Apart

-----------------------------------------------------------------------------
(* The three kinds of steps: begin, go on or end, all at once.               *)

LEMMA BeginKept ==
  ASSUME IInv, NEW h \in Handlers, NEW state, Begin(h, state), HandlerOK(h)'
  PROVE  IInv'
<1>1. UNCHANGED rowVars /\ Become(h, state) /\ Starts(state.on, Handlers \ {h})
  BY DEF Begin
<1>2. RowsOK'
  BY <1>1 DEF IInv, RowsOK, rowVars
<1>3. raced \subseteq raced' /\
      \A g \in Handlers \ {h} :
        handler[g].on \cap state.on # {} => handler[g].on \cup state.on \subseteq raced'
  BY <1>1 DEF Starts
<1>4. Effect(state.on)
  BY <1>1, <1>3 DEF Effect, rowVars, Follows, IInv, RowsOK
<1>5. HandlersOK' /\ RacedOK'
  BY <1>1, <1>2, <1>3, <1>4, HandlersKept
<1>6. NoQuoteHeld' /\ BookedApart'
  BY <1>1, <1>2, <1>4, HoldsKept DEF IInv, rowVars
<1> QED
  BY <1>2, <1>5, <1>6 DEF IInv

LEMMA DoneKept ==
  ASSUME IInv, NEW h \in Handlers, Done(h), raced' = raced, RowsOK', Effect(handler[h].on),
         \A m \in DOMAIN holds' \ DOMAIN holds :
           /\ \A n \in 1 .. m - 1 : Apart(n, m)'
           /\ holds'[m].item # None => order'[OrderOf[holds'[m].item]].life # "quote"
  PROVE  IInv'
<1>1. Become(h, Idle) /\ Idle.on = {} /\ Idle.pc = "idle"
  BY DEF Done, Idle
<1>2. HandlerOK(h)'
  BY <1>1 DEF IInv, HandlersOK, HandlerOK, Become
<1>3. \A g \in Handlers \ {h} :
        /\ handler[g].on \cap handler[h].on # {} => handler[g].on \cup handler[h].on \subseteq raced'
        /\ handler[g].on \cap Idle.on # {} => handler[g].on \cup Idle.on \subseteq raced'
  BY <1>1 DEF IInv, RacedOK
<1>4. HandlersOK' /\ RacedOK'
  BY <1>1, <1>2, <1>3, HandlersKept
<1> QED
  BY <1>4, HoldsKept DEF IInv

LEMMA AtOnceKept ==
  ASSUME IInv, NEW on, AtOnce(on), RowsOK', Effect(on), DOMAIN holds' = DOMAIN holds
  PROVE  IInv'
<1>1. handler' = handler
      /\ \A g \in Handlers : handler[g].on \cap on # {} => handler[g].on \cup on \subseteq raced'
  BY DEF AtOnce, Starts
<1>2. RacedOK'
  BY <1>1 DEF IInv, RacedOK, Effect
<1>3. ASSUME NEW g \in Handlers PROVE HandlerOK(g)'
  BY <1>1, OtherKept DEF IInv, HandlersOK
<1>4. HandlersOK'
  BY <1>1, <1>3 DEF IInv, HandlersOK
<1> QED
  BY <1>2, <1>4, HoldsKept DEF IInv

-----------------------------------------------------------------------------
LEMMA AllowedLives ==
  \A x \in Lives : /\ Allowed[x] \subseteq Lives \ {"quote"}
                   /\ "reserved" \in Allowed[x] => x = "quote"
  BY DEF Lives, Allowed

LEMMA CoreStatusesOK == \A x \in Lives \ {"quote"} : CoreOf[x] \in Statuses
  BY DEF Lives, Allowed, CoreOf, Statuses, Transitions

LEMMA TransitionsOK == \A x \in Statuses : Transitions[x] \subseteq Statuses
  BY DEF Statuses, Transitions

LEMMA InitOK == Init => IInv
<1> SUFFICES ASSUME Init PROVE IInv
  OBVIOUS
<1> DEFINE
      row(i) == Hold(Unit0[i], i, Window0[OrderOf[i]][1], Window0[OrderOf[i]][2], "held", "order")
      T == {row(i) : i \in Booked0}
<1>1. \A o \in Orders : Window0[o][1] \in Int /\ Window0[o][2] \in Int
  BY RentalAssumption DEF RentalAssumption
<1>2. order \in [Orders -> OrderRows] /\ itemUnit \in [Items -> Units \cup {None}]
  BY <1>1, RentalAssumption
     DEF Init, OrderRows, Lives, Allowed, Statuses, Transitions, RentalAssumption
<1>3. IsFiniteSet(T)
  <2>1. IsFiniteSet(Booked0)
    BY FS_Subset, RentalAssumption DEF Booked0, RentalAssumption
  <2> DEFINE f == [i \in Booked0 |-> row(i)]
  <2>2. f \in [Booked0 -> T] /\ \A t \in T : \E i \in Booked0 : f[i] = t
    OBVIOUS
  <2> HIDE DEF T, f
  <2> QED
    BY <2>1, <2>2, ImageFinite
<1>4. T \subseteq HoldRows
  BY <1>1, RentalAssumption DEF HoldRows, HoldStatuses, Hold, Booked0, RentalAssumption
<1>5. holds = SetToSeq(T)
  BY DEF Init
<1>6. \A t \in T : \E i \in Booked0 : t = row(i)
  OBVIOUS
<1>7. \A i, j \in Booked0 : Unit0[i] = Unit0[j] => i = j
  BY RentalAssumption DEF Booked0, RentalAssumption
<1>8. \A i \in Booked0 : /\ row(i).unit = Unit0[i] /\ row(i).item = i
                         /\ i \in Items /\ order[OrderOf[i]].life # "quote"
  BY RentalAssumption DEF Hold, Booked0, Init, RentalAssumption
<1> HIDE DEF T, row
<1>9. /\ holds \in Seq(T)
      /\ \A n, m \in DOMAIN holds : holds[n] = holds[m] => n = m
  BY <1>3, <1>5, SetToSeqRows
<1>10. holds \in Seq(HoldRows)
  BY <1>4, <1>9, SeqMonotonic
<1>11. \A n \in DOMAIN holds : holds[n] \in T
  BY <1>9, LenProperties, ElementOfSeq
<1>12. NoQuoteHeld
  BY <1>6, <1>8, <1>11 DEF NoQuoteHeld
<1>13. BookedApart
  <2>1. ASSUME NEW m \in DOMAIN holds, NEW n \in 1 .. m - 1 PROVE holds[n].unit # holds[m].unit
    <3>1. n \in DOMAIN holds /\ n # m
      BY <1>9, <2>1, LenProperties
    <3>2. PICK i \in Booked0 : holds[n] = row(i)
      BY <1>6, <1>11, <3>1
    <3>3. PICK j \in Booked0 : holds[m] = row(j)
      BY <1>6, <1>11, <2>1
    <3> QED
      BY <1>7, <1>8, <1>9, <3>1, <3>2, <3>3
  <2> QED
    BY <2>1 DEF BookedApart
<1>14. HandlersOK /\ RacedOK
  BY DEF Init, HandlersOK, HandlerOK, RacedOK, Idle
<1> QED
  BY <1>2, <1>10, <1>12, <1>13, <1>14 DEF IInv, RowsOK

-----------------------------------------------------------------------------
(* Requests begin.                                                           *)

LEMMA Became ==
  ASSUME IInv, NEW h \in Handlers, NEW state, Begin(h, state)
  PROVE  handler'[h] = state /\ UNCHANGED rowVars
  BY DEF IInv, HandlersOK, Begin, Become

LEMMA BeginAdvanceKept ==
  ASSUME IInv, NEW h \in Handlers, NEW o \in Orders, NEW to \in Lives, BeginAdvance(h, o, to)
  PROVE  IInv'
<1> DEFINE s == [pc |-> IF to = "reserved" THEN "judge" ELSE "advance",
                 on |-> {o} \cup UnitsOf(o), order |-> o, to |-> to, read |-> order[o],
                 items |-> [i \in ItemsOf(o) |-> itemUnit[i]], writes |-> {}, free |-> {}]
<1>1. Begin(h, s) /\ to \in Allowed[order[o].life]
  BY DEF BeginAdvance
<1>2. order[o] \in OrderRows /\ to \in Lives \ {"quote"} /\ (to = "reserved" => order[o].life = "quote")
  BY <1>1, AllowedLives DEF IInv, RowsOK, OrderRows
<1>3. \A i \in ItemsOf(o) : i \in Items /\ OrderOf[i] = o /\ itemUnit[i] \in Units \cap s.on
  BY DEF ItemsOf, UnitsOf, IInv, RowsOK
<1>4. handler'[h] = s /\ UNCHANGED rowVars
  BY <1>1, Became
<1>5. AdvanceOK(h)'
  BY <1>2, <1>3, <1>4 DEF AdvanceOK
<1>6. s.pc = "judge" => JudgeOK(h)'
  BY <1>2, <1>4 DEF JudgeOK, rowVars
<1>7. s.pc = "advance" => JudgedOK(h)'
  BY <1>4 DEF JudgedOK
<1>8. s.pc \in {"judge", "advance"}
  OBVIOUS
<1>9. HandlerOK(h)'
  BY <1>4, <1>5, <1>6, <1>7, <1>8 DEF HandlerOK
<1> QED
  BY <1>1, <1>9, BeginKept

LEMMA BeginReserveKept ==
  ASSUME IInv, NEW h \in Handlers, NEW u \in Units, NEW w \in Windows, BeginReserve(h, u, w)
  PROVE  IInv'
<1> DEFINE s == [pc |-> "reserve", on |-> {u}, unit |-> u, from |-> w[1], to |-> w[2],
                 read |-> unit[u], seen |-> Len(holds)]
<1>1. Begin(h, s) /\ \A n \in Active(u) : ~ Overlaps(holds[n], w[1], w[2])
  BY DEF BeginReserve
<1>2. w[1] \in Int /\ w[2] \in Int
  BY RentalAssumption DEF RentalAssumption
<1>3. handler'[h] = s /\ UNCHANGED rowVars
  BY <1>1, Became
<1>4. Len(holds) \in Nat
  BY LenProperties DEF IInv, RowsOK
<1>5. \A n \in DOMAIN holds : ~ Clashes(n, u, w[1], w[2])
  BY <1>1 DEF Active, LiveOn, Clashes
<1>6. CounterOK(h)'
  BY <1>2, <1>3, <1>4, <1>5 DEF CounterOK, rowVars, Clashes
<1>7. HandlerOK(h)'
  BY <1>3, <1>6 DEF HandlerOK
<1> QED
  BY <1>1, <1>7, BeginKept

LEMMA BeginExchangeKept ==
  ASSUME IInv, NEW h \in Handlers, NEW i \in Items, NEW u \in Units, BeginExchange(h, i, u)
  PROVE  IInv'
<1> DEFINE o == OrderOf[i]
           s == [pc |-> "exchange", on |-> {o, itemUnit[i], u}, item |-> i,
                 from |-> itemUnit[i], to |-> u, read |-> order[o], writes |-> {i}]
<1>1. Begin(h, s) /\ order[o].life # "quote"
  BY DEF BeginExchange
<1>2. o \in Orders /\ order[o] \in OrderRows
  BY RentalAssumption DEF RentalAssumption, IInv, RowsOK
<1>3. handler'[h] = s /\ UNCHANGED rowVars
  BY <1>1, Became
<1>4. ExchangeOK(h)'
  BY <1>1, <1>2, <1>3 DEF ExchangeOK, rowVars
<1>5. HandlerOK(h)'
  BY <1>3, <1>4 DEF HandlerOK
<1> QED
  BY <1>1, <1>5, BeginKept

LEMMA BeginPickupKept ==
  ASSUME IInv, NEW h \in Handlers, NEW o \in Orders, NEW swap,
         \A i \in DOMAIN swap : swap[i] \in Units, BeginPickup(h, o, swap)
  PROVE  IInv'
<1> DEFINE s == [pc |-> "pickup",
                 on |-> {o} \cup UnitsOf(o) \cup {swap[i] : i \in DOMAIN swap},
                 order |-> o, swap |-> swap, read |-> order[o], writes |-> DOMAIN swap]
<1>1. Begin(h, s) /\ order[o] \in OrderRows
  BY DEF BeginPickup, IInv, RowsOK
<1>2. handler'[h] = s /\ UNCHANGED rowVars
  BY <1>1, Became
<1>3. \A i \in Items : OrderOf[i] = o /\ itemUnit[i] # None => itemUnit[i] \in s.on
  BY DEF UnitsOf, ItemsOf
<1>4. \A i \in DOMAIN swap : swap[i] \in Units \cap s.on
  OBVIOUS
<1>5. o \in s.on
  OBVIOUS
<1>6. PickupOK(h)'
  BY <1>1, <1>2, <1>3, <1>4, <1>5 DEF PickupOK, rowVars
<1>7. HandlerOK(h)'
  BY <1>2, <1>6 DEF HandlerOK
<1> QED
  BY <1>1, <1>7, BeginKept

(* Requests that rely on nothing but their rows. *)
LEMMA BeginOthersKept ==
  ASSUME IInv, NEW h \in Handlers,
         \/ \E o \in Orders, to \in CoreStatuses : BeginStatus(h, o, to)
         \/ \E o \in Orders, w \in Windows : BeginExtend(h, o, w[2])
         \/ \E o \in Orders : \E S, to : BeginSettle(h, o, S, to)
         \/ \E o \in Orders : BeginCancel(h, o)
         \/ \E i \in Items : \E to : BeginReturn(h, i, to)
         \/ \E event \in returned : \E to : BeginInspect(h, event, to)
  PROVE  IInv'
<1>1. ASSUME NEW o \in Orders, NEW to, BeginStatus(h, o, to) PROVE IInv'
  <2> DEFINE s == [pc |-> "status", on |-> {o}, order |-> o, to |-> to]
  <2>1. Begin(h, s) /\ to \in Statuses
    BY <1>1, TransitionsOK DEF BeginStatus, IInv, RowsOK, OrderRows
  <2>2. handler'[h] = s
    BY <2>1, Became
  <2>3. HandlerOK(h)'
    BY <2>1, <2>2 DEF HandlerOK, OrderOK
  <2> QED
    BY <2>1, <2>3, BeginKept
<1>2. ASSUME NEW o \in Orders, NEW w \in Windows, BeginExtend(h, o, w[2]) PROVE IInv'
  <2> DEFINE s == [pc |-> "extend", on |-> {o}, order |-> o, due |-> w[2]]
  <2>1. Begin(h, s) /\ w[2] \in Int
    BY <1>2, RentalAssumption DEF BeginExtend, RentalAssumption
  <2>2. handler'[h] = s
    BY <2>1, Became
  <2>3. HandlerOK(h)'
    BY <2>1, <2>2 DEF HandlerOK, OrderOK
  <2> QED
    BY <2>1, <2>3, BeginKept
<1>3. ASSUME NEW o \in Orders, NEW S, NEW to, BeginSettle(h, o, S, to) PROVE IInv'
  <2> DEFINE s == [pc |-> "settle", on |-> {o} \cup S, order |-> o, units |-> S, to |-> to]
  <2>1. Begin(h, s)
    BY <1>3 DEF BeginSettle
  <2>2. handler'[h] = s
    BY <2>1, Became
  <2>3. HandlerOK(h)'
    BY <2>2 DEF HandlerOK, OrderOK
  <2> QED
    BY <2>1, <2>3, BeginKept
<1>4. ASSUME NEW o \in Orders, BeginCancel(h, o) PROVE IInv'
  <2> DEFINE s == [pc |-> "cancel", on |-> {o} \cup UnitsOf(o), order |-> o, units |-> UnitsOf(o)]
  <2>1. Begin(h, s)
    BY <1>4 DEF BeginCancel
  <2>2. handler'[h] = s
    BY <2>1, Became
  <2>3. HandlerOK(h)'
    BY <2>2 DEF HandlerOK, OrderOK
  <2> QED
    BY <2>1, <2>3, BeginKept
<1>5. ASSUME NEW i \in Items, NEW to, BeginReturn(h, i, to) PROVE IInv'
  <2> DEFINE s == [pc |-> "return", on |-> {OrderOf[i], itemUnit[i]}, item |-> i,
                   unit |-> itemUnit[i], to |-> to, read |-> order[OrderOf[i]]]
  <2>1. Begin(h, s)
    BY <1>5 DEF BeginReturn
  <2>2. handler'[h] = s
    BY <2>1, Became
  <2>3. HandlerOK(h)'
    BY <2>2 DEF HandlerOK
  <2> QED
    BY <2>1, <2>3, BeginKept
<1>6. ASSUME NEW event, NEW to, BeginInspect(h, event, to) PROVE IInv'
  <2> DEFINE s == [pc |-> "inspect", on |-> {event[1], event[2]}, event |-> event, to |-> to,
                   read |-> order[event[1]]]
  <2>1. Begin(h, s)
    BY <1>6 DEF BeginInspect
  <2>2. handler'[h] = s
    BY <2>1, Became
  <2>3. HandlerOK(h)'
    BY <2>2 DEF HandlerOK
  <2> QED
    BY <2>1, <2>3, BeginKept
<1> QED
  BY <1>1, <1>2, <1>3, <1>4, <1>5, <1>6

-----------------------------------------------------------------------------
(* Requests of one step.                                                     *)

LEMMA HoldsTyped ==
  ASSUME holds \in Seq(HoldRows)
  PROVE  /\ Len(holds) \in Nat /\ DOMAIN holds = 1..Len(holds)
         /\ \A n \in DOMAIN holds : holds[n] \in HoldRows /\ Follows(holds[n], holds[n])
  BY LenProperties, ElementOfSeq DEF Follows

LEMMA ReleaseTyped ==
  ASSUME holds \in Seq(HoldRows), NEW n \in DOMAIN holds,
         holds' = [holds EXCEPT ![n].status = "cancelled"]
  PROVE  /\ holds' \in Seq(HoldRows) /\ Len(holds') = Len(holds)
         /\ \A m \in DOMAIN holds : Follows(holds[m], holds'[m])
<1>1. holds' = Updated({n}, "cancelled")
  BY DEF Updated
<1> QED
  BY <1>1, ReleasedRows

LEMMA ByHandKept ==
  ASSUME IInv, ByHand
  PROVE  IInv'
<1>1. /\ Len(holds) \in Nat /\ DOMAIN holds = 1..Len(holds)
      /\ \A n \in DOMAIN holds : holds[n] \in HoldRows /\ Follows(holds[n], holds[n])
  BY HoldsTyped DEF IInv, RowsOK
<1>2. ASSUME NEW o \in Orders, NEW w \in Windows, Reschedule(o, w) PROVE IInv'
  <2>1. w[1] \in Int /\ w[2] \in Int
    BY RentalAssumption DEF RentalAssumption
  <2>2. RowsOK' /\ \A p \in Orders : order'[p].life = order[p].life
    BY <1>2, <2>1 DEF Reschedule, IInv, RowsOK, OrderRows
  <2>3. raced \subseteq raced' /\ UNCHANGED <<holds, itemUnit>>
    BY <1>2 DEF Reschedule, AtOnce, Starts
  <2>4. Effect({o})
    BY <1>1, <2>2, <2>3 DEF Effect
  <2> QED
    BY <1>2, <2>2, <2>3, <2>4, AtOnceKept DEF Reschedule
<1>3. ASSUME NEW i \in Items, NEW u \in Units, AddItem(i, u) PROVE IInv'
  <2>1. RowsOK'
    BY <1>3 DEF AddItem, IInv, RowsOK
  <2>2. \A j \in Items : itemUnit'[j] = itemUnit[j] \/ (j = i /\ itemUnit'[j] = u)
    BY <1>3 DEF AddItem, IInv, RowsOK
  <2>3. Effect({OrderOf[i], u})
    BY <1>1, <1>3, <2>2 DEF AddItem, Effect, AtOnce, Starts
  <2> QED
    BY <1>3, <2>1, <2>3, AtOnceKept DEF AddItem
<1>4. ASSUME NEW i \in Items, RemoveItem(i) PROVE IInv'
  <2>1. holds' \in [1..Len(holds) -> HoldRows]
    BY <1>1, <1>4 DEF RemoveItem, HoldRows
  <2>2. holds' \in Seq(HoldRows) /\ Len(holds') = Len(holds)
    BY <1>1, <2>1, FunctionIsSeq
  <2>3. RowsOK' /\ \A j \in Items : itemUnit'[j] \in {itemUnit[j], None}
    BY <1>4, <2>2 DEF RemoveItem, IInv, RowsOK
  <2>4. \A n \in DOMAIN holds : Follows(holds[n], holds'[n])
    BY <1>1, <1>4 DEF RemoveItem, Follows, HoldRows, Live
  <2>5. DOMAIN holds' = DOMAIN holds
    BY <1>1, <2>1
  <2>6. Effect({OrderOf[i], itemUnit[i]})
    BY <1>1, <1>4, <2>2, <2>3, <2>4, <2>5 DEF RemoveItem, Effect, AtOnce, Starts
  <2> QED
    BY <1>4, <2>3, <2>5, <2>6, AtOnceKept DEF RemoveItem
<1>5. ASSUME NEW n \in DOMAIN holds, Release(n) PROVE IInv'
  <2> DEFINE on == {holds[n].unit} \cup IF holds[n].item = None THEN {} ELSE {OrderOf[holds[n].item]}
  <2>1. AtOnce(on) /\ UNCHANGED <<order, itemUnit>>
    BY <1>5 DEF Release
  <2>2. /\ holds' \in Seq(HoldRows) /\ Len(holds') = Len(holds)
        /\ \A m \in DOMAIN holds : Follows(holds[m], holds'[m])
    BY <1>5, ReleaseTyped DEF Release, IInv, RowsOK
  <2>3. DOMAIN holds' = DOMAIN holds
    BY <1>1, <2>2, LenProperties
  <2>4. RowsOK'
    BY <2>1, <2>2 DEF IInv, RowsOK
  <2> HIDE DEF on
  <2>5. Effect(on)
    BY <1>1, <2>1, <2>2, <2>3 DEF Effect, AtOnce, Starts
  <2> QED
    BY <2>1, <2>3, <2>4, <2>5, AtOnceKept
<1>6. ASSUME NEW on, AtOnce(on), UNCHANGED <<order, itemUnit, holds>> PROVE IInv'
  <2>1. RowsOK'
    BY <1>6 DEF IInv, RowsOK
  <2>2. Effect(on)
    BY <1>1, <1>6 DEF Effect, AtOnce, Starts
  <2> QED
    BY <1>6, <2>1, <2>2, AtOnceKept
<1>7. ASSUME NEW u \in Units, NEW s \in HandStatuses, SetStatus(u, s) PROVE IInv'
  BY <1>6, <1>7 DEF SetStatus
<1>8. ASSUME NEW event \in returned, CompleteCleaning(event) PROVE IInv'
  BY <1>6, <1>8 DEF CompleteCleaning
<1> QED
  BY <1>2, <1>3, <1>4, <1>5, <1>7, <1>8 DEF ByHand

-----------------------------------------------------------------------------
(* Handlers go on.                                                           *)

LEMMA NothingWritten ==
  ASSUME IInv, UNCHANGED <<order, itemUnit, holds>>, raced \subseteq raced', NEW on
  PROVE  RowsOK' /\ Effect(on) /\ DOMAIN holds' = DOMAIN holds
<1>1. RowsOK'
  BY DEF IInv, RowsOK
<1>2. Effect(on)
  BY HoldsTyped DEF Effect, IInv, RowsOK
<1> QED
  BY <1>1, <1>2

(* A life cycle that is written, for the other parts of Effect. *)
LEMMA LifeWritten ==
  ASSUME order \in [Orders -> OrderRows], NEW o, NEW life \in Lives \ {"quote"}, NEW st \in Statuses,
         \/ order' = [order EXCEPT ![o].life = life]
         \/ order' = [order EXCEPT ![o].life = life, ![o].status = st]
         \/ order' = [order EXCEPT ![o] = [@ EXCEPT !.life = life, !.status = st]]
  PROVE  /\ order' \in [Orders -> OrderRows]
         /\ \A p \in Orders : \/ order'[p].life = order[p].life
                              \/ p = o /\ order'[p].life # "quote"
  BY ZenonT(60) DEF OrderRows

LEMMA IdleKept ==
  ASSUME IInv, NEW h \in Handlers, Done(h), Rest, UNCHANGED rowVars
  PROVE  IInv'
<1>1. RowsOK' /\ Effect(handler[h].on) /\ DOMAIN holds' = DOMAIN holds
  BY NothingWritten DEF rowVars, Rest
<1> QED
  BY <1>1, DoneKept DEF Rest

LEMMA JudgeKept ==
  ASSUME IInv, NEW h \in Handlers, Judge(h)
  PROVE  IInv'
<1> DEFINE
      s == handler[h]
      lines == DOMAIN s.items
      fresh == {i \in lines : \A n \in DOMAIN holds : holds[n].item = i => holds[n].status # "held"}
      free == {u \in {s.items[i] : i \in lines} : unit[u] = "available"}
      next == [s EXCEPT !.pc = "advance", !.writes = fresh, !.free = free]
<1>1. s.pc = "judge" /\ UNCHANGED rowVars /\ Rest
  BY DEF Judge, At
<1>2. CASE Done(h)
  BY <1>1, <1>2, IdleKept
<1>3. CASE /\ Become(h, next)
           /\ \A i \in lines : /\ ~ InTheWay(i, s.items[i], s.read.from, s.read.to)
                               /\ \A j \in lines : s.items[i] = s.items[j] => i = j
  <2>1. AdvanceOK(h) /\ JudgeOK(h)
    BY <1>1 DEF IInv, HandlersOK, HandlerOK
  <2>2. /\ DOMAIN next = DOMAIN s
        /\ next.pc = "advance" /\ next.on = s.on /\ next.order = s.order /\ next.to = s.to
        /\ next.read = s.read /\ next.items = s.items /\ next.writes = fresh /\ next.free = free
    BY <2>1 DEF AdvanceOK
  <2>3. handler'[h] = next
    BY <1>3 DEF IInv, HandlersOK, Become
  <2>4. fresh \subseteq lines
    OBVIOUS
  <2> HIDE DEF next, fresh, free
  <2>5. AdvanceOK(h)'
    BY <2>1, <2>2, <2>3, <2>4 DEF AdvanceOK
  <2>6. ASSUME NEW i \in fresh, NEW n \in DOMAIN holds,
               Clashes(n, s.items[i], s.read.from, s.read.to)
        PROVE  s.items[i] \in raced \/ holds[n].item = None
    <3>1. i \in lines /\ i \in Items /\ OrderOf[i] = s.order /\ s.items[i] \in s.on
      BY <2>1, <2>4 DEF AdvanceOK
    <3>2. holds[n].item \in {None, i}
      BY <1>3, <2>6, <3>1 DEF Clashes, InTheWay, Active, LiveOn
    <3>3. CASE order[s.order].life = "quote"
      BY <3>1, <3>2, <3>3 DEF IInv, NoQuoteHeld
    <3>4. CASE s.on \subseteq raced
      BY <3>1, <3>4
    <3> QED
      BY <2>1, <3>3, <3>4 DEF JudgeOK
  <2>7. JudgedOK(h)'
    BY <1>1, <1>3, <2>2, <2>3, <2>6 DEF JudgedOK, rowVars, Rest, Clashes
  <2>8. HandlerOK(h)'
    BY <2>2, <2>3, <2>5, <2>7 DEF HandlerOK
  <2>9. RowsOK' /\ Effect(s.on) /\ DOMAIN holds' = DOMAIN holds
    BY <1>1, NothingWritten DEF rowVars, Rest
  <2>10. \A g \in Handlers \ {h} :
          /\ handler[g].on \cap s.on # {} => handler[g].on \cup s.on \subseteq raced'
          /\ handler[g].on \cap next.on # {} => handler[g].on \cup next.on \subseteq raced'
    BY <1>1, <2>2 DEF IInv, RacedOK, Rest
  <2>11. HandlersOK' /\ RacedOK'
    BY <1>3, <2>8, <2>9, <2>10, HandlersKept
  <2> QED
    BY <2>9, <2>11, HoldsKept DEF IInv
<1> QED
  BY <1>2, <1>3 DEF Judge

LEMMA WriteStatusKept ==
  ASSUME IInv, NEW h \in Handlers, WriteStatus(h)
  PROVE  IInv'
<1>1. handler[h].to \in Statuses
  BY DEF WriteStatus, At, IInv, HandlersOK, HandlerOK, OrderOK
<1>2. RowsOK' /\ \A o \in Orders : order'[o].life = order[o].life
  BY <1>1 DEF WriteStatus, IInv, RowsOK, OrderRows
<1>3. Effect(handler[h].on)
  BY <1>2, HoldsTyped DEF WriteStatus, Rest, Effect, IInv, RowsOK
<1> QED
  BY <1>2, <1>3, DoneKept DEF WriteStatus, Rest

LEMMA ExtendKept ==
  ASSUME IInv, NEW h \in Handlers, Extend(h)
  PROVE  IInv'
<1>1. handler[h].due \in Int
  BY DEF Extend, At, IInv, HandlersOK, HandlerOK, OrderOK
<1>2. RowsOK' /\ \A o \in Orders : order'[o].life = order[o].life
  BY <1>1 DEF Extend, IInv, RowsOK, OrderRows
<1>3. Effect(handler[h].on)
  BY <1>2, HoldsTyped DEF Extend, Rest, Effect, IInv, RowsOK
<1> QED
  BY <1>2, <1>3, DoneKept DEF Extend, Rest

(* Rows are released, a life cycle may be written. *)
LEMMA ReleasingKept ==
  ASSUME IInv, NEW h \in Handlers, Done(h), Rest, UNCHANGED itemUnit,
         holds' = holds \/ \E S : \E st \in {"cancelled", "released"} : holds' = Updated(S, st),
         \/ order' = order
         \/ \E o \in handler[h].on, life \in Lives \ {"quote"}, st \in Statuses :
              \/ order' = [order EXCEPT ![o].life = life]
              \/ order' = [order EXCEPT ![o] = [@ EXCEPT !.life = life, !.status = st]]
  PROVE  IInv'
<1>1. /\ holds' \in Seq(HoldRows) /\ Len(holds') = Len(holds)
      /\ \A n \in DOMAIN holds : Follows(holds[n], holds'[n])
  BY HoldsTyped, ReleasedRows, ZenonT(60) DEF IInv, RowsOK
<1>2. DOMAIN holds' = DOMAIN holds /\ Len(holds) <= Len(holds')
  BY <1>1, SameLength DEF IInv, RowsOK
<1>3. /\ order' \in [Orders -> OrderRows]
      /\ \A p \in Orders : \/ order'[p].life = order[p].life
                           \/ p \in handler[h].on /\ order'[p].life # "quote"
  BY LifeWritten DEF IInv, RowsOK
<1>4. RowsOK'
  BY <1>1, <1>3 DEF IInv, RowsOK
<1>5. raced' = raced /\ itemUnit' = itemUnit
  BY DEF Rest
<1>6. \A n \in DOMAIN holds' \ DOMAIN holds : holds'[n].unit \in handler[h].on \cup raced'
  BY <1>2
<1>7. Effect(handler[h].on)
  BY <1>1, <1>2, <1>3, <1>5, <1>6 DEF Effect
<1> QED
  BY <1>2, <1>4, <1>5, <1>7, DoneKept

LEMMA SettleKept ==
  ASSUME IInv, NEW h \in Handlers, Settle(h) \/ Cancel(h) \/ Return(h) \/ Inspect(h)
  PROVE  IInv'
<1> DEFINE s == handler[h]
<1>0. {"returned", "cancelled", "inspected"} \subseteq Lives \ {"quote"}
      /\ "cancelled" \in Statuses
  BY DEF Lives, Allowed, Statuses, Transitions
<1>1. CASE Settle(h)
  <2>1. s.order \in s.on
    BY <1>1 DEF Settle, At, IInv, HandlersOK, HandlerOK, OrderOK
  <2> QED
    BY <1>0, <1>1, <2>1, ReleasingKept DEF Settle
<1>2. CASE Cancel(h)
  <2>1. s.order \in s.on
    BY <1>2 DEF Cancel, At, IInv, HandlersOK, HandlerOK, OrderOK
  <2> QED
    BY <1>0, <1>2, <2>1, ReleasingKept DEF Cancel
<1>3. CASE Return(h)
  <2>1. OrderOf[s.item] \in s.on
    BY <1>3 DEF Return, At, IInv, HandlersOK, HandlerOK
  <2>2. \/ order' = order
        \/ order' = [order EXCEPT ![OrderOf[s.item]].life = "returned"]
    BY <1>3 DEF Return
  <2> QED
    BY <1>0, <1>3, <2>1, <2>2, ReleasingKept DEF Return
<1>4. CASE Inspect(h)
  <2>1. s.event[1] \in s.on
    BY <1>4 DEF Inspect, At, IInv, HandlersOK, HandlerOK
  <2>2. \/ order' = order
        \/ order' = [order EXCEPT ![s.event[1]].life = "inspected"]
    BY <1>4 DEF Inspect
  <2> QED
    BY <1>0, <1>4, <2>1, <2>2, ReleasingKept DEF Inspect
<1> QED
  BY <1>1, <1>2, <1>3, <1>4

-----------------------------------------------------------------------------
(* Rows are added behind those that are there.                               *)
LEMMA Joined ==
  ASSUME holds \in Seq(HoldRows), NEW old \in Seq(HoldRows), NEW rows \in Seq(HoldRows),
         Len(old) = Len(holds), \A n \in DOMAIN holds : Follows(holds[n], old[n]),
         holds' = old \o rows
  PROVE  /\ holds' \in Seq(HoldRows) /\ Len(holds) <= Len(holds')
         /\ \A n \in DOMAIN holds : Follows(holds[n], holds'[n]) /\ holds'[n] = old[n]
         /\ \A m \in DOMAIN holds' \ DOMAIN holds :
              \E k \in DOMAIN rows : m = Len(holds) + k /\ holds'[m] = rows[k]
<1>1. /\ holds' \in Seq(HoldRows) /\ Len(holds') = Len(old) + Len(rows)
      /\ \A n \in 1 .. Len(old) + Len(rows) :
           holds'[n] = IF n <= Len(old) THEN old[n] ELSE rows[n - Len(old)]
  BY ConcatProperties
<1>2. /\ DOMAIN holds = 1..Len(holds) /\ DOMAIN holds' = 1..Len(holds')
      /\ DOMAIN rows = 1..Len(rows)
      /\ Len(holds) \in Nat /\ Len(rows) \in Nat
  BY <1>1, LenProperties
<1>3. ASSUME NEW n \in DOMAIN holds PROVE Follows(holds[n], holds'[n]) /\ holds'[n] = old[n]
  BY <1>1, <1>2
<1>4. ASSUME NEW m \in DOMAIN holds' \ DOMAIN holds
      PROVE  \E k \in DOMAIN rows : m = Len(holds) + k /\ holds'[m] = rows[k]
  <2>1. m - Len(holds) \in DOMAIN rows /\ m = Len(holds) + (m - Len(holds))
    BY <1>1, <1>2
  <2>2. holds'[m] = rows[m - Len(holds)]
    BY <1>1, <1>2
  <2> QED
    BY <2>1, <2>2
<1>5. Len(holds') = Len(holds) + Len(rows)
  BY <1>1
<1>6. Len(holds) <= Len(holds) + Len(rows)
  BY <1>2
<1> QED
  BY <1>1, <1>3, <1>4, <1>5, <1>6, Zenon

LEMMA OneRow ==
  ASSUME NEW S, NEW s \in Seq(S), NEW row \in S
  PROVE  /\ <<row>> \in Seq(S) /\ Append(s, row) = s \o <<row>>
         /\ DOMAIN <<row>> = {1} /\ <<row>>[1] = row
  OBVIOUS

LEMMA ReserveKept ==
  ASSUME IInv, NEW h \in Handlers, Reserve(h)
  PROVE  IInv'
<1> DEFINE s == handler[h]
           row == Hold(s.unit, None, s.from, s.to, "held", "counter")
<1>1. CounterOK(h)
  BY DEF Reserve, At, IInv, HandlersOK, HandlerOK
<1>2. Done(h) /\ Rest /\ UNCHANGED <<order, itemUnit>>
  BY DEF Reserve
<1>3. CASE ~ Serializes(s)
  <2>1. RowsOK' /\ Effect(s.on) /\ DOMAIN holds' = DOMAIN holds
    BY <1>2, <1>3, NothingWritten DEF Reserve, Rest
  <2> QED
    BY <1>2, <2>1, DoneKept DEF Rest
<1>4. CASE Serializes(s)
  <2>1. holds' = Append(holds, row)
    BY <1>4 DEF Reserve
  <2>2. row \in HoldRows
    BY <1>1 DEF CounterOK, HoldRows, HoldStatuses, Hold
  <2>3. row.unit = s.unit /\ row.item = None /\ row.from = s.from /\ row.to = s.to /\ row.by = "counter"
    BY DEF Hold
  <2> HIDE DEF row
  <2>4. holds \in Seq(HoldRows) /\ \A n \in DOMAIN holds : Follows(holds[n], holds[n])
    BY HoldsTyped DEF IInv, RowsOK
  <2>5. /\ holds' \in Seq(HoldRows) /\ Len(holds) <= Len(holds')
        /\ \A n \in DOMAIN holds : Follows(holds[n], holds'[n]) /\ holds'[n] = holds[n]
        /\ \A m \in DOMAIN holds' \ DOMAIN holds : m = Len(holds) + 1 /\ holds'[m] = row
    BY <2>1, <2>2, <2>4, OneRow, Joined
  <2>6. RowsOK'
    BY <1>2, <2>5 DEF IInv, RowsOK
  <2>7. Effect(s.on)
    BY <1>1, <1>2, <2>3, <2>5 DEF Effect, Rest, CounterOK
  <2>8. Len(holds) \in Nat /\ DOMAIN holds = 1..Len(holds)
    BY HoldsTyped DEF IInv, RowsOK
  <2>9. ASSUME NEW m \in DOMAIN holds' \ DOMAIN holds, NEW n \in 1 .. m - 1 PROVE Apart(n, m)'
    <3>1. n \in DOMAIN holds /\ holds'[n] = holds[n] /\ holds'[m] = row
      BY <2>5, <2>8, <2>9
    <3>2. SUFFICES ASSUME Clashes(n, s.unit, s.from, s.to)
                   PROVE  \/ holds[n].by = "revived"
                          \/ s.unit \in raced /\ holds[n].by # "counter"
      BY <1>2, <2>3, <3>1 DEF Apart, Clashes, Rest
    <3>3. CASE n <= s.seen
      BY <1>1, <3>1, <3>2, <3>3 DEF CounterOK
    <3>4. CASE ~ (n <= s.seen)
      <4>1. n \in s.seen + 1 .. Len(holds)
        BY <1>1, <2>8, <3>1, <3>4 DEF CounterOK
      <4>2. holds[n].by # "counter"
        BY <1>4, <3>2, <4>1 DEF Serializes, Clashes
      <4> QED
        BY <1>1, <3>1, <3>2, <4>2 DEF CounterOK
    <3> QED
      BY <3>3, <3>4
  <2> QED
    BY <1>2, <2>3, <2>5, <2>6, <2>7, <2>9, DoneKept DEF Rest
<1> QED
  BY <1>3, <1>4

LEMMA ExchangeKept ==
  ASSUME IInv, NEW h \in Handlers, Exchange(h)
  PROVE  IInv'
<1> DEFINE
      s == handler[h]
      out == s.read.life = "checked_out"
      left == {n \in LiveOn({s.from}) : holds[n].item = s.item}
      old == Updated(left, "released")
      row == Hold(s.to, s.item, s.read.from, s.read.to, IF out THEN "checked_out" ELSE "held", "exchange")
<1>1. ExchangeOK(h)
  BY DEF Exchange, At, IInv, HandlersOK, HandlerOK
<1>2. /\ Done(h) /\ Rest /\ UNCHANGED order
      /\ itemUnit' = [itemUnit EXCEPT ![s.item] = s.to]
      /\ holds' = Append(old, row)
  BY DEF Exchange
<1>3. row \in HoldRows
  BY <1>1 DEF ExchangeOK, OrderRows, HoldRows, HoldStatuses, Hold
<1>4. row.unit = s.to /\ row.item = s.item /\ row.by = "exchange"
  BY DEF Hold
<1>5. /\ holds \in Seq(HoldRows) /\ old \in Seq(HoldRows) /\ Len(old) = Len(holds)
      /\ \A n \in DOMAIN holds : Follows(holds[n], old[n])
  BY ReleasedRows DEF IInv, RowsOK
<1> HIDE DEF row, old
<1>6. /\ holds' \in Seq(HoldRows) /\ Len(holds) <= Len(holds')
      /\ \A n \in DOMAIN holds : Follows(holds[n], holds'[n])
      /\ \A m \in DOMAIN holds' \ DOMAIN holds : holds'[m] = row
  BY <1>2, <1>3, <1>5, OneRow, Joined
<1>7. \A i \in Items : itemUnit'[i] = itemUnit[i] \/ (i = s.item /\ itemUnit'[i] = s.to)
  BY <1>2 DEF IInv, RowsOK
<1>8. RowsOK'
  BY <1>1, <1>2, <1>6 DEF IInv, RowsOK, ExchangeOK
<1>9. Effect(s.on)
  BY <1>1, <1>2, <1>4, <1>6, <1>7 DEF Effect, Rest, ExchangeOK
<1>10. ASSUME NEW m \in DOMAIN holds' \ DOMAIN holds
       PROVE  /\ \A n \in 1 .. m - 1 : Apart(n, m)'
              /\ holds'[m].item # None => order'[OrderOf[holds'[m].item]].life # "quote"
  BY <1>1, <1>2, <1>4, <1>6 DEF Apart, ExchangeOK
<1> QED
  BY <1>2, <1>8, <1>9, <1>10, DoneKept DEF Rest

LEMMA PickupKept ==
  ASSUME IInv, NEW h \in Handlers, Pickup(h)
  PROVE  IInv'
<1> DEFINE
      s == handler[h]
      lines == ItemsOf(s.order)
      unitOf(i) == IF i \in DOMAIN s.swap THEN s.swap[i] ELSE itemUnit[i]
      hold(i) == Hold(unitOf(i), i, s.read.from, s.read.to, "checked_out", "pickup")
<1>1. PickupOK(h)
  BY DEF Pickup, At, IInv, HandlersOK, HandlerOK
<1>2. \A i \in lines : i \in Items /\ OrderOf[i] = s.order /\ unitOf(i) \in Units \cap (s.on \cup raced)
  BY <1>1 DEF PickupOK, ItemsOf, IInv, RowsOK
<1>3. PICK row \in [lines -> 0 .. Len(holds)] :
        holds' = [n \in DOMAIN holds |->
                    IF \E i \in lines : row[i] = n
                      THEN [holds[n] EXCEPT !.status = "checked_out",
                                            !.by = IF Live(holds[n]) THEN @ ELSE "revived"]
                      ELSE holds[n]]
                 \o SetToSeq({hold(i) : i \in {j \in lines : row[j] = 0}})
  BY DEF Pickup
<1> DEFINE
      J == {j \in lines : row[j] = 0}
      new == {hold(i) : i \in J}
      old == [n \in DOMAIN holds |->
                IF \E i \in lines : row[i] = n
                  THEN [holds[n] EXCEPT !.status = "checked_out",
                                        !.by = IF Live(holds[n]) THEN @ ELSE "revived"]
                  ELSE holds[n]]
<1>4. /\ Len(holds) \in Nat /\ DOMAIN holds = 1..Len(holds) /\ holds \in Seq(HoldRows)
      /\ \A n \in DOMAIN holds : holds[n] \in HoldRows
  BY HoldsTyped DEF IInv, RowsOK
<1>5. \A n \in DOMAIN holds : old[n] \in HoldRows /\ Follows(holds[n], old[n])
  BY <1>4, ZenonT(60) DEF HoldRows, HoldStatuses, Follows, Live
<1>6. old \in Seq(HoldRows) /\ Len(old) = Len(holds)
  <2>1. old = [n \in 1..Len(holds) |-> old[n]]
    BY <1>4
  <2> HIDE DEF old
  <2>2. old \in [1..Len(holds) -> HoldRows]
    BY <1>4, <1>5, <2>1
  <2> QED
    BY <1>4, <2>2, FunctionIsSeq
<1>7. \A r \in new : \E i \in lines : /\ r.item = i /\ r.unit = unitOf(i) /\ r.by = "pickup"
                                     /\ r \in HoldRows
  BY <1>1, <1>2 DEF Hold, HoldRows, HoldStatuses, OrderRows, PickupOK
<1>8. IsFiniteSet(new)
  <2>1. IsFiniteSet(J)
    BY <1>2, FS_Subset, RentalAssumption DEF RentalAssumption
  <2> DEFINE f == [i \in J |-> hold(i)]
  <2>2. f \in [J -> new] /\ \A r \in new : \E i \in J : f[i] = r
    OBVIOUS
  <2> HIDE DEF new, J, f
  <2> QED
    BY <2>1, <2>2, ImageFinite
<1>9. holds' = old \o SetToSeq(new)
  BY <1>3
<1> HIDE DEF new, old, unitOf
<1>10. SetToSeq(new) \in Seq(new) /\ new \subseteq HoldRows
  BY <1>7, <1>8, SetToSeqRows
<1>11. /\ SetToSeq(new) \in Seq(HoldRows)
       /\ \A k \in DOMAIN SetToSeq(new) : SetToSeq(new)[k] \in new
  BY <1>10, SeqMonotonic, LenProperties, ElementOfSeq
<1>12. /\ holds' \in Seq(HoldRows) /\ Len(holds) <= Len(holds')
       /\ \A n \in DOMAIN holds : Follows(holds[n], holds'[n])
       /\ \A m \in DOMAIN holds' \ DOMAIN holds : holds'[m] \in new
  BY <1>4, <1>5, <1>6, <1>9, <1>11, Joined
<1>13. /\ Done(h) /\ Rest
       /\ itemUnit' = [i \in Items |-> IF i \in lines THEN unitOf(i) ELSE itemUnit[i]]
       /\ order' = [order EXCEPT ![s.order] =
                      [@ EXCEPT !.life = "checked_out", !.status = "fulfilled", !.from = Today]]
  BY DEF Pickup, unitOf
<1>14. /\ order' \in [Orders -> OrderRows] /\ order'[s.order].life = "checked_out"
       /\ \A o \in Orders : order'[o].life = order[o].life \/ o = s.order
  BY <1>1, <1>13, RentalAssumption, ZenonT(60)
     DEF IInv, RowsOK, OrderRows, Lives, Allowed, Statuses, Transitions, RentalAssumption, PickupOK
<1>15. /\ itemUnit' \in [Items -> Units \cup {None}]
       /\ \A i \in Items : itemUnit'[i] = itemUnit[i]
            \/ (OrderOf[i] = s.order /\ itemUnit'[i] \in s.on \cup raced)
  BY <1>2, <1>13 DEF IInv, RowsOK
<1>16. RowsOK'
  BY <1>12, <1>14, <1>15 DEF RowsOK
<1>17. \A m \in DOMAIN holds' \ DOMAIN holds :
         /\ holds'[m].unit \in s.on \cup raced /\ holds'[m].by = "pickup"
         /\ OrderOf[holds'[m].item] = s.order
  BY <1>2, <1>7, <1>12
<1>18. raced' = raced /\ s.order \in s.on
  BY <1>1, <1>13 DEF Rest, PickupOK
<1>19. Effect(s.on)
  BY <1>12, <1>14, <1>15, <1>17, <1>18 DEF Effect
<1>20. ASSUME NEW m \in DOMAIN holds' \ DOMAIN holds
       PROVE  /\ \A n \in 1 .. m - 1 : Apart(n, m)'
              /\ holds'[m].item # None => order'[OrderOf[holds'[m].item]].life # "quote"
  BY <1>14, <1>17 DEF Apart
<1> QED
  BY <1>13, <1>16, <1>18, <1>19, <1>20, DoneKept

(* The reservations of an order do not meet each other, and meet those of    *)
(* others only where Judge could not know.                                   *)
LEMMA AdvanceKept ==
  ASSUME IInv, NEW h \in Handlers, Advance(h)
  PROVE  IInv'
<1> DEFINE
      s == handler[h]
      lines == DOMAIN s.items
      st == IF CoreOf[s.to] # s.read.status THEN CoreOf[s.to] ELSE order[s.order].status
<1>1. s.pc = "advance" /\ AdvanceOK(h) /\ JudgedOK(h)
  BY DEF Advance, At, IInv, HandlersOK, HandlerOK
<1>2. s.order \in Orders /\ s.order \in s.on /\ s.to \in Lives \ {"quote"} /\ st \in Statuses
  BY <1>1, CoreStatusesOK DEF AdvanceOK, IInv, RowsOK, OrderRows
<1>3. /\ Done(h) /\ Rest /\ UNCHANGED itemUnit
      /\ order' = [order EXCEPT ![s.order].life = s.to, ![s.order].status = st]
  BY DEF Advance
<1>4. /\ order' \in [Orders -> OrderRows] /\ order'[s.order].life = s.to
      /\ \A p \in Orders : \/ order'[p].life = order[p].life
                           \/ p \in s.on /\ order'[p].life # "quote"
  <2>1. /\ order' \in [Orders -> OrderRows]
        /\ \A p \in Orders : \/ order'[p].life = order[p].life
                             \/ p = s.order /\ order'[p].life # "quote"
    BY <1>2, <1>3, LifeWritten DEF IInv, RowsOK
  <2>2. order'[s.order].life = s.to
    BY <1>2, <1>3 DEF IInv, RowsOK, OrderRows
  <2> QED
    BY <1>2, <2>1, <2>2
<1>5. /\ Len(holds) \in Nat /\ DOMAIN holds = 1..Len(holds) /\ holds \in Seq(HoldRows)
      /\ \A n \in DOMAIN holds : Follows(holds[n], holds[n])
  BY HoldsTyped DEF IInv, RowsOK
<1>6. ASSUME holds' \in Seq(HoldRows), Len(holds') = Len(holds),
             \A n \in DOMAIN holds : Follows(holds[n], holds'[n])
      PROVE  IInv'
  <2>1. DOMAIN holds' = DOMAIN holds /\ Len(holds) <= Len(holds')
    BY <1>5, <1>6, SameLength
  <2>2. RowsOK'
    BY <1>3, <1>4, <1>6 DEF IInv, RowsOK
  <2>3. raced' = raced /\ itemUnit' = itemUnit
    BY <1>3 DEF Rest
  <2>4. Effect(s.on)
    BY <1>4, <1>6, <2>1, <2>3 DEF Effect
  <2> QED
    BY <1>3, <2>1, <2>2, <2>3, <2>4, DoneKept
<1>7. CASE CheckoutUnits(s)
  <2>1. holds' = Updated(Held(lines), "checked_out") /\ "checked_out" \in HoldStatuses
    BY <1>7 DEF CheckoutUnits, HoldStatuses
  <2>2. /\ holds' \in Seq(HoldRows) /\ Len(holds') = Len(holds)
        /\ \A n \in DOMAIN holds :
             IF n \in Held(lines) THEN Marked(holds[n], holds'[n], "checked_out")
                                  ELSE holds'[n] = holds[n]
    BY <1>5, <2>1, UpdatedRows
  <2>3. \A n \in DOMAIN holds : Follows(holds[n], holds'[n])
    BY <1>5, <2>2 DEF Held, Marked, Follows, Live
  <2> QED
    BY <1>6, <2>2, <2>3
<1>8. CASE ReleaseHolds(s)
  <2>1. holds' = Updated(Held(lines), "cancelled")
    BY <1>8 DEF ReleaseHolds
  <2> QED
    BY <1>5, <1>6, <2>1, ReleasedRows
<1>9. CASE UNCHANGED holds
  BY <1>5, <1>6, <1>9
<1>10. CASE s.to = "reserved" /\ ReserveUnits(s)
  <2> DEFINE row(i) == Hold(s.items[i], i, s.read.from, s.read.to, "held", "order")
             T == {row(i) : i \in s.writes}
  <2>1. holds' = holds \o SetToSeq(T)
    BY <1>10 DEF ReserveUnits
  <2>2. \A i \in s.writes : i \in lines /\ i \in Items /\ OrderOf[i] = s.order
                            /\ s.items[i] \in Units /\ s.items[i] \in s.on
    BY <1>1 DEF AdvanceOK
  <2>3. \A i \in s.writes : /\ row(i).unit = s.items[i] /\ row(i).item = i /\ row(i).by = "order"
                            /\ row(i).from = s.read.from /\ row(i).to = s.read.to
                            /\ row(i) \in HoldRows
    BY <1>1, <2>2 DEF Hold, HoldRows, HoldStatuses, OrderRows, AdvanceOK
  <2>4. \A t \in T : \E i \in s.writes : t = row(i)
    OBVIOUS
  <2>5. IsFiniteSet(T)
    <3>1. IsFiniteSet(s.writes)
      BY <2>2, FS_Subset, RentalAssumption DEF RentalAssumption
    <3> DEFINE f == [i \in s.writes |-> row(i)]
    <3>2. f \in [s.writes -> T] /\ \A t \in T : \E i \in s.writes : f[i] = t
      OBVIOUS
    <3> HIDE DEF T, f
    <3> QED
      BY <3>1, <3>2, ImageFinite
  <2> HIDE DEF T, row
  <2>6. /\ SetToSeq(T) \in Seq(T) /\ T \subseteq HoldRows
        /\ \A j, k \in DOMAIN SetToSeq(T) : SetToSeq(T)[j] = SetToSeq(T)[k] => j = k
    BY <2>3, <2>4, <2>5, SetToSeqRows
  <2>7. /\ SetToSeq(T) \in Seq(HoldRows)
        /\ \A k \in DOMAIN SetToSeq(T) : SetToSeq(T)[k] \in T
    BY <2>6, SeqMonotonic, LenProperties, ElementOfSeq
  <2>8. /\ holds' \in Seq(HoldRows) /\ Len(holds) <= Len(holds')
        /\ \A n \in DOMAIN holds : Follows(holds[n], holds'[n]) /\ holds'[n] = holds[n]
        /\ \A m \in DOMAIN holds' \ DOMAIN holds :
             \E k \in DOMAIN SetToSeq(T) : m = Len(holds) + k /\ holds'[m] = SetToSeq(T)[k]
    BY <1>5, <2>1, <2>7, Joined
  <2>9. raced' = raced /\ itemUnit' = itemUnit
    BY <1>3 DEF Rest
  <2>10. RowsOK'
    BY <1>4, <2>8, <2>9 DEF IInv, RowsOK
  <2>11. \A m \in DOMAIN holds' \ DOMAIN holds : \E i \in s.writes : holds'[m] = row(i)
    BY <2>4, <2>7, <2>8
  <2>12. \A m \in DOMAIN holds' \ DOMAIN holds : holds'[m].unit \in s.on
    BY <2>2, <2>3, <2>11
  <2>13. Effect(s.on)
    BY <1>4, <2>8, <2>9, <2>12 DEF Effect
  <2>14. ASSUME NEW m \in DOMAIN holds' \ DOMAIN holds, holds'[m].item # None
         PROVE  order'[OrderOf[holds'[m].item]].life # "quote"
    BY <1>2, <1>4, <2>2, <2>3, <2>11, <2>14
  <2>15. ASSUME NEW m \in DOMAIN holds' \ DOMAIN holds, NEW n \in 1 .. m - 1 PROVE Apart(n, m)'
    <3>1. PICK i \in s.writes : holds'[m] = row(i)
      BY <2>11
    <3>2. CASE n \in DOMAIN holds
      <4>1. SUFFICES ASSUME Clashes(n, s.items[i], s.read.from, s.read.to)
                     PROVE  \/ s.items[i] \in raced \/ holds[n].item = None
                            \/ holds[n].by = "revived"
        BY <2>3, <2>8, <2>9, <3>1, <3>2 DEF Apart, Clashes
      <4> QED
        BY <1>1, <1>10, <3>2, <4>1 DEF JudgedOK
    <3>3. CASE n \notin DOMAIN holds
      <4>1. n \in DOMAIN holds' /\ n # m
        BY <2>8, <2>15, LenProperties
      <4>2. PICK j \in s.writes : holds'[n] = row(j)
        BY <2>11, <3>3, <4>1
      <4>3. holds'[n] # holds'[m]
        BY <1>5, <2>6, <2>8, <3>3, <4>1
      <4>4. holds'[n].unit # holds'[m].unit
        BY <1>1, <1>10, <2>2, <2>3, <3>1, <4>2, <4>3 DEF JudgedOK
      <4> QED
        BY <4>4 DEF Apart
    <3> QED
      BY <3>2, <3>3
  <2> QED
    BY <1>3, <2>9, <2>10, <2>13, <2>14, <2>15, DoneKept
<1> QED
  BY <1>7, <1>8, <1>9, <1>10 DEF Advance

-----------------------------------------------------------------------------
LEMMA StepKept == IInv /\ [Next]_vars => IInv'
<1> SUFFICES ASSUME IInv, [Next]_vars PROVE IInv'
  OBVIOUS
<1>1. CASE UNCHANGED vars
  <2>1. RowsOK' /\ HandlersOK' /\ RacedOK'
    BY <1>1 DEF vars, rowVars, IInv, RowsOK, HandlersOK, HandlerOK, RacedOK, AdvanceOK, JudgeOK,
                JudgedOK, ExchangeOK, PickupOK, CounterOK, OrderOK, Clashes
  <2>2. NoQuoteHeld' /\ BookedApart'
    BY <1>1 DEF vars, rowVars, IInv, NoQuoteHeld, BookedApart
  <2> QED
    BY <2>1, <2>2 DEF IInv
<1>2. ASSUME NEW h \in Handlers, BeginOrder(h) PROVE IInv'
  BY <1>2, BeginAdvanceKept, BeginOthersKept DEF BeginOrder, Lives
<1>3. ASSUME NEW h \in Handlers, BeginRental(h) PROVE IInv'
  <2>1. ASSUME NEW o \in Orders, BeginPickup(h, o, <<>>) PROVE IInv'
    BY <2>1, BeginPickupKept
  <2>2. ASSUME NEW o \in Orders, NEW i, NEW u \in Units, BeginPickup(h, o, [x \in {i} |-> u])
        PROVE  IInv'
    <3>1. \A x \in DOMAIN [x \in {i} |-> u] : [y \in {i} |-> u][x] \in Units
      OBVIOUS
    <3> QED
      BY <2>2, <3>1, BeginPickupKept
  <2> QED
    BY <1>3, <2>1, <2>2, BeginExchangeKept, BeginOthersKept DEF BeginRental
<1>4. ASSUME NEW h \in Handlers, BeginBack(h) PROVE IInv'
  BY <1>4, BeginOthersKept DEF BeginBack
<1>5. ASSUME NEW h \in Handlers, NEW u \in Units, NEW w \in Windows, BeginReserve(h, u, w) PROVE IInv'
  BY <1>5, BeginReserveKept
<1>6. ASSUME NEW h \in Handlers, Work(h) PROVE IInv'
  <2>1. CASE Fail(h)
    BY <2>1, IdleKept DEF Fail, rowVars
  <2> QED
    BY <1>6, <2>1, JudgeKept, AdvanceKept, WriteStatusKept, ReserveKept, ExchangeKept,
       ExtendKept, PickupKept, SettleKept DEF Work
<1> QED
  BY <1>1, <1>2, <1>3, <1>4, <1>5, <1>6, ByHandKept DEF Next

(* The reservations of a unit keep apart, for any orders, lines, units and   *)
(* handlers: those of the counter always, those of orders unless requests    *)
(* ran at once (reserveUnit, reserveRentalUnits).                            *)
THEOREM ReservationsApart == Spec => []BookedApart
<1>1. IInv => BookedApart
  BY DEF IInv
<1> QED
  BY <1>1, InitOK, StepKept, PTL DEF Spec

-----------------------------------------------------------------------------
(* Reserved units are held, and the holds of an order are those its life     *)
(* cycle calls for: a second layer on top of IInv.                           *)

(* The life cycles before the units are handed over. *)
Ahead == {"quote", "reserved", "fitted", "ready"}
Back == {"returned", "inspected", "closed"}

UnitsOK == unit = [u \in Units |-> unit[u]]

(* A row that names a line finds it. *)
LinesStand ==
  \A n \in DOMAIN holds : holds[n].item # None => itemUnit[holds[n].item] # None

(* A live row of a line that has another unit by now lies on a unit nothing  *)
(* is said about.                                                            *)
NoStray ==
  \A n \in DOMAIN holds :
    holds[n].item # None /\ Live(holds[n]) /\ itemUnit[holds[n].item] # holds[n].unit
      => holds[n].unit \in raced \cup loose

(* The live rows of a line are for its unit and, before it is handed over,   *)
(* held; and it has the one that the life cycle of its order calls for.      *)
OwnLine(i) ==
  LET life == order[OrderOf[i]].life IN
  /\ \A n \in DOMAIN holds : holds[n].item = i /\ Live(holds[n]) =>
       holds[n].unit = itemUnit[i] /\ (life \in Ahead => holds[n].status = "held")
  /\ itemUnit[i] # None =>
       /\ life \in Ahead \ {"quote"} => OwnHold(i, "held")
       /\ life = "checked_out" /\ <<OrderOf[i], itemUnit[i]>> \notin returned
            => OwnHold(i, "checked_out")
       /\ life = "cancelled" => \A n \in DOMAIN holds : holds[n].item = i => ~ Live(holds[n])

LinesOwn == \A i \in Items : i \in loose \/ OrderOf[i] \in raced \/ OwnLine(i)

Tables == UnitsOK /\ LinesStand /\ NoStray /\ LinesOwn /\ ReservedIsHeld

(* The line i has the unit u that was read, unless requests ran at once. *)
Still(on, i, u) == itemUnit[i] = u \/ (on \subseteq raced /\ itemUnit[i] \in raced \cup {None})
LifeRead(h, o) == o \notin raced => order[o].life = handler[h].read.life

ReadItems(h) ==
  LET s == handler[h] IN
  /\ \A i \in DOMAIN s.items : Still(s.on, i, s.items[i])
  /\ s.order \notin raced => ItemsOf(s.order) \subseteq DOMAIN s.items
  /\ LifeRead(h, s.order) /\ s.to \in Allowed[s.read.life]
  /\ s.free \subseteq {s.items[i] : i \in DOMAIN s.items}

ReadWrites(h) ==
  LET s == handler[h] IN
  s.to = "reserved" => s.writes = DOMAIN s.items \/ s.on \subseteq raced

ReadExchange(h) ==
  LET s == handler[h] IN
  /\ Still(s.on, s.item, s.from) /\ LifeRead(h, OrderOf[s.item])
  /\ s.read.life \in {"checked_out", "reserved", "fitted"}

ReadReturn(h) ==
  LET s == handler[h] IN
  s.item \in Items /\ Still(s.on, s.item, s.unit) /\ s.to # "reserved"

ReadOK(h) ==
  LET pc == handler[h].pc IN
  /\ pc \in {"judge", "advance"} => ReadItems(h)
  /\ pc = "advance" => ReadWrites(h)
  /\ pc = "exchange" => ReadExchange(h)
  /\ pc = "cancel" =>
       (handler[h].order \notin raced => UnitsOf(handler[h].order) \subseteq handler[h].units)
  /\ pc = "return" => ReadReturn(h)
  /\ pc \in {"inspect", "settle"} => handler[h].to # "reserved"

ReadsOK == \A h \in Handlers : ReadOK(h)

(* The inductive invariant of the second layer. *)
HInv == IInv /\ Tables /\ ReadsOK

-----------------------------------------------------------------------------
(* What a step that works on the rows of on leaves of what others have read. *)
Touches(on) ==
  /\ raced \subseteq raced' /\ loose \subseteq loose' /\ returned \subseteq returned'
  /\ \A o \in Orders \ on : order'[o].life = order[o].life
  /\ \A i \in Items : \/ itemUnit'[i] = itemUnit[i]
                      \/ OrderOf[i] \in on /\ itemUnit'[i] \in on \cup raced' \cup {None}

LEMMA ReadKept ==
  ASSUME NEW g \in Handlers, HandlerOK(g), ReadOK(g), handler'[g] = handler[g], NEW on, Touches(on),
         handler[g].on \cap on # {} => handler[g].on \cup on \subseteq raced'
  PROVE  ReadOK(g)'
<1> DEFINE s == handler[g]
<1>1. raced \subseteq raced' /\ handler'[g] = s
  BY DEF Touches
<1>2. ASSUME NEW i \in Items, OrderOf[i] \in s.on, NEW u, Still(s.on, i, u)
      PROVE  itemUnit'[i] = u \/ (s.on \subseteq raced' /\ itemUnit'[i] \in raced' \cup {None})
  BY <1>1, <1>2 DEF Still, Touches
<1>3. ASSUME NEW o \in Orders, o \in s.on, o \notin raced'
      PROVE  o \notin raced /\ o \notin on /\ order'[o].life = order[o].life
             /\ ItemsOf(o)' = ItemsOf(o) /\ UnitsOf(o)' = UnitsOf(o)
  <2>1. o \notin raced /\ o \notin on
    BY <1>1, <1>3
  <2>2. \A i \in Items : OrderOf[i] = o => itemUnit'[i] = itemUnit[i]
    BY <2>1 DEF Touches
  <2>3. ItemsOf(o)' = ItemsOf(o)
    BY <2>2 DEF ItemsOf
  <2>4. UnitsOf(o)' = UnitsOf(o)
    BY <2>2, <2>3 DEF ItemsOf, UnitsOf
  <2> QED
    BY <2>1, <2>3, <2>4 DEF Touches
<1>4. ASSUME NEW o \in Orders, o \in s.on, LifeRead(g, o) PROVE LifeRead(g, o)'
  BY <1>1, <1>3, <1>4 DEF LifeRead
<1>5. s.pc \in {"judge", "advance"} => ReadItems(g)'
  <2> SUFFICES ASSUME s.pc \in {"judge", "advance"} PROVE ReadItems(g)'
    OBVIOUS
  <2>1. AdvanceOK(g) /\ ReadItems(g)
    BY DEF HandlerOK, ReadOK
  <2>2. s.order \in Orders /\ s.order \in s.on
    BY <2>1 DEF AdvanceOK
  <2>3. \A i \in DOMAIN s.items : Still(s.on, i, s.items[i])'
    BY <1>1, <1>2, <2>1 DEF AdvanceOK, ReadItems, Still
  <2>4. s.order \notin raced' => ItemsOf(s.order)' \subseteq DOMAIN s.items
    BY <1>3, <2>1, <2>2 DEF ReadItems
  <2>5. LifeRead(g, s.order)'
    BY <1>1, <1>4, <2>1, <2>2 DEF ReadItems, LifeRead
  <2> QED
    BY <1>1, <2>1, <2>3, <2>4, <2>5 DEF ReadItems
<1>6. s.pc = "advance" => ReadWrites(g)'
  BY <1>1 DEF ReadOK, ReadWrites
<1>7. s.pc = "exchange" => ReadExchange(g)'
  <2> SUFFICES ASSUME s.pc = "exchange" PROVE ReadExchange(g)'
    OBVIOUS
  <2>1. ReadExchange(g) /\ s.item \in Items /\ OrderOf[s.item] \in s.on /\ OrderOf[s.item] \in Orders
    BY RentalAssumption DEF HandlerOK, ReadOK, ExchangeOK, RentalAssumption
  <2>2. Still(s.on, s.item, s.from)'
    BY <1>1, <1>2, <2>1 DEF ReadExchange, Still
  <2>3. LifeRead(g, OrderOf[s.item])'
    BY <1>1, <1>4, <2>1 DEF ReadExchange, LifeRead
  <2> QED
    BY <1>1, <2>1, <2>2, <2>3 DEF ReadExchange
<1>8. s.pc = "cancel" => (s.order \notin raced' => UnitsOf(s.order)' \subseteq s.units)
  <2> SUFFICES ASSUME s.pc = "cancel", s.order \notin raced' PROVE UnitsOf(s.order)' \subseteq s.units
    OBVIOUS
  <2>1. s.order \in s.on /\ (s.order \notin raced => UnitsOf(s.order) \subseteq s.units)
    BY DEF HandlerOK, ReadOK, OrderOK
  <2>2. s.order \notin raced /\ s.order \notin on
    BY <1>1, <2>1
  <2>3. \A i \in Items : OrderOf[i] = s.order => itemUnit'[i] = itemUnit[i]
    BY <2>2 DEF Touches
  <2> QED
    BY <2>1, <2>2, <2>3 DEF UnitsOf, ItemsOf
<1>9. s.pc = "return" => ReadReturn(g)'
  <2> SUFFICES ASSUME s.pc = "return" PROVE ReadReturn(g)'
    OBVIOUS
  <2>1. ReadReturn(g) /\ OrderOf[s.item] \in s.on
    BY DEF HandlerOK, ReadOK
  <2>2. Still(s.on, s.item, s.unit)'
    BY <1>1, <1>2, <2>1 DEF ReadReturn, Still
  <2> QED
    BY <1>1, <2>1, <2>2 DEF ReadReturn
<1>10. s.pc \in {"inspect", "settle"} => s.to # "reserved"
  BY DEF ReadOK
<1> QED
  BY <1>1, <1>5, <1>6, <1>7, <1>8, <1>9, <1>10 DEF ReadOK

(* The handlers after a step of h. *)
LEMMA ReadsKept ==
  ASSUME HInv, NEW h \in Handlers, NEW state, Become(h, state), NEW on, Touches(on),
         \A g \in Handlers \ {h} :
           handler[g].on \cap on # {} => handler[g].on \cup on \subseteq raced',
         ReadOK(h)'
  PROVE  ReadsOK'
<1>1. ASSUME NEW g \in Handlers \ {h} PROVE ReadOK(g)'
  <2>1. handler'[g] = handler[g]
    BY DEF HInv, IInv, HandlersOK, Become
  <2>2. HandlerOK(g) /\ ReadOK(g)
    BY DEF HInv, IInv, HandlersOK, ReadsOK
  <2> QED
    BY <2>1, <2>2, ReadKept
<1> QED
  BY <1>1 DEF ReadsOK

(* A handler is done, or a request of one step. *)
LEMMA ReadsDone ==
  ASSUME HInv, NEW h \in Handlers, Done(h), raced' = raced, Touches(handler[h].on)
  PROVE  ReadsOK'
<1>1. Become(h, Idle) /\ handler'[h].pc = "idle"
  BY DEF Done, Idle, HInv, IInv, HandlersOK, Become
<1>2. ReadOK(h)'
  BY <1>1 DEF ReadOK
<1>3. \A g \in Handlers \ {h} :
        handler[g].on \cap handler[h].on # {} => handler[g].on \cup handler[h].on \subseteq raced'
  BY DEF HInv, IInv, RacedOK
<1> QED
  BY <1>1, <1>2, <1>3, ReadsKept

LEMMA ReadsAtOnce ==
  ASSUME HInv, NEW on, AtOnce(on), Touches(on)
  PROVE  ReadsOK'
<1>1. handler' = handler
      /\ \A g \in Handlers : handler[g].on \cap on # {} => handler[g].on \cup on \subseteq raced'
  BY DEF AtOnce, Starts
<1>2. ASSUME NEW g \in Handlers PROVE ReadOK(g)'
  BY <1>1, ReadKept DEF HInv, IInv, HandlersOK, ReadsOK
<1> QED
  BY <1>2 DEF ReadsOK

LEMMA ReadsBegin ==
  ASSUME HInv, NEW h \in Handlers, NEW state, Begin(h, state), ReadOK(h)'
  PROVE  ReadsOK'
<1>1. Become(h, state) /\ UNCHANGED rowVars /\ UNCHANGED loose
  BY DEF Begin
<1>2. raced \subseteq raced' /\
      \A g \in Handlers \ {h} :
        handler[g].on \cap state.on # {} => handler[g].on \cup state.on \subseteq raced'
  BY DEF Begin, Starts
<1>3. Touches(state.on)
  BY <1>1, <1>2 DEF Touches, rowVars
<1> QED
  BY <1>1, <1>2, <1>3, ReadsKept

-----------------------------------------------------------------------------
(* The rows of a line are as they were. *)
RowsKept(i) ==
  /\ \A n \in DOMAIN holds : holds[n].item = i => n \in DOMAIN holds' /\ holds'[n] = holds[n]
  /\ \A n \in DOMAIN holds' : holds'[n].item = i => n \in DOMAIN holds /\ holds'[n] = holds[n]

LEMMA LineKept ==
  ASSUME NEW i \in Items, OwnLine(i), itemUnit'[i] = itemUnit[i], RowsKept(i),
         returned \subseteq returned',
         order'[OrderOf[i]].life \in {order[OrderOf[i]].life} \cup Back
  PROVE  OwnLine(i)'
<1>1. ASSUME NEW st, OwnHold(i, st) PROVE OwnHold(i, st)'
  BY <1>1 DEF OwnHold, RowsKept
<1>2. \A n \in DOMAIN holds' : holds'[n].item = i /\ Live(holds'[n]) =>
        n \in DOMAIN holds /\ holds[n].item = i /\ Live(holds[n]) /\ holds'[n] = holds[n]
  BY DEF RowsKept
<1>3. CASE order'[OrderOf[i]].life = order[OrderOf[i]].life
  BY <1>1, <1>2, <1>3 DEF OwnLine
<1>4. CASE order'[OrderOf[i]].life \in Back
  <2>1. order'[OrderOf[i]].life \notin Ahead \cup {"checked_out", "cancelled"}
    BY <1>4 DEF Back, Ahead
  <2> QED
    BY <1>2, <2>1 DEF OwnLine
<1> QED
  BY <1>3, <1>4

(* A step that neither writes reservations nor lines, and reserves nothing. *)
LEMMA QuietTables ==
  ASSUME Tables, UNCHANGED <<itemUnit, holds>>, UnitsOK',
         raced \subseteq raced', loose \subseteq loose', returned \subseteq returned',
         \A u \in Units : unit'[u] = "reserved" => unit[u] = "reserved",
         \A o \in Orders : order'[o].life \in {order[o].life} \cup Back
  PROVE  Tables'
<1>1. LinesStand' /\ NoStray'
  BY DEF Tables, LinesStand, NoStray
<1>2. \A i \in Items : RowsKept(i) /\ OrderOf[i] \in Orders
  BY RentalAssumption DEF RowsKept, RentalAssumption
<1>3. ASSUME NEW i \in Items, i \notin loose', OrderOf[i] \notin raced' PROVE OwnLine(i)'
  <2>1. OwnLine(i)
    BY <1>3 DEF Tables, LinesOwn
  <2> QED
    BY <1>2, <2>1, LineKept
<1>4. ReservedIsHeld'
  <2>1. \A u : Active(u)' = Active(u)
    BY DEF Active, LiveOn
  <2> QED
    BY <2>1 DEF Tables, ReservedIsHeld
<1> QED
  BY <1>1, <1>3, <1>4 DEF Tables, LinesOwn

LEMMA BeginTables ==
  ASSUME HInv, NEW h \in Handlers, NEW state, Begin(h, state)
  PROVE  Tables'
<1>1. UNCHANGED <<unit, order, itemUnit, holds, returned, loose>> /\ raced \subseteq raced'
  BY DEF Begin, rowVars, Starts
<1> QED
  BY <1>1, QuietTables DEF HInv, Tables, UnitsOK

-----------------------------------------------------------------------------
LEMMA SetToSeqAll ==
  ASSUME NEW S, IsFiniteSet(S)
  PROVE  SetToSeq(S) \in Seq(S) /\ \A x \in S : \E n \in DOMAIN SetToSeq(S) : SetToSeq(S)[n] = x
<1> DEFINE m == Cardinality(S)
<1>1. m \in Nat /\ ExistsBijection(1..m, S)
  BY FS_CardinalityType
<1>2. PICK f \in Bijection(1..m, S) : TRUE
  BY <1>1 DEF ExistsBijection
<1>3. f \in [1..m -> S] /\ IsInjective(f)
  BY <1>2 DEF Bijection, Injection
<1>4. SetToSeq(S) \in [1..m -> S] /\ IsInjective(SetToSeq(S))
  BY <1>3 DEF SetToSeq
<1>5. SetToSeq(S) \in Injection(1..m, S)
  BY <1>4 DEF Injection
<1>6. SetToSeq(S) \in Surjection(1..m, S)
  BY <1>1, <1>5, FS_Injection, FS_Interval
<1> QED
  BY <1>1, <1>4, <1>6, FunctionIsSeq DEF Surjection

LEMMA InitHeld == Init => HInv
<1> SUFFICES ASSUME Init PROVE HInv
  OBVIOUS
<1> DEFINE
      row(i) == Hold(Unit0[i], i, Window0[OrderOf[i]][1], Window0[OrderOf[i]][2], "held", "order")
      T == {row(i) : i \in Booked0}
<1>1. IInv
  BY InitOK
<1>2. holds = SetToSeq(T) /\ itemUnit = Unit0
  BY DEF Init
<1>3. IsFiniteSet(T)
  <2>1. IsFiniteSet(Booked0)
    BY FS_Subset, RentalAssumption DEF Booked0, RentalAssumption
  <2> DEFINE f == [i \in Booked0 |-> row(i)]
  <2>2. f \in [Booked0 -> T] /\ \A t \in T : \E i \in Booked0 : f[i] = t
    OBVIOUS
  <2> HIDE DEF T, f
  <2> QED
    BY <2>1, <2>2, ImageFinite
<1>4. \A t \in T : \E i \in Booked0 : t = row(i)
  OBVIOUS
<1>5. \A i \in Booked0 : /\ row(i).unit = Unit0[i] /\ row(i).item = i /\ row(i).status = "held"
                         /\ i \in Items /\ Unit0[i] # None /\ row(i) \in T
                         /\ OrderOf[i] \in Booked
  BY DEF Hold, Booked0
<1> HIDE DEF T, row
<1>6. holds \in Seq(T) /\ \A t \in T : \E n \in DOMAIN holds : holds[n] = t
  BY <1>2, <1>3, SetToSeqAll
<1>7. \A n \in DOMAIN holds : \E i \in Booked0 : holds[n] = row(i)
  BY <1>4, <1>6, LenProperties, ElementOfSeq
<1>8. \A i \in Booked0 : \E n \in DOMAIN holds : holds[n] = row(i)
  BY <1>5, <1>6
<1>9. UnitsOK /\ LinesStand /\ NoStray
  BY <1>2, <1>5, <1>7 DEF Init, UnitsOK, LinesStand, NoStray
<1>10. ASSUME NEW i \in Items PROVE OwnLine(i)
  <2>1. order[OrderOf[i]].life = IF OrderOf[i] \in Booked THEN "reserved" ELSE "quote"
    BY RentalAssumption DEF Init, RentalAssumption
  <2>2. \A n \in DOMAIN holds : holds[n].item = i => holds[n].unit = itemUnit[i] /\ holds[n].status = "held"
    BY <1>2, <1>5, <1>7
  <2>3. itemUnit[i] # None /\ OrderOf[i] \in Booked => OwnHold(i, "held")
    BY <1>2, <1>5, <1>8 DEF OwnHold, Booked0
  <2> QED
    BY <2>1, <2>2, <2>3 DEF OwnLine, Ahead
<1>11. ReservedIsHeld
  <2>1. ASSUME NEW u \in Units, unit[u] = "reserved" PROVE Active(u) # {}
    <3>1. PICK i \in Booked0 : Unit0[i] = u
      BY <2>1 DEF Init
    <3>2. PICK n \in DOMAIN holds : holds[n] = row(i)
      BY <1>8
    <3>3. n \in Active(u)
      BY <1>5, <3>1, <3>2 DEF Active, LiveOn, Live
    <3> QED
      BY <3>3
  <2> QED
    BY <2>1 DEF ReservedIsHeld
<1>12. ReadsOK
  BY DEF Init, ReadsOK, ReadOK, Idle
<1> QED
  BY <1>1, <1>9, <1>10, <1>11, <1>12 DEF HInv, Tables, LinesOwn

-----------------------------------------------------------------------------
(* Requests begin. *)
LEMMA BeginAdvanceReads ==
  ASSUME HInv, NEW h \in Handlers, NEW o \in Orders, NEW to \in Lives, BeginAdvance(h, o, to)
  PROVE  ReadsOK'
<1> DEFINE s == [pc |-> IF to = "reserved" THEN "judge" ELSE "advance",
                 on |-> {o} \cup UnitsOf(o), order |-> o, to |-> to, read |-> order[o],
                 items |-> [i \in ItemsOf(o) |-> itemUnit[i]], writes |-> {}, free |-> {}]
<1>1. Begin(h, s) /\ to \in Allowed[order[o].life]
  BY DEF BeginAdvance
<1>2. handler'[h] = s /\ UNCHANGED rowVars
  BY <1>1, Became DEF HInv
<1>3. ReadItems(h)'
  BY <1>1, <1>2 DEF ReadItems, Still, LifeRead, rowVars, ItemsOf
<1>4. s.pc = "advance" => ReadWrites(h)'
  BY <1>2 DEF ReadWrites
<1>5. s.pc \in {"judge", "advance"}
  OBVIOUS
<1>6. ReadOK(h)'
  BY <1>2, <1>3, <1>4, <1>5 DEF ReadOK
<1> QED
  BY <1>1, <1>6, ReadsBegin

LEMMA BeginExchangeReads ==
  ASSUME HInv, NEW h \in Handlers, NEW i \in Items, NEW u \in Units, BeginExchange(h, i, u)
  PROVE  ReadsOK'
<1> DEFINE o == OrderOf[i]
           s == [pc |-> "exchange", on |-> {o, itemUnit[i], u}, item |-> i,
                 from |-> itemUnit[i], to |-> u, read |-> order[o], writes |-> {i}]
<1>1. Begin(h, s) /\ order[o].life \in {"checked_out", "reserved", "fitted"}
  BY DEF BeginExchange
<1>2. handler'[h] = s /\ UNCHANGED rowVars
  BY <1>1, Became DEF HInv
<1>3. ReadExchange(h)'
  BY <1>1, <1>2 DEF ReadExchange, Still, LifeRead, rowVars
<1>4. ReadOK(h)'
  BY <1>2, <1>3 DEF ReadOK
<1> QED
  BY <1>1, <1>4, ReadsBegin

LEMMA BeginOthersReads ==
  ASSUME HInv, NEW h \in Handlers,
         \/ \E o \in Orders, to \in CoreStatuses : BeginStatus(h, o, to)
         \/ \E o \in Orders, w \in Windows : BeginExtend(h, o, w[2])
         \/ \E o \in Orders : \E swap : BeginPickup(h, o, swap)
         \/ \E o \in Orders : \E S : \E to \in Outcomes : BeginSettle(h, o, S, to)
         \/ \E o \in Orders : BeginCancel(h, o)
         \/ \E i \in Items, to \in Outcomes : BeginReturn(h, i, to)
         \/ \E event \in returned, to \in Outcomes : BeginInspect(h, event, to)
         \/ \E u \in Units, w \in Windows : BeginReserve(h, u, w)
  PROVE  ReadsOK'
<1>0. "reserved" \notin Outcomes
  BY RentalAssumption DEF RentalAssumption
<1>1. ASSUME NEW state, Begin(h, state),
             state.pc \in {"status", "extend", "pickup", "reserve"}
      PROVE  ReadsOK'
  <2>1. handler'[h] = state
    BY <1>1, Became DEF HInv
  <2>2. ReadOK(h)'
    BY <1>1, <2>1 DEF ReadOK
  <2> QED
    BY <1>1, <2>2, ReadsBegin
<1>2. ASSUME NEW state, Begin(h, state), state.pc \in {"settle", "inspect"}, state.to # "reserved"
      PROVE  ReadsOK'
  <2>1. handler'[h] = state
    BY <1>2, Became DEF HInv
  <2>2. ReadOK(h)'
    BY <1>2, <2>1 DEF ReadOK
  <2> QED
    BY <1>2, <2>2, ReadsBegin
<1>3. ASSUME NEW o \in Orders, BeginCancel(h, o) PROVE ReadsOK'
  <2> DEFINE s == [pc |-> "cancel", on |-> {o} \cup UnitsOf(o), order |-> o, units |-> UnitsOf(o)]
  <2>1. Begin(h, s)
    BY <1>3 DEF BeginCancel
  <2>2. handler'[h] = s /\ UNCHANGED rowVars
    BY <2>1, Became DEF HInv
  <2>3. ReadOK(h)'
    BY <2>2 DEF ReadOK, rowVars, UnitsOf, ItemsOf
  <2> QED
    BY <2>1, <2>3, ReadsBegin
<1>4. ASSUME NEW i \in Items, NEW to \in Outcomes, BeginReturn(h, i, to) PROVE ReadsOK'
  <2> DEFINE s == [pc |-> "return", on |-> {OrderOf[i], itemUnit[i]}, item |-> i,
                   unit |-> itemUnit[i], to |-> to, read |-> order[OrderOf[i]]]
  <2>1. Begin(h, s)
    BY <1>4 DEF BeginReturn
  <2>2. handler'[h] = s /\ UNCHANGED rowVars
    BY <2>1, Became DEF HInv
  <2>3. ReadReturn(h)'
    BY <1>0, <1>4, <2>2 DEF ReadReturn, Still, rowVars
  <2>4. ReadOK(h)'
    BY <2>2, <2>3 DEF ReadOK
  <2> QED
    BY <2>1, <2>4, ReadsBegin
<1>5. ASSUME NEW o \in Orders, NEW to \in CoreStatuses, BeginStatus(h, o, to) PROVE ReadsOK'
  BY <1>1, <1>5 DEF BeginStatus
<1>6. ASSUME NEW o \in Orders, NEW w \in Windows, BeginExtend(h, o, w[2]) PROVE ReadsOK'
  BY <1>1, <1>6 DEF BeginExtend
<1>7. ASSUME NEW o \in Orders, NEW swap, BeginPickup(h, o, swap) PROVE ReadsOK'
  BY <1>1, <1>7 DEF BeginPickup
<1>8. ASSUME NEW u \in Units, NEW w \in Windows, BeginReserve(h, u, w) PROVE ReadsOK'
  BY <1>1, <1>8 DEF BeginReserve
<1>9. ASSUME NEW o \in Orders, NEW S, NEW to \in Outcomes, BeginSettle(h, o, S, to) PROVE ReadsOK'
  BY <1>0, <1>2, <1>9 DEF BeginSettle
<1>10. ASSUME NEW event \in returned, NEW to \in Outcomes, BeginInspect(h, event, to) PROVE ReadsOK'
  BY <1>0, <1>2, <1>10 DEF BeginInspect
<1> QED
  BY <1>3, <1>4, <1>5, <1>6, <1>7, <1>8, <1>9, <1>10

LEMMA BeginHeld ==
  ASSUME HInv, NEW h \in Handlers,
         \/ BeginOrder(h) \/ BeginRental(h) \/ BeginBack(h)
         \/ \E u \in Units, w \in Windows : BeginReserve(h, u, w)
  PROVE  Tables' /\ ReadsOK'
<1>1. \E state : Begin(h, state)
  BY DEF BeginOrder, BeginRental, BeginBack, BeginReserve, BeginAdvance, BeginStatus, BeginExchange,
         BeginExtend, BeginPickup, BeginSettle, BeginCancel, BeginReturn, BeginInspect
<1>2. Tables'
  BY <1>1, BeginTables
<1>3. CASE BeginOrder(h)
  BY <1>2, <1>3, BeginAdvanceReads, BeginOthersReads DEF BeginOrder, Lives
<1>4. CASE BeginRental(h)
  BY <1>2, <1>4, BeginExchangeReads, BeginOthersReads DEF BeginRental
<1>5. CASE BeginBack(h)
  BY <1>2, <1>5, BeginOthersReads DEF BeginBack
<1>6. CASE \E u \in Units, w \in Windows : BeginReserve(h, u, w)
  BY <1>2, <1>6, BeginOthersReads
<1> QED
  BY <1>2, <1>3, <1>4, <1>5, <1>6

-----------------------------------------------------------------------------
(* Steps that leave lines and reservations alone. *)
LEMMA LifeAfter ==
  ASSUME order \in [Orders -> OrderRows], NEW o, NEW life,
         order' = [order EXCEPT ![o].life = life]
  PROVE  \A p \in Orders : order'[p].life = order[p].life \/ (p = o /\ order'[p].life = life)
  BY DEF OrderRows

LEMMA OtherFields ==
  ASSUME order \in [Orders -> OrderRows], NEW o, NEW x,
         \/ order' = [order EXCEPT ![o].status = x]
         \/ order' = [order EXCEPT ![o].to = x]
  PROVE  \A p \in Orders : order'[p].life = order[p].life
<1>1. CASE order' = [order EXCEPT ![o].status = x]
  BY <1>1 DEF OrderRows
<1>2. CASE order' = [order EXCEPT ![o].to = x]
  BY <1>2 DEF OrderRows
<1> QED
  BY <1>1, <1>2

LEMMA UnitAfter ==
  ASSUME UnitsOK, NEW v, NEW st, SetUnit(v, st)
  PROVE  UnitsOK' /\ \A u \in Units : unit'[u] = IF u = v THEN st ELSE unit[u]
  BY DEF UnitsOK, SetUnit

LEMMA QuietDone ==
  ASSUME HInv, NEW h \in Handlers, Done(h), Rest, UNCHANGED <<itemUnit, holds, returned, loose>>,
         UnitsOK', \A u \in Units : unit'[u] = "reserved" => unit[u] = "reserved",
         \A o \in Orders : order'[o].life = order[o].life
                             \/ (o \in handler[h].on /\ order'[o].life \in Back)
  PROVE  Tables' /\ ReadsOK'
<1>1. raced' = raced
  BY DEF Rest
<1>2. Tables'
  BY <1>1, QuietTables DEF HInv
<1>3. Touches(handler[h].on)
  BY <1>1 DEF Touches
<1> QED
  BY <1>1, <1>2, <1>3, ReadsDone

LEMMA QuietAtOnce ==
  ASSUME HInv, NEW on, AtOnce(on), UNCHANGED <<itemUnit, holds, returned, loose>>,
         UnitsOK', \A u \in Units : unit'[u] = "reserved" => unit[u] = "reserved",
         \A o \in Orders : order'[o].life = order[o].life
  PROVE  Tables' /\ ReadsOK'
<1>1. raced \subseteq raced'
  BY DEF AtOnce, Starts
<1>2. Tables'
  BY <1>1, QuietTables DEF HInv
<1>3. Touches(on)
  BY <1>1 DEF Touches
<1> QED
  BY <1>2, <1>3, ReadsAtOnce

LEMMA QuietHeld ==
  ASSUME HInv, NEW h \in Handlers,
         Fail(h) \/ WriteStatus(h) \/ Extend(h) \/ Inspect(h)
  PROVE  Tables' /\ ReadsOK'
<1> DEFINE s == handler[h]
<1>0. UnitsOK /\ RowsOK /\ HandlerOK(h) /\ ReadOK(h)
  BY DEF HInv, Tables, IInv, HandlersOK, ReadsOK
<1>1. CASE Fail(h)
  BY <1>0, <1>1, QuietDone DEF Fail, rowVars, UnitsOK
<1>2. CASE WriteStatus(h) \/ Extend(h)
  <2>1. \/ order' = [order EXCEPT ![s.order].status = s.to]
        \/ order' = [order EXCEPT ![s.order].to = s.due]
    BY <1>2 DEF WriteStatus, Extend
  <2>2. \A o \in Orders : order'[o].life = order[o].life
    BY <1>0, <2>1, OtherFields DEF RowsOK
  <2> QED
    BY <1>0, <1>2, <2>2, QuietDone DEF WriteStatus, Extend, UnitsOK
<1>3. CASE Inspect(h)
  <2>1. s.to # "reserved" /\ s.event[1] \in s.on
    BY <1>0, <1>3 DEF Inspect, At, ReadOK, HandlerOK
  <2>2. UnitsOK' /\ \A u \in Units : unit'[u] = "reserved" => unit[u] = "reserved"
    BY <1>0, <1>3, <2>1, UnitAfter DEF Inspect
  <2>3. \A o \in Orders : order'[o].life = order[o].life
                             \/ (o \in s.on /\ order'[o].life \in Back)
    BY <1>0, <1>3, <2>1, LifeAfter DEF Inspect, RowsOK, Back
  <2> QED
    BY <1>3, <2>2, <2>3, QuietDone DEF Inspect
<1> QED
  BY <1>1, <1>2, <1>3

LEMMA JudgeHeld ==
  ASSUME HInv, NEW h \in Handlers, Judge(h)
  PROVE  Tables' /\ ReadsOK'
<1> DEFINE
      s == handler[h]
      lines == DOMAIN s.items
      fresh == {i \in lines : \A n \in DOMAIN holds : holds[n].item = i => holds[n].status # "held"}
      free == {u \in {s.items[i] : i \in lines} : unit[u] = "available"}
      next == [s EXCEPT !.pc = "advance", !.writes = fresh, !.free = free]
<1>1. s.pc = "judge" /\ UNCHANGED rowVars /\ UNCHANGED loose /\ Rest
  BY DEF Judge, At
<1>2. CASE Done(h)
  BY <1>1, <1>2, QuietDone DEF rowVars, HInv, Tables, UnitsOK
<1>3. CASE Become(h, next)
  <2>1. AdvanceOK(h) /\ JudgeOK(h) /\ ReadItems(h)
    BY <1>1 DEF HInv, IInv, HandlersOK, HandlerOK, ReadsOK, ReadOK
  <2>2. /\ next.pc = "advance" /\ next.on = s.on /\ next.order = s.order /\ next.to = s.to
        /\ next.read = s.read /\ next.items = s.items /\ next.writes = fresh /\ next.free = free
    BY <2>1 DEF AdvanceOK
  <2>3. handler'[h] = next
    BY <1>3 DEF HInv, IInv, HandlersOK, Become
  <2>4. fresh \subseteq lines /\ free \subseteq {s.items[i] : i \in lines}
    OBVIOUS
  <2>5. order[s.order].life = "quote" => fresh = lines
    <3> SUFFICES ASSUME order[s.order].life = "quote", NEW i \in lines,
                        NEW n \in DOMAIN holds, holds[n].item = i
                 PROVE  FALSE
      OBVIOUS
    <3>1. i \in Items /\ OrderOf[i] = s.order /\ i # None
      BY <2>1, RentalAssumption DEF AdvanceOK, RentalAssumption
    <3> QED
      BY <3>1 DEF HInv, IInv, NoQuoteHeld
  <2> HIDE DEF next, fresh, free
  <2>6. ReadItems(h)'
    BY <1>1, <2>1, <2>2, <2>3, <2>4 DEF ReadItems, Still, LifeRead, rowVars, Rest, ItemsOf
  <2>7. ReadWrites(h)'
    BY <1>1, <2>1, <2>2, <2>3, <2>5 DEF ReadWrites, JudgeOK, Rest
  <2>8. ReadOK(h)'
    BY <2>2, <2>3, <2>6, <2>7 DEF ReadOK
  <2>9. raced' = raced /\ Touches(s.on)
    BY <1>1 DEF Touches, rowVars, Rest
  <2>10. \A g \in Handlers \ {h} :
           handler[g].on \cap s.on # {} => handler[g].on \cup s.on \subseteq raced'
    BY <2>9 DEF HInv, IInv, RacedOK
  <2>11. ReadsOK'
    BY <1>3, <2>8, <2>9, <2>10, ReadsKept
  <2>12. Tables'
    BY <1>1, <2>9, QuietTables DEF rowVars, HInv, Tables, UnitsOK
  <2> QED
    BY <2>11, <2>12
<1> QED
  BY <1>2, <1>3 DEF Judge

-----------------------------------------------------------------------------
(* Rows end.                                                                 *)
RowsEnd(S) ==
  /\ DOMAIN holds' = DOMAIN holds
  /\ \A n \in DOMAIN holds :
       IF n \in S
         THEN holds'[n].unit = holds[n].unit /\ holds'[n].item = holds[n].item /\ ~ Live(holds'[n])
         ELSE holds'[n] = holds[n]

LEMMA UpdatedEnd ==
  ASSUME RowsOK, NEW S, NEW st \in {"cancelled", "released"}, holds' = Updated(S, st)
  PROVE  RowsEnd(S)
<1>1. /\ holds' \in Seq(HoldRows) /\ Len(holds') = Len(holds)
      /\ \A n \in DOMAIN holds :
           IF n \in S THEN Marked(holds[n], holds'[n], st) ELSE holds'[n] = holds[n]
  BY UpdatedRows DEF RowsOK, HoldStatuses
<1>2. DOMAIN holds' = DOMAIN holds
  BY <1>1, SameLength DEF RowsOK
<1> QED
  BY <1>1, <1>2 DEF RowsEnd, Marked, Live

(* Where a line is read, its live rows are on the unit that was read. *)
LEMMA StrayFree ==
  ASSUME LinesStand, NoStray, NEW on, NEW i \in Items, NEW u, Still(on, i, u),
         NEW n \in DOMAIN holds, holds[n].item = i, Live(holds[n]),
         holds[n].unit \notin raced \cup loose
  PROVE  holds[n].unit = u
<1>1. i # None
  BY RentalAssumption DEF RentalAssumption
<1>2. itemUnit[i] = holds[n].unit /\ itemUnit[i] # None
  BY <1>1 DEF LinesStand, NoStray
<1> QED
  BY <1>2 DEF Still

(* The line of an order that is back, or cancelled. *)
LEMMA LineBack ==
  ASSUME NEW i \in Items, OwnLine(i), itemUnit'[i] = itemUnit[i], NEW S, RowsEnd(S),
         \/ order'[OrderOf[i]].life \in Back
         \/ /\ order'[OrderOf[i]].life = "cancelled"
            /\ \A n \in DOMAIN holds : holds[n].item = i /\ Live(holds[n]) => n \in S
  PROVE  OwnLine(i)'
<1>1. \A n \in DOMAIN holds' : holds'[n].item = i /\ Live(holds'[n]) =>
        n \in DOMAIN holds /\ n \notin S /\ holds[n].item = i /\ Live(holds[n]) /\ holds'[n] = holds[n]
  BY DEF RowsEnd
<1>2. CASE order'[OrderOf[i]].life \in Back
  <2>1. order'[OrderOf[i]].life \notin Ahead \cup {"checked_out", "cancelled"}
    BY <1>2 DEF Back, Ahead
  <2> QED
    BY <1>1, <2>1 DEF OwnLine
<1>3. CASE /\ order'[OrderOf[i]].life = "cancelled"
           /\ \A n \in DOMAIN holds : holds[n].item = i /\ Live(holds[n]) => n \in S
  <2>1. \A n \in DOMAIN holds' : holds'[n].item = i => ~ Live(holds'[n])
    BY <1>1, <1>3
  <2>2. order'[OrderOf[i]].life \notin Ahead \cup {"checked_out"}
    BY <1>3 DEF Ahead
  <2> QED
    BY <2>1, <2>2 DEF OwnLine
<1> QED
  BY <1>2, <1>3

LEMMA EndTables ==
  ASSUME Tables, UNCHANGED itemUnit, UnitsOK', NEW S, RowsEnd(S),
         raced \subseteq raced', loose \subseteq loose', returned \subseteq returned',
         \A u \in Units \ (raced' \cup loose') :
           unit'[u] = "reserved" => unit[u] = "reserved" /\ ~ (Active(u) \subseteq S),
         \A i \in Items : i \notin loose' /\ OrderOf[i] \notin raced' =>
           \/ OwnLine(i)'
           \/ /\ \A n \in DOMAIN holds \cap S : holds[n].item # i
              /\ order'[OrderOf[i]].life \in {order[OrderOf[i]].life} \cup Back
  PROVE  Tables'
<1>1. \A n \in DOMAIN holds' :
        /\ n \in DOMAIN holds /\ holds'[n].unit = holds[n].unit /\ holds'[n].item = holds[n].item
        /\ Live(holds'[n]) => Live(holds[n])
  BY DEF RowsEnd
<1>2. LinesStand' /\ NoStray'
  BY <1>1 DEF Tables, LinesStand, NoStray
<1>3. ASSUME NEW i \in Items, i \notin loose', OrderOf[i] \notin raced' PROVE OwnLine(i)'
  <2>1. CASE /\ \A n \in DOMAIN holds \cap S : holds[n].item # i
             /\ order'[OrderOf[i]].life \in {order[OrderOf[i]].life} \cup Back
    <3>1. OwnLine(i)
      BY <1>3 DEF Tables, LinesOwn
    <3>2. RowsKept(i)
      BY <1>1, <2>1 DEF RowsEnd, RowsKept
    <3> QED
      BY <2>1, <3>1, <3>2, LineKept
  <2> QED
    BY <1>3, <2>1
<1>4. ASSUME NEW u \in Units, u \notin raced' \cup loose', unit'[u] = "reserved" PROVE Active(u)' # {}
  <2>1. PICK n \in Active(u) : n \notin S
    BY <1>4
  <2>2. n \in Active(u)'
    BY <2>1 DEF Active, LiveOn, RowsEnd
  <2> QED
    BY <2>2
<1> QED
  BY <1>2, <1>3, <1>4 DEF Tables, LinesOwn, ReservedIsHeld

LEMMA ReleaseHeld ==
  ASSUME HInv, NEW n \in DOMAIN holds, Release(n)
  PROVE  Tables' /\ ReadsOK'
<1> DEFINE u == holds[n].unit
           on == {u} \cup IF holds[n].item = None THEN {} ELSE {OrderOf[holds[n].item]}
<1>1. /\ AtOnce(on) /\ UNCHANGED <<order, itemUnit, returned>>
      /\ loose' = loose \cup ({holds[n].item} \ {None})
      /\ holds' = [holds EXCEPT ![n].status = "cancelled"]
      /\ IF Active(u) \subseteq {n} /\ unit[u] = "reserved"
           THEN SetUnit(u, "available")
           ELSE UNCHANGED unit
  BY DEF Release
<1> HIDE DEF on
<1>2. raced \subseteq raced' /\ UnitsOK /\ Tables /\ RowsOK
  BY <1>1 DEF AtOnce, Starts, HInv, Tables, IInv
<1>3. RowsEnd({n})
  <2>1. holds' = Updated({n}, "cancelled")
    BY <1>1 DEF Updated
  <2> QED
    BY <1>2, <2>1, UpdatedEnd
<1>4. UnitsOK' /\ \A v \in Units :
        unit'[v] = "reserved" => unit[v] = "reserved" /\ (v = u => ~ (Active(v) \subseteq {n}))
  <2>1. CASE Active(u) \subseteq {n} /\ unit[u] = "reserved"
    BY <1>1, <1>2, <2>1, UnitAfter
  <2>2. CASE ~ (Active(u) \subseteq {n} /\ unit[u] = "reserved")
    BY <1>1, <1>2, <2>2 DEF UnitsOK
  <2> QED
    BY <2>1, <2>2
<1>5. ASSUME NEW v \in Units \ (raced' \cup loose'), unit'[v] = "reserved"
      PROVE  unit[v] = "reserved" /\ ~ (Active(v) \subseteq {n})
  <2>1. unit[v] = "reserved" /\ (v = u => ~ (Active(v) \subseteq {n}))
    BY <1>4, <1>5
  <2>2. Active(v) # {}
    BY <1>1, <1>2, <1>5, <2>1 DEF Tables, ReservedIsHeld
  <2>3. v # u => n \notin Active(v)
    BY DEF Active, LiveOn
  <2> QED
    BY <2>1, <2>2, <2>3
<1>6. \A i \in Items : i \notin loose' =>
        /\ \A m \in DOMAIN holds \cap {n} : holds[m].item # i
        /\ order'[OrderOf[i]].life \in {order[OrderOf[i]].life} \cup Back
  BY <1>1, RentalAssumption DEF RentalAssumption
<1>7. loose \subseteq loose' /\ returned \subseteq returned'
  BY <1>1
<1>8. Tables'
  BY <1>1, <1>2, <1>3, <1>4, <1>5, <1>6, <1>7, EndTables
<1>9. Touches(on)
  BY <1>1, <1>2, <1>7 DEF Touches
<1> QED
  BY <1>1, <1>8, <1>9, ReadsAtOnce

(* The rows of units end. *)
LEMMA UnitsEnd ==
  ASSUME HInv, NEW S, NEW st, st # "reserved", holds' = Updated(LiveOn(S), "released"),
         SetUnits(S, st), raced' = raced, loose \subseteq loose'
  PROVE  /\ UnitsOK' /\ RowsEnd(LiveOn(S))
         /\ \A u \in Units \ (raced' \cup loose') :
              unit'[u] = "reserved" => unit[u] = "reserved" /\ ~ (Active(u) \subseteq LiveOn(S))
<1>1. RowsEnd(LiveOn(S))
  BY UpdatedEnd DEF HInv, IInv
<1>2. UnitsOK'
  BY DEF SetUnits, UnitsOK
<1>3. ASSUME NEW u \in Units \ (raced' \cup loose'), unit'[u] = "reserved"
      PROVE  unit[u] = "reserved" /\ ~ (Active(u) \subseteq LiveOn(S))
  <2>1. u \notin S /\ unit[u] = "reserved"
    BY <1>3 DEF SetUnits
  <2>2. PICK n \in Active(u) : TRUE
    BY <1>3, <2>1 DEF HInv, Tables, ReservedIsHeld
  <2>3. n \notin LiveOn(S)
    BY <2>1 DEF Active, LiveOn
  <2> QED
    BY <2>1, <2>2, <2>3
<1> QED
  BY <1>1, <1>2, <1>3

LEMMA SettleHeld ==
  ASSUME HInv, NEW h \in Handlers, Settle(h)
  PROVE  Tables' /\ ReadsOK'
<1> DEFINE s == handler[h]
<1>1. s.order \in s.on /\ s.to # "reserved" /\ order \in [Orders -> OrderRows]
  BY DEF Settle, At, HInv, IInv, RowsOK, HandlersOK, HandlerOK, OrderOK, ReadsOK, ReadOK
<1>2. /\ Done(h) /\ Rest /\ UNCHANGED itemUnit /\ SetUnits(s.units, s.to)
      /\ holds' = Updated(LiveOn(s.units), "released")
      /\ order' = [order EXCEPT ![s.order].life = "returned"]
      /\ loose' = loose \cup OthersOn(s.order, s.units)
  BY DEF Settle
<1>3. raced' = raced /\ loose \subseteq loose' /\ returned \subseteq returned'
  BY <1>2 DEF Rest, Settle
<1>4. /\ UnitsOK' /\ RowsEnd(LiveOn(s.units))
      /\ \A u \in Units \ (raced' \cup loose') :
           unit'[u] = "reserved" => unit[u] = "reserved" /\ ~ (Active(u) \subseteq LiveOn(s.units))
  BY <1>1, <1>2, <1>3, UnitsEnd
<1>5. \A o \in Orders : order'[o].life = order[o].life \/ (o = s.order /\ order'[o].life = "returned")
  BY <1>1, <1>2, LifeAfter
<1>6. ASSUME NEW i \in Items, i \notin loose', OrderOf[i] \notin raced'
      PROVE  \/ OwnLine(i)'
             \/ /\ \A n \in DOMAIN holds \cap LiveOn(s.units) : holds[n].item # i
                /\ order'[OrderOf[i]].life \in {order[OrderOf[i]].life} \cup Back
  <2>1. OwnLine(i) /\ OrderOf[i] \in Orders /\ i # None
    BY <1>3, <1>6, RentalAssumption DEF HInv, Tables, LinesOwn, RentalAssumption
  <2>2. CASE OrderOf[i] = s.order
    <3>1. order'[OrderOf[i]].life \in Back
      BY <1>1, <1>2, <2>1, <2>2 DEF Back, OrderRows
    <3> QED
      BY <1>2, <1>4, <2>1, <3>1, LineBack
  <2>3. CASE OrderOf[i] # s.order
    <3>1. \A n \in LiveOn(s.units) : holds[n].item # i
      BY <1>2, <1>6, <2>1, <2>3 DEF OthersOn
    <3> QED
      BY <1>5, <2>1, <2>3, <3>1
  <2> QED
    BY <2>2, <2>3
<1>7. Tables'
  BY <1>2, <1>3, <1>4, <1>6, EndTables DEF HInv
<1>8. Touches(s.on)
  BY <1>1, <1>2, <1>3, <1>5 DEF Touches
<1> QED
  BY <1>2, <1>3, <1>7, <1>8, ReadsDone

LEMMA CancelHeld ==
  ASSUME HInv, NEW h \in Handlers, Cancel(h)
  PROVE  Tables' /\ ReadsOK'
<1> DEFINE s == handler[h]
<1>1. /\ s.order \in s.on /\ order \in [Orders -> OrderRows]
      /\ s.order \notin raced => UnitsOf(s.order) \subseteq s.units
  BY DEF Cancel, At, HInv, IInv, RowsOK, HandlersOK, HandlerOK, OrderOK, ReadsOK, ReadOK
<1>2. /\ Done(h) /\ Rest /\ UNCHANGED <<itemUnit, returned>> /\ SetUnits(s.units, "available")
      /\ holds' = Updated(LiveOn(s.units), "released")
      /\ order' = [order EXCEPT ![s.order] = [@ EXCEPT !.life = "cancelled", !.status = "cancelled"]]
      /\ loose' = loose \cup OthersOn(s.order, s.units)
  BY DEF Cancel
<1>3. raced' = raced /\ loose \subseteq loose' /\ returned \subseteq returned'
  BY <1>2 DEF Rest
<1>4. /\ UnitsOK' /\ RowsEnd(LiveOn(s.units))
      /\ \A u \in Units \ (raced' \cup loose') :
           unit'[u] = "reserved" => unit[u] = "reserved" /\ ~ (Active(u) \subseteq LiveOn(s.units))
  BY <1>2, <1>3, UnitsEnd
<1>5. \A o \in Orders : IF o = s.order THEN order'[o].life = "cancelled"
                                       ELSE order'[o].life = order[o].life
  BY <1>1, <1>2 DEF OrderRows
<1>6. ASSUME NEW i \in Items, i \notin loose', OrderOf[i] \notin raced'
      PROVE  \/ OwnLine(i)'
             \/ /\ \A n \in DOMAIN holds \cap LiveOn(s.units) : holds[n].item # i
                /\ order'[OrderOf[i]].life \in {order[OrderOf[i]].life} \cup Back
  <2>1. OwnLine(i) /\ OrderOf[i] \in Orders /\ i # None
    BY <1>3, <1>6, RentalAssumption DEF HInv, Tables, LinesOwn, RentalAssumption
  <2>2. CASE OrderOf[i] = s.order
    <3>1. UnitsOf(s.order) \subseteq s.units
      BY <1>1, <1>3, <1>6, <2>2
    <3>2. ASSUME NEW n \in DOMAIN holds, holds[n].item = i, Live(holds[n])
          PROVE  n \in LiveOn(s.units)
      <4>1. holds[n].unit = itemUnit[i] /\ itemUnit[i] # None
        BY <2>1, <3>2 DEF OwnLine, HInv, Tables, LinesStand
      <4>2. itemUnit[i] \in UnitsOf(s.order)
        BY <2>2, <4>1 DEF UnitsOf, ItemsOf
      <4> QED
        BY <3>1, <3>2, <4>1, <4>2 DEF LiveOn
    <3>3. order'[OrderOf[i]].life = "cancelled"
      BY <1>5, <2>1, <2>2
    <3> QED
      BY <1>2, <1>4, <2>1, <3>2, <3>3, LineBack
  <2>3. CASE OrderOf[i] # s.order
    <3>1. \A n \in LiveOn(s.units) : holds[n].item # i
      BY <1>2, <1>6, <2>1, <2>3 DEF OthersOn
    <3> QED
      BY <1>5, <2>1, <2>3, <3>1
  <2> QED
    BY <2>2, <2>3
<1>7. Tables'
  BY <1>2, <1>3, <1>4, <1>6, EndTables DEF HInv
<1>8. Touches(s.on)
  BY <1>1, <1>2, <1>3, <1>5 DEF Touches
<1> QED
  BY <1>2, <1>3, <1>7, <1>8, ReadsDone

LEMMA ReturnHeld ==
  ASSUME HInv, NEW h \in Handlers, Return(h)
  PROVE  Tables' /\ ReadsOK'
<1> DEFINE s == handler[h]
           o == OrderOf[s.item]
           out == {n \in DOMAIN holds : holds[n].item = s.item /\ holds[n].status = "checked_out"}
<1>1. /\ o \in s.on /\ ReadReturn(h) /\ Tables /\ RowsOK /\ order \in [Orders -> OrderRows]
  BY DEF Return, At, HInv, IInv, RowsOK, HandlersOK, HandlerOK, ReadsOK, ReadOK
<1>2. /\ Done(h) /\ Rest /\ UNCHANGED <<itemUnit, loose>> /\ SetUnit(s.unit, s.to)
      /\ holds' = Updated(out, "released") /\ returned' = returned \cup {<<o, s.unit>>}
      /\ order' = order \/ order' = [order EXCEPT ![o].life = "returned"]
  BY DEF Return
<1> HIDE DEF out
<1>3. raced' = raced /\ returned \subseteq returned'
  BY <1>2 DEF Rest
<1>4. s.item \in Items /\ o \in Orders /\ s.to # "reserved" /\ Still(s.on, s.item, s.unit)
  BY <1>1, RentalAssumption DEF ReadReturn, RentalAssumption
<1>5. RowsEnd(out)
  BY <1>1, <1>2, UpdatedEnd
<1>6. UnitsOK' /\ \A u \in Units : unit'[u] = IF u = s.unit THEN s.to ELSE unit[u]
  BY <1>1, <1>2, UnitAfter DEF Tables
<1>7. ASSUME NEW u \in Units \ (raced' \cup loose'), unit'[u] = "reserved"
      PROVE  unit[u] = "reserved" /\ ~ (Active(u) \subseteq out)
  <2>1. unit[u] = "reserved" /\ u # s.unit
    BY <1>2, <1>4, <1>6, <1>7 DEF SetUnit, UnitsOK
  <2>2. PICK n \in Active(u) : TRUE
    BY <1>1, <1>2, <1>3, <1>7, <2>1 DEF Tables, ReservedIsHeld
  <2>3. n \in DOMAIN holds /\ holds[n].unit = u /\ Live(holds[n])
    BY <2>2 DEF Active, LiveOn
  <2>4. n \notin out
    <3> SUFFICES ASSUME n \in out PROVE FALSE
      OBVIOUS
    <3>1. holds[n].item = s.item /\ holds[n].unit \notin raced \cup loose
      BY <1>2, <1>3, <1>7, <2>3 DEF out
    <3> QED
      BY <1>1, <1>4, <2>1, <2>3, <3>1, StrayFree DEF Tables
  <2> QED
    BY <2>1, <2>2, <2>4
<1>8. \A p \in Orders : order'[p].life = order[p].life \/ (p = o /\ order'[p].life = "returned")
  <2>1. CASE order' = order
    BY <2>1
  <2>2. CASE order' = [order EXCEPT ![o].life = "returned"]
    BY <1>1, <2>2, LifeAfter
  <2> QED
    BY <1>2, <2>1, <2>2
<1>9. ASSUME NEW i \in Items, i \notin loose', OrderOf[i] \notin raced'
      PROVE  \/ OwnLine(i)'
             \/ /\ \A n \in DOMAIN holds \cap out : holds[n].item # i
                /\ order'[OrderOf[i]].life \in {order[OrderOf[i]].life} \cup Back
  <2>1. OwnLine(i) /\ OrderOf[i] \in Orders
    BY <1>1, <1>2, <1>3, <1>9, RentalAssumption DEF Tables, LinesOwn, RentalAssumption
  <2>2. CASE i # s.item
    BY <1>8, <2>1, <2>2 DEF out, Back
  <2>3. CASE i = s.item /\ order'[OrderOf[i]].life = "returned"
    BY <1>2, <1>5, <2>1, <2>3, LineBack DEF Back
  <2>4. CASE i = s.item /\ order'[OrderOf[i]].life = order[OrderOf[i]].life
    <3>1. itemUnit[i] = s.unit
      BY <1>1, <1>3, <1>4, <1>9, <2>4 DEF Still
    <3>2. <<OrderOf[i], itemUnit[i]>> \in returned'
      BY <1>2, <2>4, <3>1
    <3>3. OwnHold(i, "held") => OwnHold(i, "held")'
      BY <1>2, <1>5 DEF OwnHold, RowsEnd, out
    <3>4. \A n \in DOMAIN holds' : holds'[n].item = i /\ Live(holds'[n]) =>
            n \in DOMAIN holds /\ holds[n].item = i /\ Live(holds[n]) /\ holds'[n] = holds[n]
      BY <1>5 DEF RowsEnd
    <3>5. itemUnit'[i] = itemUnit[i]
      BY <1>2
    <3>6. OwnLine(i)'
      BY <2>1, <2>4, <3>2, <3>3, <3>4, <3>5 DEF OwnLine
    <3> QED
      BY <3>6
  <2> QED
    BY <1>8, <2>1, <2>2, <2>3, <2>4
<1>10. Tables'
  BY <1>1, <1>2, <1>3, <1>5, <1>6, <1>7, <1>9, EndTables
<1>11. Touches(s.on)
  BY <1>1, <1>2, <1>3, <1>8 DEF Touches
<1> QED
  BY <1>2, <1>3, <1>10, <1>11, ReadsDone

-----------------------------------------------------------------------------
(* Requests of one step. *)
LEMMA AddItemHeld ==
  ASSUME HInv, NEW i \in Items, NEW u \in Units, AddItem(i, u)
  PROVE  Tables' /\ ReadsOK'
<1>1. /\ AtOnce({OrderOf[i], u}) /\ UNCHANGED <<unit, order, holds, returned>>
      /\ itemUnit[i] = None /\ loose' = loose \cup {i}
      /\ itemUnit' = [itemUnit EXCEPT ![i] = u]
  BY DEF AddItem
<1>2. raced \subseteq raced' /\ Tables
  BY <1>1 DEF AtOnce, Starts, HInv
<1>3. \A j \in Items : itemUnit'[j] = IF j = i THEN u ELSE itemUnit[j]
  BY <1>1 DEF HInv, IInv, RowsOK
<1>4. \A n \in DOMAIN holds : holds[n].item \in Items \cup {None}
  BY HoldsTyped DEF HInv, IInv, RowsOK, HoldRows
<1>5. \A n \in DOMAIN holds : holds[n].item # None =>
        itemUnit'[holds[n].item] = itemUnit[holds[n].item]
  BY <1>1, <1>2, <1>3, <1>4 DEF Tables, LinesStand
<1>6. LinesStand' /\ NoStray'
  BY <1>1, <1>2, <1>5 DEF Tables, LinesStand, NoStray
<1>7. ASSUME NEW j \in Items, j \notin loose', OrderOf[j] \notin raced' PROVE OwnLine(j)'
  <2>1. OwnLine(j) /\ itemUnit'[j] = itemUnit[j]
    BY <1>1, <1>2, <1>3, <1>7 DEF Tables, LinesOwn
  <2>2. RowsKept(j) /\ returned \subseteq returned'
        /\ order'[OrderOf[j]].life \in {order[OrderOf[j]].life} \cup Back
    BY <1>1 DEF RowsKept
  <2> QED
    BY <2>1, <2>2, LineKept
<1>8. ReservedIsHeld' /\ UnitsOK'
  <2>1. \A v : Active(v)' = Active(v)
    BY <1>1 DEF Active, LiveOn
  <2> QED
    BY <1>1, <1>2, <2>1 DEF Tables, ReservedIsHeld, UnitsOK
<1>9. Touches({OrderOf[i], u})
  BY <1>1, <1>2, <1>3 DEF Touches
<1>10. ReadsOK'
  BY <1>1, <1>9, ReadsAtOnce
<1> QED
  BY <1>6, <1>7, <1>8, <1>10 DEF Tables, LinesOwn

LEMMA RemoveItemHeld ==
  ASSUME HInv, NEW i \in Items, RemoveItem(i)
  PROVE  Tables' /\ ReadsOK'
<1>1. /\ AtOnce({OrderOf[i], itemUnit[i]}) /\ UNCHANGED <<unit, order, returned, loose>>
      /\ itemUnit' = [itemUnit EXCEPT ![i] = None]
      /\ holds' = [n \in DOMAIN holds |->
                     IF holds[n].item = i THEN [holds[n] EXCEPT !.item = None] ELSE holds[n]]
  BY DEF RemoveItem
<1>2. raced \subseteq raced' /\ Tables /\ i # None
  BY <1>1, RentalAssumption DEF AtOnce, Starts, HInv, RentalAssumption
<1>3. \A j \in Items : itemUnit'[j] = IF j = i THEN None ELSE itemUnit[j]
  BY <1>1 DEF HInv, IInv, RowsOK
<1>4. \A n \in DOMAIN holds : holds[n] \in HoldRows
  BY HoldsTyped DEF HInv, IInv, RowsOK
<1>5. DOMAIN holds' = DOMAIN holds /\ \A n \in DOMAIN holds :
        /\ holds'[n].unit = holds[n].unit /\ holds'[n].status = holds[n].status
        /\ holds'[n].item = IF holds[n].item = i THEN None ELSE holds[n].item
        /\ holds[n].item # i => holds'[n] = holds[n]
  BY <1>1, <1>4 DEF HoldRows
<1>6. \A n \in DOMAIN holds : holds[n].item \in Items \cup {None}
  BY <1>4 DEF HoldRows
<1>7. \A n \in DOMAIN holds : Live(holds'[n]) = Live(holds[n])
  BY <1>5 DEF Live
<1>8. \A n \in DOMAIN holds : holds'[n].item # None =>
        /\ holds'[n].item = holds[n].item
        /\ itemUnit'[holds[n].item] = itemUnit[holds[n].item]
  BY <1>3, <1>5, <1>6
<1>9. LinesStand' /\ NoStray'
  BY <1>1, <1>2, <1>5, <1>7, <1>8 DEF Tables, LinesStand, NoStray
<1>10. ASSUME NEW j \in Items, j \notin loose', OrderOf[j] \notin raced' PROVE OwnLine(j)'
  <2>1. j # None
    BY RentalAssumption DEF RentalAssumption
  <2>2. CASE j = i
    <3>1. \A n \in DOMAIN holds' : holds'[n].item # j
      BY <1>2, <1>5, <2>1, <2>2
    <3>2. itemUnit'[j] = None
      BY <1>3, <2>2
    <3> QED
      BY <3>1, <3>2 DEF OwnLine
  <2>3. CASE j # i
    <3>1. OwnLine(j) /\ itemUnit'[j] = itemUnit[j]
      BY <1>1, <1>2, <1>3, <1>10, <2>3 DEF Tables, LinesOwn
    <3>2. RowsKept(j) /\ returned \subseteq returned'
          /\ order'[OrderOf[j]].life \in {order[OrderOf[j]].life} \cup Back
      BY <1>1, <1>5, <2>1, <2>3 DEF RowsKept
    <3> QED
      BY <3>1, <3>2, LineKept
  <2> QED
    BY <2>2, <2>3
<1>11. ReservedIsHeld' /\ UnitsOK'
  <2>1. \A v : Active(v)' = Active(v)
    BY <1>5, <1>7 DEF Active, LiveOn
  <2> QED
    BY <1>1, <1>2, <2>1 DEF Tables, ReservedIsHeld, UnitsOK
<1>12. Touches({OrderOf[i], itemUnit[i]})
  BY <1>1, <1>2, <1>3 DEF Touches
<1>13. ReadsOK'
  BY <1>1, <1>12, ReadsAtOnce
<1> QED
  BY <1>9, <1>10, <1>11, <1>13 DEF Tables, LinesOwn

LEMMA ByHandHeld ==
  ASSUME HInv, ByHand
  PROVE  Tables' /\ ReadsOK'
<1>0. UnitsOK /\ RowsOK
  BY DEF HInv, Tables, IInv
<1>1. ASSUME NEW o \in Orders, NEW w \in Windows, Reschedule(o, w) PROVE Tables' /\ ReadsOK'
  <2>1. \A p \in Orders : order'[p].life = order[p].life
    BY <1>0, <1>1 DEF Reschedule, RowsOK, OrderRows
  <2> QED
    BY <1>0, <1>1, <2>1, QuietAtOnce DEF Reschedule, UnitsOK
<1>2. ASSUME NEW u, NEW st, NEW on, AtOnce(on), SetUnit(u, st), st # "reserved",
             UNCHANGED <<order, itemUnit, holds, returned, loose>>
      PROVE  Tables' /\ ReadsOK'
  <2>1. UnitsOK' /\ \A v \in Units : unit'[v] = "reserved" => unit[v] = "reserved"
    BY <1>0, <1>2, UnitAfter
  <2> QED
    BY <1>2, <2>1, QuietAtOnce
<1>3. ASSUME NEW u \in Units, NEW s \in HandStatuses, SetStatus(u, s) PROVE Tables' /\ ReadsOK'
  <2>1. s # "reserved"
    BY RentalAssumption DEF RentalAssumption
  <2> QED
    BY <1>2, <1>3, <2>1 DEF SetStatus
<1>4. ASSUME NEW event \in returned, CompleteCleaning(event) PROVE Tables' /\ ReadsOK'
  BY <1>2, <1>4 DEF CompleteCleaning
<1> QED
  BY <1>1, <1>3, <1>4, AddItemHeld, RemoveItemHeld, ReleaseHeld DEF ByHand

-----------------------------------------------------------------------------
(* Rows are added. *)
RowsAdded ==
  \A n \in DOMAIN holds : n \in DOMAIN holds' /\ holds'[n] = holds[n]

LEMMA AddedTables ==
  ASSUME Tables, UNCHANGED <<itemUnit, returned, loose, raced>>, UnitsOK', RowsAdded,
         \A m \in DOMAIN holds' \ DOMAIN holds : holds'[m].item # None =>
           /\ itemUnit[holds'[m].item] # None
           /\ holds'[m].unit \in {itemUnit[holds'[m].item]} \cup raced,
         \A u \in Units \ raced : unit'[u] = "reserved" =>
           \/ unit[u] = "reserved"
           \/ \E m \in DOMAIN holds' : holds'[m].unit = u /\ Live(holds'[m]),
         \A i \in Items : i \notin loose /\ OrderOf[i] \notin raced =>
           \/ OwnLine(i)'
           \/ /\ \A m \in DOMAIN holds' \ DOMAIN holds : holds'[m].item # i
              /\ order'[OrderOf[i]].life \in {order[OrderOf[i]].life} \cup Back
  PROVE  Tables'
<1>1. LinesStand'
  BY DEF RowsAdded, Tables, LinesStand
<1>2. NoStray'
  BY DEF RowsAdded, Tables, NoStray
<1>3. ASSUME NEW i \in Items, i \notin loose', OrderOf[i] \notin raced' PROVE OwnLine(i)'
  <2>1. CASE /\ \A m \in DOMAIN holds' \ DOMAIN holds : holds'[m].item # i
             /\ order'[OrderOf[i]].life \in {order[OrderOf[i]].life} \cup Back
    <3>1. OwnLine(i)
      BY <1>3 DEF Tables, LinesOwn
    <3>2. RowsKept(i)
      BY <2>1 DEF RowsAdded, RowsKept
    <3> QED
      BY <2>1, <3>1, <3>2, LineKept
  <2> QED
    BY <1>3, <2>1
<1>4. ASSUME NEW u \in Units, u \notin raced' \cup loose', unit'[u] = "reserved" PROVE Active(u)' # {}
  <2>1. CASE unit[u] = "reserved"
    <3>1. PICK n \in Active(u) : TRUE
      BY <1>4, <2>1 DEF Tables, ReservedIsHeld
    <3>2. n \in Active(u)'
      BY <3>1 DEF Active, LiveOn, RowsAdded
    <3> QED
      BY <3>2
  <2>2. CASE \E m \in DOMAIN holds' : holds'[m].unit = u /\ Live(holds'[m])
    <3>1. PICK m \in DOMAIN holds' : holds'[m].unit = u /\ Live(holds'[m])
      BY <2>2
    <3>2. m \in Active(u)'
      BY <3>1 DEF Active, LiveOn
    <3> QED
      BY <3>2
  <2> QED
    BY <1>4, <2>1, <2>2
<1> QED
  BY <1>1, <1>2, <1>3, <1>4 DEF Tables, LinesOwn, ReservedIsHeld

LEMMA ReserveHeld ==
  ASSUME HInv, NEW h \in Handlers, Reserve(h)
  PROVE  Tables' /\ ReadsOK'
<1> DEFINE s == handler[h]
           row == Hold(s.unit, None, s.from, s.to, "held", "counter")
<1>0. CounterOK(h) /\ Tables /\ UnitsOK
  BY DEF Reserve, At, HInv, Tables, IInv, HandlersOK, HandlerOK
<1>1. Done(h) /\ Rest /\ UNCHANGED <<order, itemUnit, returned, loose>>
  BY DEF Reserve
<1>2. CASE ~ Serializes(s)
  BY <1>0, <1>1, <1>2, QuietDone DEF Reserve, UnitsOK
<1>3. CASE Serializes(s)
  <2>1. /\ holds' = Append(holds, row)
        /\ IF s.read = "available" THEN SetUnit(s.unit, "reserved") ELSE UNCHANGED unit
    BY <1>3 DEF Reserve
  <2>2. row \in HoldRows
    BY <1>0 DEF CounterOK, HoldRows, HoldStatuses, Hold
  <2>3. row.unit = s.unit /\ row.item = None /\ Live(row)
    BY DEF Hold, Live
  <2> HIDE DEF row
  <2>4. holds \in Seq(HoldRows) /\ \A n \in DOMAIN holds : Follows(holds[n], holds[n])
    BY HoldsTyped DEF HInv, IInv, RowsOK
  <2>5. /\ holds' \in Seq(HoldRows) /\ Len(holds) <= Len(holds')
        /\ \A n \in DOMAIN holds : holds'[n] = holds[n]
        /\ \A m \in DOMAIN holds' \ DOMAIN holds : m = Len(holds) + 1 /\ holds'[m] = row
    BY <2>1, <2>2, <2>4, OneRow, Joined
  <2>6. /\ DOMAIN holds \subseteq DOMAIN holds'
        /\ Len(holds) + 1 \in DOMAIN holds' /\ holds'[Len(holds) + 1] = row
    <3>1. Len(holds') = Len(holds) + 1 /\ Len(holds) \in Nat
      BY <2>1, <2>2, <2>4, AppendProperties, LenProperties
    <3>2. DOMAIN holds = 1..Len(holds) /\ DOMAIN holds' = 1..Len(holds')
      BY <2>4, <2>5, LenProperties
    <3> QED
      BY <2>5, <3>1, <3>2
  <2>7. RowsAdded
    BY <2>5, <2>6 DEF RowsAdded
  <2>8. UnitsOK' /\ \A u \in Units : unit'[u] = "reserved" => unit[u] = "reserved" \/ u = s.unit
    <3>1. CASE SetUnit(s.unit, "reserved")
      BY <1>0, <3>1, UnitAfter
    <3>2. CASE UNCHANGED unit
      BY <1>0, <3>2 DEF UnitsOK
    <3> QED
      BY <2>1, <3>1, <3>2
  <2>9. \A u \in Units \ raced : unit'[u] = "reserved" =>
           \/ unit[u] = "reserved"
           \/ \E m \in DOMAIN holds' : holds'[m].unit = u /\ Live(holds'[m])
    BY <2>3, <2>6, <2>8
  <2>10. \A i \in Items :
           /\ \A m \in DOMAIN holds' \ DOMAIN holds : holds'[m].item # i
           /\ order'[OrderOf[i]].life \in {order[OrderOf[i]].life} \cup Back
    BY <1>1, <2>3, <2>5, RentalAssumption DEF RentalAssumption
  <2>11. raced' = raced
    BY <1>1 DEF Rest
  <2>12. Tables'
    BY <1>0, <1>1, <2>3, <2>5, <2>7, <2>8, <2>9, <2>10, <2>11, AddedTables
  <2>13. Touches(s.on)
    BY <1>1, <2>11 DEF Touches
  <2> QED
    BY <1>1, <2>11, <2>12, <2>13, ReadsDone
<1> QED
  BY <1>2, <1>3

-----------------------------------------------------------------------------
(* An order moves on.                                                        *)
Moves(h) ==
  LET s == handler[h] IN
  /\ Done(h) /\ Rest /\ UNCHANGED <<itemUnit, returned, loose>>
  /\ \A o \in Orders : order'[o].life = IF o = s.order THEN s.to ELSE order[o].life

LEMMA AdvanceMoves ==
  ASSUME HInv, NEW h \in Handlers, Advance(h)
  PROVE  /\ AdvanceOK(h) /\ ReadItems(h) /\ ReadWrites(h) /\ Stands(handler[h])
         /\ Moves(h)
<1> DEFINE s == handler[h]
           st == IF CoreOf[s.to] # s.read.status THEN CoreOf[s.to] ELSE order[s.order].status
<1>1. AdvanceOK(h) /\ ReadItems(h) /\ ReadWrites(h) /\ Stands(handler[h])
  BY DEF Advance, At, HInv, IInv, HandlersOK, HandlerOK, ReadsOK, ReadOK
<1>2. order' = [order EXCEPT ![s.order].life = s.to, ![s.order].status = st]
  BY DEF Advance
<1> HIDE DEF st
<1>3. \A o \in Orders : order'[o].life = IF o = s.order THEN s.to ELSE order[o].life
  BY <1>2 DEF HInv, IInv, RowsOK, OrderRows
<1> QED
  BY <1>1, <1>3 DEF Advance, Moves

(* What remains to be shown of the lines: those of the order. *)
LEMMA MovesReads ==
  ASSUME HInv, NEW h \in Handlers, AdvanceOK(h), Moves(h)
  PROVE  ReadsOK'
<1>1. raced' = raced /\ Touches(handler[h].on)
  BY DEF Moves, Rest, Touches, AdvanceOK
<1> QED
  BY <1>1, ReadsDone DEF Moves

(* A line of the order that is not loose, where no two requests ran at once. *)
LEMMA MovedLine ==
  ASSUME HInv, NEW h \in Handlers, AdvanceOK(h), ReadItems(h),
         NEW i \in Items, i \notin loose, OrderOf[i] \notin raced, OrderOf[i] = handler[h].order
  PROVE  /\ OwnLine(i) /\ handler[h].to \in Allowed[order[OrderOf[i]].life]
         /\ order[OrderOf[i]].life \in Lives
         /\ itemUnit[i] # None => i \in DOMAIN handler[h].items
         /\ i \in DOMAIN handler[h].items => handler[h].items[i] = itemUnit[i]
         /\ \A n \in DOMAIN holds : holds[n].item = i =>
              i \in DOMAIN handler[h].items /\ itemUnit[i] # None
<1>1. OwnLine(i) /\ i # None /\ OrderOf[i] \in Orders
  BY RentalAssumption DEF HInv, Tables, LinesOwn, RentalAssumption
<1>2. handler[h].to \in Allowed[order[OrderOf[i]].life]
  BY DEF ReadItems, LifeRead
<1>3. itemUnit[i] # None => i \in DOMAIN handler[h].items
  BY DEF ReadItems, ItemsOf
<1>4. i \in DOMAIN handler[h].items => handler[h].items[i] = itemUnit[i]
  BY DEF ReadItems, Still, AdvanceOK
<1>5. \A n \in DOMAIN holds : holds[n].item = i => itemUnit[i] # None
  BY <1>1 DEF HInv, Tables, LinesStand
<1>6. order[OrderOf[i]].life \in Lives
  BY <1>1 DEF HInv, IInv, RowsOK, OrderRows
<1> QED
  BY <1>1, <1>2, <1>3, <1>4, <1>5, <1>6

LEMMA AllowedAhead ==
  \A x \in Lives :
    /\ "reserved" \in Allowed[x] => x = "quote"
    /\ "checked_out" \in Allowed[x] => x \in Ahead \ {"quote"}
    /\ "cancelled" \in Allowed[x] => x \in Ahead
    /\ \A y \in Allowed[x] \ {"reserved", "checked_out", "cancelled"} :
         y \in Back \/ (x \in Ahead \ {"quote"} /\ y \in Ahead \ {"quote"})
  BY DEF Lives, Allowed, Ahead, Back

LEMMA NextHeld ==
  ASSUME HInv, NEW h \in Handlers, AdvanceOK(h), ReadItems(h), Moves(h),
         handler[h].to \notin {"reserved", "checked_out", "cancelled"}, UNCHANGED <<unit, holds>>
  PROVE  Tables'
<1> DEFINE s == handler[h]
<1>1. RowsEnd({}) /\ raced' = raced /\ UnitsOK'
  BY DEF RowsEnd, Moves, Rest, HInv, Tables, UnitsOK
<1>2. \A u \in Units \ (raced' \cup loose') :
        unit'[u] = "reserved" => unit[u] = "reserved" /\ ~ (Active(u) \subseteq {})
  BY <1>1 DEF HInv, Tables, ReservedIsHeld, Moves
<1>3. ASSUME NEW i \in Items, i \notin loose', OrderOf[i] \notin raced'
      PROVE  \/ OwnLine(i)'
             \/ /\ \A n \in DOMAIN holds \cap {} : holds[n].item # i
                /\ order'[OrderOf[i]].life \in {order[OrderOf[i]].life} \cup Back
  <2>1. OrderOf[i] \in Orders
    BY RentalAssumption DEF RentalAssumption
  <2>2. CASE OrderOf[i] # s.order
    BY <2>1, <2>2 DEF Moves
  <2>3. CASE OrderOf[i] = s.order
    <3>1. OwnLine(i) /\ s.to \in Allowed[order[OrderOf[i]].life] /\ order[OrderOf[i]].life \in Lives
      BY <1>1, <1>3, <2>3, MovedLine DEF Moves
    <3>2. order'[OrderOf[i]].life = s.to
      BY <2>1, <2>3 DEF Moves
    <3>3. CASE s.to \in Back
      BY <3>2, <3>3
    <3>4. CASE order[OrderOf[i]].life \in Ahead \ {"quote"} /\ s.to \in Ahead \ {"quote"}
      <4>1. \A st : OwnHold(i, st)' = OwnHold(i, st)
        BY DEF OwnHold, Moves
      <4>2. s.to \notin {"checked_out", "cancelled"}
        BY <3>4 DEF Ahead
      <4>3. UNCHANGED <<holds, itemUnit>>
        BY DEF Moves
      <4>4. OwnLine(i)'
        BY <3>1, <3>2, <3>4, <4>1, <4>2, <4>3 DEF OwnLine
      <4> QED
        BY <4>4
    <3> QED
      BY <3>1, <3>3, <3>4, AllowedAhead
  <2> QED
    BY <2>2, <2>3
<1> QED
  BY <1>1, <1>2, <1>3, EndTables DEF HInv, Moves

LEMMA AdvanceCancelHeld ==
  ASSUME HInv, NEW h \in Handlers, AdvanceOK(h), ReadItems(h), Moves(h),
         handler[h].to = "cancelled", ReleaseHolds(handler[h])
  PROVE  Tables'
<1> DEFINE s == handler[h]
           own == Held(DOMAIN s.items)
           units == {s.items[i] : i \in DOMAIN s.items}
           last == {u \in units : unit[u] = "reserved" /\ Active(u) \subseteq own}
<1>0. Tables /\ RowsOK /\ raced' = raced /\ loose' = loose /\ returned' = returned
  BY DEF HInv, Tables, IInv, Moves, Rest
<1>1. holds' = Updated(own, "cancelled") /\ SetUnits(last, "available")
  BY DEF ReleaseHolds
<1>2. RowsEnd(own) /\ UnitsOK'
  BY <1>0, <1>1, UpdatedEnd DEF SetUnits, UnitsOK
<1>3. ASSUME NEW u \in Units \ (raced' \cup loose'), unit'[u] = "reserved"
      PROVE  unit[u] = "reserved" /\ ~ (Active(u) \subseteq own)
  <2>1. unit[u] = "reserved" /\ u \notin last
    BY <1>1, <1>3 DEF SetUnits
  <2>2. CASE u \in units
    BY <2>1, <2>2
  <2>3. CASE u \notin units
    <3>1. PICK n \in Active(u) : TRUE
      BY <1>0, <1>3, <2>1 DEF Tables, ReservedIsHeld
    <3>2. n \in DOMAIN holds /\ holds[n].unit = u /\ Live(holds[n])
      BY <3>1 DEF Active, LiveOn
    <3>3. n \notin own
      <4> SUFFICES ASSUME n \in own PROVE FALSE
        OBVIOUS
      <4>1. PICK i \in DOMAIN s.items : holds[n].item = i
        BY DEF Held
      <4>2. i \in Items /\ Still(s.on, i, s.items[i])
        BY DEF AdvanceOK, ReadItems
      <4>3. holds[n].unit = s.items[i]
        BY <1>0, <1>3, <3>2, <4>1, <4>2, StrayFree DEF Tables
      <4> QED
        BY <2>3, <3>2, <4>3
    <3> QED
      BY <2>1, <3>1, <3>3
  <2> QED
    BY <2>2, <2>3
<1>4. ASSUME NEW i \in Items, i \notin loose', OrderOf[i] \notin raced'
      PROVE  \/ OwnLine(i)'
             \/ /\ \A n \in DOMAIN holds \cap own : holds[n].item # i
                /\ order'[OrderOf[i]].life \in {order[OrderOf[i]].life} \cup Back
  <2>1. OrderOf[i] \in Orders
    BY RentalAssumption DEF RentalAssumption
  <2>2. CASE OrderOf[i] # s.order
    <3>1. i \notin DOMAIN s.items
      BY <2>2 DEF AdvanceOK
    <3> QED
      BY <2>1, <2>2, <3>1 DEF Moves, Held
  <2>3. CASE OrderOf[i] = s.order
    <3>1. /\ OwnLine(i) /\ s.to \in Allowed[order[OrderOf[i]].life]
          /\ order[OrderOf[i]].life \in Lives
          /\ \A n \in DOMAIN holds : holds[n].item = i => i \in DOMAIN s.items
      BY <1>0, <1>4, <2>3, MovedLine
    <3>2. order[OrderOf[i]].life \in Ahead
      BY <3>1, AllowedAhead
    <3>3. \A n \in DOMAIN holds : holds[n].item = i /\ Live(holds[n]) => n \in own
      BY <3>1, <3>2 DEF OwnLine, Held
    <3>4. order'[OrderOf[i]].life = "cancelled" /\ itemUnit'[i] = itemUnit[i]
      BY <2>1, <2>3 DEF Moves
    <3> HIDE DEF own
    <3>5. OwnLine(i)'
      BY <1>2, <3>1, <3>3, <3>4, LineBack
    <3> QED
      BY <3>5
  <2> QED
    BY <2>2, <2>3
<1> HIDE DEF own, last
<1>5. UNCHANGED itemUnit
  BY DEF Moves
<1> QED
  BY <1>0, <1>2, <1>3, <1>4, <1>5, EndTables

LEMMA CheckoutHeld ==
  ASSUME HInv, NEW h \in Handlers, AdvanceOK(h), ReadItems(h), Moves(h),
         handler[h].to = "checked_out", CheckoutUnits(handler[h])
  PROVE  Tables'
<1> DEFINE s == handler[h]
           own == Held(DOMAIN s.items)
<1>0. Tables /\ RowsOK /\ raced' = raced /\ loose' = loose /\ returned' = returned /\ itemUnit' = itemUnit
  BY DEF HInv, Tables, IInv, Moves, Rest
<1>1. /\ holds' = Updated(own, "checked_out")
      /\ SetUnits({s.items[i] : i \in DOMAIN s.items}, "checked_out")
  BY DEF CheckoutUnits
<1>2. /\ holds' \in Seq(HoldRows) /\ Len(holds') = Len(holds)
      /\ \A n \in DOMAIN holds :
           IF n \in own THEN Marked(holds[n], holds'[n], "checked_out") ELSE holds'[n] = holds[n]
  BY <1>0, <1>1, UpdatedRows DEF RowsOK, HoldStatuses
<1>3. DOMAIN holds' = DOMAIN holds
  BY <1>0, <1>2, SameLength DEF RowsOK
<1>4. \A n \in DOMAIN holds :
        /\ holds'[n].unit = holds[n].unit /\ holds'[n].item = holds[n].item
        /\ Live(holds'[n]) = Live(holds[n])
  BY <1>2 DEF Marked, Held, Live
<1>5. LinesStand' /\ NoStray'
  BY <1>0, <1>3, <1>4 DEF Tables, LinesStand, NoStray
<1>6. UnitsOK' /\ ReservedIsHeld'
  <2>1. \A u : Active(u)' = Active(u)
    BY <1>3, <1>4 DEF Active, LiveOn
  <2>2. \A u \in Units : unit'[u] = "reserved" => unit[u] = "reserved"
    BY <1>1 DEF SetUnits
  <2> QED
    BY <1>0, <1>1, <2>1, <2>2 DEF Tables, ReservedIsHeld, SetUnits, UnitsOK
<1>7. ASSUME NEW i \in Items, i \notin loose', OrderOf[i] \notin raced' PROVE OwnLine(i)'
  <2>1. OrderOf[i] \in Orders /\ OwnLine(i)
    BY <1>0, <1>7, RentalAssumption DEF Tables, LinesOwn, RentalAssumption
  <2>2. CASE OrderOf[i] # s.order
    <3>1. i \notin DOMAIN s.items
      BY <2>2 DEF AdvanceOK
    <3>2. RowsKept(i)
      BY <1>2, <1>3, <1>4, <3>1 DEF RowsKept, Held
    <3>3. order'[OrderOf[i]].life = order[OrderOf[i]].life
      BY <2>1, <2>2 DEF Moves
    <3> QED
      BY <1>0, <2>1, <3>2, <3>3, LineKept
  <2>3. CASE OrderOf[i] = s.order
    <3>1. /\ s.to \in Allowed[order[OrderOf[i]].life]
          /\ order[OrderOf[i]].life \in Lives
          /\ itemUnit[i] # None => i \in DOMAIN s.items
      BY <1>0, <1>7, <2>3, MovedLine
    <3>2. order[OrderOf[i]].life \in Ahead \ {"quote"}
      BY <3>1, AllowedAhead
    <3>3. order'[OrderOf[i]].life = "checked_out"
      BY <2>1, <2>3 DEF Moves
    <3>4. \A n \in DOMAIN holds' : holds'[n].item = i /\ Live(holds'[n]) => holds'[n].unit = itemUnit'[i]
      BY <1>0, <1>3, <1>4, <2>1 DEF OwnLine
    <3>5. itemUnit'[i] # None => OwnHold(i, "checked_out")'
      <4> SUFFICES ASSUME itemUnit[i] # None PROVE OwnHold(i, "checked_out")'
        BY <1>0
      <4>1. PICK n \in DOMAIN holds :
              holds[n].item = i /\ holds[n].unit = itemUnit[i] /\ holds[n].status = "held"
        BY <2>1, <3>2 DEF OwnLine, OwnHold
      <4>2. n \in own
        BY <3>1, <4>1 DEF Held
      <4>3. n \in DOMAIN holds' /\ Marked(holds[n], holds'[n], "checked_out")
        BY <1>2, <1>3, <4>2
      <4> QED
        BY <1>0, <4>1, <4>3 DEF Marked, OwnHold
    <3>6. "checked_out" \notin Ahead
      BY DEF Ahead
    <3> QED
      BY <3>3, <3>4, <3>5, <3>6 DEF OwnLine
  <2> QED
    BY <2>2, <2>3
<1> QED
  BY <1>5, <1>6, <1>7 DEF Tables, LinesOwn

(* A set of rows is added behind those that are there. *)
LEMMA JoinedSet ==
  ASSUME holds \in Seq(HoldRows), NEW old \in Seq(HoldRows), Len(old) = Len(holds),
         NEW T, IsFiniteSet(T), T \subseteq HoldRows, holds' = old \o SetToSeq(T)
  PROVE  /\ \A n \in DOMAIN holds : n \in DOMAIN holds' /\ holds'[n] = old[n]
         /\ \A m \in DOMAIN holds' \ DOMAIN holds : holds'[m] \in T
         /\ \A t \in T : \E m \in DOMAIN holds' : holds'[m] = t
<1> DEFINE rows == SetToSeq(T)
<1>1. rows \in Seq(T) /\ \A t \in T : \E k \in DOMAIN rows : rows[k] = t
  BY SetToSeqAll
<1> HIDE DEF rows
<1>2. rows \in Seq(HoldRows) /\ \A k \in DOMAIN rows : rows[k] \in T
  BY <1>1, SeqMonotonic, LenProperties, ElementOfSeq
<1>3. /\ holds' \in Seq(HoldRows) /\ Len(holds') = Len(old) + Len(rows)
      /\ \A n \in 1 .. Len(old) + Len(rows) :
           holds'[n] = IF n <= Len(old) THEN old[n] ELSE rows[n - Len(old)]
  BY <1>2, ConcatProperties DEF rows
<1>4. /\ DOMAIN holds = 1..Len(holds) /\ DOMAIN holds' = 1..Len(holds')
      /\ DOMAIN rows = 1..Len(rows)
      /\ Len(holds) \in Nat /\ Len(rows) \in Nat
  BY <1>2, <1>3, LenProperties
<1>5. \A n \in DOMAIN holds : n \in DOMAIN holds' /\ holds'[n] = old[n]
  BY <1>3, <1>4
<1>6. ASSUME NEW m \in DOMAIN holds' \ DOMAIN holds PROVE holds'[m] \in T
  <2>1. m \in 1 .. Len(old) + Len(rows) /\ ~ (m <= Len(old))
    BY <1>3, <1>4
  <2>2. m - Len(holds) \in DOMAIN rows
    BY <1>4, <2>1
  <2>3. holds'[m] = rows[m - Len(holds)]
    BY <1>3, <2>1
  <2> QED
    BY <1>2, <2>2, <2>3
<1>7. ASSUME NEW t \in T PROVE \E m \in DOMAIN holds' : holds'[m] = t
  <2>1. PICK k \in DOMAIN rows : rows[k] = t
    BY <1>1
  <2>2. Len(holds) + k \in DOMAIN holds'
    BY <1>3, <1>4
  <2>3. holds'[Len(holds) + k] = rows[(Len(holds) + k) - Len(holds)] /\ (Len(holds) + k) - Len(holds) = k
    BY <1>3, <1>4, <2>2
  <2> QED
    BY <2>1, <2>2, <2>3
<1> QED
  BY <1>5, <1>6, <1>7

LEMMA AdvanceReserveHeld ==
  ASSUME HInv, NEW h \in Handlers, AdvanceOK(h), ReadItems(h), ReadWrites(h), Stands(handler[h]),
         Moves(h), handler[h].to = "reserved", ReserveUnits(handler[h])
  PROVE  Tables'
<1> DEFINE s == handler[h]
           row(i) == Hold(s.items[i], i, s.read.from, s.read.to, "held", "order")
           T == {row(i) : i \in s.writes}
<1>0. /\ Tables /\ holds \in Seq(HoldRows) /\ raced' = raced /\ loose' = loose
      /\ returned' = returned /\ itemUnit' = itemUnit
  BY DEF HInv, Tables, IInv, RowsOK, Moves, Rest
<1>1. holds' = holds \o SetToSeq(T) /\ SetUnits(s.free, "reserved")
  BY DEF ReserveUnits
<1>2. \A i \in s.writes : i \in DOMAIN s.items /\ i \in Items /\ i # None /\ OrderOf[i] = s.order
                          /\ s.items[i] \in Units /\ s.items[i] \in s.on /\ itemUnit[i] # None
                          /\ Still(s.on, i, s.items[i])
  BY RentalAssumption DEF AdvanceOK, ReadItems, Stands, RentalAssumption
<1>3. \A i \in s.writes : /\ row(i).unit = s.items[i] /\ row(i).item = i /\ row(i).status = "held"
                          /\ row(i) \in HoldRows /\ row(i) \in T
  BY <1>2 DEF Hold, HoldRows, HoldStatuses, OrderRows, AdvanceOK
<1>4. \A t \in T : \E i \in s.writes : t = row(i)
  OBVIOUS
<1>5. IsFiniteSet(T)
  <2>1. IsFiniteSet(s.writes)
    BY <1>2, FS_Subset, RentalAssumption DEF RentalAssumption
  <2> DEFINE f == [i \in s.writes |-> row(i)]
  <2>2. f \in [s.writes -> T] /\ \A t \in T : \E i \in s.writes : f[i] = t
    OBVIOUS
  <2> HIDE DEF T, f
  <2> QED
    BY <2>1, <2>2, ImageFinite
<1> HIDE DEF T, row
<1>6. /\ \A n \in DOMAIN holds : n \in DOMAIN holds' /\ holds'[n] = holds[n]
      /\ \A m \in DOMAIN holds' \ DOMAIN holds : holds'[m] \in T
      /\ \A t \in T : \E m \in DOMAIN holds' : holds'[m] = t
  <2>1. T \subseteq HoldRows
    BY <1>3, <1>4
  <2> QED
    BY <1>0, <1>1, <1>5, <2>1, JoinedSet
<1>7. \A m \in DOMAIN holds' \ DOMAIN holds : \E i \in s.writes : holds'[m] = row(i)
  BY <1>4, <1>6
<1>8. \A i \in s.writes : \E m \in DOMAIN holds' : holds'[m] = row(i)
  BY <1>3, <1>6
<1>9. UnitsOK' /\ RowsAdded
  BY <1>1, <1>6 DEF SetUnits, UnitsOK, RowsAdded
<1>10. ASSUME NEW m \in DOMAIN holds' \ DOMAIN holds, holds'[m].item # None
       PROVE  /\ itemUnit[holds'[m].item] # None
              /\ holds'[m].unit \in {itemUnit[holds'[m].item]} \cup raced
  BY <1>2, <1>3, <1>7, <1>10 DEF Still
<1>11. ASSUME NEW u \in Units \ raced, unit'[u] = "reserved"
       PROVE  \/ unit[u] = "reserved"
              \/ \E m \in DOMAIN holds' : holds'[m].unit = u /\ Live(holds'[m])
  <2>1. unit[u] = "reserved" \/ u \in s.free
    BY <1>1, <1>11 DEF SetUnits
  <2>2. ASSUME u \in s.free PROVE \E m \in DOMAIN holds' : holds'[m].unit = u /\ Live(holds'[m])
    <3>1. PICK i \in DOMAIN s.items : s.items[i] = u
      BY <2>2 DEF ReadItems
    <3>2. i \in s.writes
      BY <3>1 DEF ReadWrites, AdvanceOK
    <3> QED
      BY <1>3, <1>8, <3>1, <3>2 DEF Live
  <2> QED
    BY <2>1, <2>2
<1>12. ASSUME NEW i \in Items, i \notin loose, OrderOf[i] \notin raced
       PROVE  \/ OwnLine(i)'
              \/ /\ \A m \in DOMAIN holds' \ DOMAIN holds : holds'[m].item # i
                 /\ order'[OrderOf[i]].life \in {order[OrderOf[i]].life} \cup Back
  <2>1. OrderOf[i] \in Orders
    BY RentalAssumption DEF RentalAssumption
  <2>2. CASE OrderOf[i] # s.order
    BY <1>2, <1>3, <1>7, <2>1, <2>2 DEF Moves
  <2>3. CASE OrderOf[i] = s.order
    <3>1. /\ OwnLine(i) /\ s.to \in Allowed[order[OrderOf[i]].life] /\ order[OrderOf[i]].life \in Lives
          /\ itemUnit[i] # None => i \in DOMAIN s.items
          /\ i \in DOMAIN s.items => s.items[i] = itemUnit[i]
      BY <1>12, <2>3, MovedLine
    <3>2. order[OrderOf[i]].life \in Ahead
      BY <3>1, AllowedAhead DEF Ahead
    <3>3. order'[OrderOf[i]].life = "reserved" /\ s.writes = DOMAIN s.items
      BY <1>12, <2>1, <2>3 DEF Moves, ReadWrites, AdvanceOK
    <3>4. ASSUME NEW n \in DOMAIN holds', holds'[n].item = i, Live(holds'[n])
          PROVE  holds'[n].unit = itemUnit[i] /\ holds'[n].status = "held"
      <4>1. CASE n \in DOMAIN holds
        BY <1>6, <3>1, <3>2, <3>4, <4>1 DEF OwnLine
      <4>2. CASE n \notin DOMAIN holds
        BY <1>2, <1>3, <1>7, <3>1, <3>4, <4>2
      <4> QED
        BY <4>1, <4>2
    <3>5. itemUnit[i] # None => OwnHold(i, "held")'
      BY <1>0, <1>3, <1>8, <3>1, <3>3 DEF OwnHold
    <3>6. OwnLine(i)'
      BY <1>0, <3>3, <3>4, <3>5 DEF OwnLine
    <3> QED
      BY <3>6
  <2> QED
    BY <2>2, <2>3
<1> QED
  BY <1>0, <1>9, <1>10, <1>11, <1>12, AddedTables

LEMMA AdvanceHeld ==
  ASSUME HInv, NEW h \in Handlers, Advance(h)
  PROVE  Tables' /\ ReadsOK'
<1> DEFINE s == handler[h]
<1>1. AdvanceOK(h) /\ ReadItems(h) /\ ReadWrites(h) /\ Stands(s) /\ Moves(h)
  BY AdvanceMoves
<1>2. ReadsOK'
  BY <1>1, MovesReads
<1>3. \/ s.to = "reserved" /\ ReserveUnits(s)
      \/ s.to = "checked_out" /\ CheckoutUnits(s)
      \/ s.to = "cancelled" /\ ReleaseHolds(s)
      \/ s.to \notin {"reserved", "checked_out", "cancelled"} /\ UNCHANGED <<unit, holds>>
  BY DEF Advance
<1>4. Tables'
  BY <1>1, <1>3, AdvanceReserveHeld, CheckoutHeld, AdvanceCancelHeld, NextHeld
<1> QED
  BY <1>2, <1>4

-----------------------------------------------------------------------------
(* Other units on the lines. *)
LEMMA ExchangeHeld ==
  ASSUME HInv, NEW h \in Handlers, Exchange(h)
  PROVE  Tables' /\ ReadsOK'
<1> DEFINE
      s == handler[h]
      o == OrderOf[s.item]
      out == s.read.life = "checked_out"
      left == {n \in LiveOn({s.from}) : holds[n].item = s.item}
      old == Updated(left, "released")
      status == IF out THEN "checked_out" ELSE "held"
      row == Hold(s.to, s.item, s.read.from, s.read.to, status, "exchange")
<1>1. ExchangeOK(h) /\ ReadExchange(h) /\ Tables /\ RowsOK
  BY DEF Exchange, At, HInv, IInv, HandlersOK, HandlerOK, ReadsOK, ReadOK
<1>2. /\ Done(h) /\ Rest /\ UNCHANGED <<order, returned, loose>>
      /\ itemUnit' = [itemUnit EXCEPT ![s.item] = s.to]
      /\ holds' = Append(old, row)
      /\ unit' = [unit EXCEPT ![s.from] = "available",
                              ![s.to] = IF out THEN "checked_out" ELSE "reserved"]
  BY DEF Exchange
<1>3. raced' = raced /\ s.item \in Items /\ s.item # None /\ o \in Orders /\ o \in s.on
      /\ s.to \in Units /\ s.to \in s.on /\ s.to # None /\ Still(s.on, s.item, s.from)
  BY <1>1, <1>2, RentalAssumption DEF Rest, ExchangeOK, ReadExchange, RentalAssumption
<1>4. row \in HoldRows /\ status \in {"held", "checked_out"}
  BY <1>1 DEF ExchangeOK, OrderRows, HoldRows, HoldStatuses, Hold
<1>5. row.unit = s.to /\ row.item = s.item /\ row.status = status /\ Live(row)
  BY DEF Hold, Live
<1> HIDE DEF row, left
<1>6. /\ old \in Seq(HoldRows) /\ Len(old) = Len(holds)
      /\ \A n \in DOMAIN holds :
           IF n \in left THEN Marked(holds[n], old[n], "released") ELSE old[n] = holds[n]
  BY <1>1, UpdatedRows DEF RowsOK, HoldStatuses
<1> HIDE DEF old
<1>7. /\ \A n \in DOMAIN holds : n \in DOMAIN holds' /\ holds'[n] = old[n]
      /\ \A m \in DOMAIN holds' \ DOMAIN holds : holds'[m] = row
      /\ \E m \in DOMAIN holds' : holds'[m] = row
  <2>1. /\ Len(holds') = Len(old) + 1 /\ holds' \in Seq(HoldRows)
        /\ \A n \in 1 .. Len(old) : holds'[n] = old[n]
        /\ holds'[Len(old) + 1] = row
    BY <1>2, <1>4, <1>6, AppendProperties
  <2>2. DOMAIN holds = 1..Len(holds) /\ DOMAIN holds' = 1..Len(holds') /\ Len(holds) \in Nat
    BY <1>1, <2>1, LenProperties DEF RowsOK
  <2> QED
    BY <1>6, <2>1, <2>2
<1>8. \A i \in Items : itemUnit'[i] = IF i = s.item THEN s.to ELSE itemUnit[i]
  BY <1>1, <1>2 DEF RowsOK
<1>9. \A n \in DOMAIN holds :
        /\ holds'[n].unit = holds[n].unit /\ holds'[n].item = holds[n].item
        /\ Live(holds'[n]) => n \notin left /\ Live(holds[n])
        /\ n \notin left => holds'[n] = holds[n]
  BY <1>6, <1>7 DEF Marked, Live
<1>10. \A n \in DOMAIN holds : holds[n].item \in Items \cup {None}
  BY <1>1, HoldsTyped DEF RowsOK, HoldRows
<1>11. LinesStand'
  <2>1. ASSUME NEW n \in DOMAIN holds', holds'[n].item # None PROVE itemUnit'[holds'[n].item] # None
    <3>1. CASE n \in DOMAIN holds
      BY <1>1, <1>3, <1>8, <1>9, <1>10, <2>1, <3>1 DEF Tables, LinesStand
    <3>2. CASE n \notin DOMAIN holds
      BY <1>3, <1>5, <1>7, <1>8, <3>2
    <3> QED
      BY <3>1, <3>2
  <2> QED
    BY <2>1 DEF LinesStand
<1>12. NoStray'
  <2>1. ASSUME NEW n \in DOMAIN holds', holds'[n].item # None, Live(holds'[n]),
               itemUnit'[holds'[n].item] # holds'[n].unit
        PROVE  holds'[n].unit \in raced' \cup loose'
    <3>1. n \in DOMAIN holds
      BY <1>3, <1>5, <1>7, <1>8, <2>1
    <3>2. CASE holds[n].item # s.item
      BY <1>1, <1>2, <1>3, <1>8, <1>9, <1>10, <2>1, <3>1, <3>2 DEF Tables, NoStray
    <3>3. CASE holds[n].item = s.item
      <4>1. n \notin left /\ Live(holds[n])
        BY <1>9, <2>1, <3>1
      <4>2. holds[n].unit # s.from
        BY <3>1, <3>3, <4>1 DEF left, LiveOn
      <4>3. holds[n].unit \in raced \cup loose
        BY <1>1, <1>3, <3>1, <3>3, <4>1, <4>2, StrayFree DEF Tables
      <4> QED
        BY <1>2, <1>3, <1>9, <3>1, <4>3
    <3> QED
      BY <3>2, <3>3
  <2> QED
    BY <2>1 DEF NoStray
<1>13. UnitsOK' /\ \A u \in Units : u # s.to => unit'[u] = IF u = s.from THEN "available" ELSE unit[u]
  BY <1>1, <1>2 DEF Tables, UnitsOK
<1>14. ASSUME NEW u \in Units, u \notin raced' \cup loose', unit'[u] = "reserved"
       PROVE  Active(u)' # {}
  <2>1. CASE u = s.to
    <3>1. PICK m \in DOMAIN holds' : holds'[m] = row
      BY <1>7
    <3>2. m \in Active(u)'
      BY <1>5, <2>1, <3>1 DEF Active, LiveOn
    <3> QED
      BY <3>2
  <2>2. CASE u # s.to
    <3>1. u # s.from /\ unit[u] = "reserved"
      BY <1>13, <1>14, <2>2
    <3>2. PICK n \in Active(u) : TRUE
      BY <1>1, <1>2, <1>3, <1>14, <3>1 DEF Tables, ReservedIsHeld
    <3>3. n \in DOMAIN holds /\ holds[n].unit = u /\ Live(holds[n]) /\ n \notin left
      BY <3>1, <3>2 DEF Active, LiveOn, left
    <3>4. n \in Active(u)'
      BY <1>7, <1>9, <3>3 DEF Active, LiveOn
    <3> QED
      BY <3>4
  <2> QED
    BY <2>1, <2>2
<1>15. ASSUME NEW i \in Items, i \notin loose', OrderOf[i] \notin raced' PROVE OwnLine(i)'
  <2>1. OwnLine(i)
    BY <1>1, <1>2, <1>3, <1>15 DEF Tables, LinesOwn
  <2>2. CASE i # s.item
    <3>1. RowsKept(i)
      BY <1>5, <1>7, <1>9, <2>2 DEF RowsKept, left
    <3>2. /\ itemUnit'[i] = itemUnit[i] /\ returned \subseteq returned'
          /\ order'[OrderOf[i]].life \in {order[OrderOf[i]].life} \cup Back
      BY <1>2, <1>8, <2>2
    <3> QED
      BY <2>1, <3>1, <3>2, LineKept
  <2>3. CASE i = s.item
    <3>1. itemUnit[i] = s.from /\ order[OrderOf[i]].life = s.read.life
      BY <1>1, <1>3, <1>15, <2>3 DEF Still, ReadExchange, LifeRead
    <3>2. ASSUME NEW n \in DOMAIN holds', holds'[n].item = i, Live(holds'[n])
          PROVE  holds'[n] = row
      <4>1. CASE n \in DOMAIN holds
        <5>1. holds[n].item = i /\ Live(holds[n]) /\ n \notin left
          BY <1>9, <3>2, <4>1
        <5>2. holds[n].unit = s.from
          BY <2>1, <3>1, <4>1, <5>1 DEF OwnLine
        <5> QED
          BY <2>3, <4>1, <5>1, <5>2 DEF left, LiveOn
      <4>2. CASE n \notin DOMAIN holds
        BY <1>7, <4>2
      <4> QED
        BY <4>1, <4>2
    <3>3. itemUnit'[i] = s.to
      BY <1>8, <2>3
    <3>4. status = "held" => OwnHold(i, "held")'
      BY <1>5, <1>7, <2>3, <3>3 DEF OwnHold
    <3>8. status = "checked_out" => OwnHold(i, "checked_out")'
      BY <1>5, <1>7, <2>3, <3>3 DEF OwnHold
    <3>5. order'[OrderOf[i]].life = s.read.life /\ s.read.life \in {"checked_out", "reserved", "fitted"}
      BY <1>1, <1>2, <3>1 DEF ReadExchange
    <3>6. status = IF s.read.life = "checked_out" THEN "checked_out" ELSE "held"
      OBVIOUS
    <3> HIDE DEF status
    <3>7. order'[OrderOf[i]].life \in Ahead => status = "held"
      BY <3>5, <3>6 DEF Ahead
    <3> QED
      BY <1>5, <2>3, <3>2, <3>3, <3>4, <3>8, <3>5, <3>6, <3>7 DEF OwnLine, Ahead
  <2> QED
    BY <2>2, <2>3
<1>16. Touches(s.on)
  BY <1>2, <1>3, <1>8 DEF Touches
<1>17. ReadsOK'
  BY <1>2, <1>3, <1>16, ReadsDone
<1> QED
  BY <1>11, <1>12, <1>13, <1>14, <1>15, <1>17 DEF Tables, LinesOwn, ReservedIsHeld

(* What pickup writes to the rows of the lines S, where unitOf is the unit   *)
(* handed over on a line.                                                    *)
PickedRows(S, unitOf) ==
  /\ \A n \in DOMAIN holds :
       /\ n \in DOMAIN holds' /\ holds'[n].unit = holds[n].unit /\ holds'[n].item = holds[n].item
       /\ \/ holds'[n] = holds[n]
          \/ /\ holds[n].item \in S /\ holds[n].unit = unitOf[holds[n].item]
             /\ holds'[n].status = "checked_out"
  /\ \A m \in DOMAIN holds' \ DOMAIN holds :
       holds'[m].item \in S /\ holds'[m].unit = unitOf[holds'[m].item]
  /\ \A i \in S : \E n \in DOMAIN holds' :
       holds'[n].item = i /\ holds'[n].unit = unitOf[i] /\ holds'[n].status = "checked_out"

LEMMA PickupRows ==
  ASSUME HInv, NEW h \in Handlers, Pickup(h), NEW unitOf,
         unitOf = [i \in ItemsOf(handler[h].order) |->
                     IF i \in DOMAIN handler[h].swap THEN handler[h].swap[i] ELSE itemUnit[i]],
         \A i \in ItemsOf(handler[h].order) : unitOf[i] \in Units
  PROVE  PickedRows(ItemsOf(handler[h].order), unitOf)
<1> DEFINE
      s == handler[h]
      lines == ItemsOf(s.order)
      uOf(i) == IF i \in DOMAIN s.swap THEN s.swap[i] ELSE itemUnit[i]
      hold(i) == Hold(unitOf[i], i, s.read.from, s.read.to, "checked_out", "pickup")
<1>1. s.read \in OrderRows /\ holds \in Seq(HoldRows)
  BY DEF Pickup, At, HInv, IInv, RowsOK, HandlersOK, HandlerOK, PickupOK
<1>2. \A i \in lines : uOf(i) = unitOf[i]
  OBVIOUS
<1>3. PICK row \in [lines -> 0 .. Len(holds)] :
        /\ \A i \in lines : row[i] \in Candidates(i, uOf(i))
        /\ holds' = [n \in DOMAIN holds |->
                       IF \E i \in lines : row[i] = n
                         THEN [holds[n] EXCEPT !.status = "checked_out",
                                               !.by = IF Live(holds[n]) THEN @ ELSE "revived"]
                         ELSE holds[n]]
                    \o SetToSeq({Hold(uOf(i), i, s.read.from, s.read.to, "checked_out", "pickup") :
                                   i \in {j \in lines : row[j] = 0}})
  BY DEF Pickup
<1> DEFINE
      J == {j \in lines : row[j] = 0}
      new == {hold(i) : i \in J}
      old == [n \in DOMAIN holds |->
                IF \E i \in lines : row[i] = n
                  THEN [holds[n] EXCEPT !.status = "checked_out",
                                        !.by = IF Live(holds[n]) THEN @ ELSE "revived"]
                  ELSE holds[n]]
<1>4. {Hold(uOf(i), i, s.read.from, s.read.to, "checked_out", "pickup") : i \in J} = new
  BY <1>2
<1>5. holds' = old \o SetToSeq(new)
  BY <1>3, <1>4
<1>6. /\ Len(holds) \in Nat /\ DOMAIN holds = 1..Len(holds)
      /\ \A n \in DOMAIN holds : holds[n] \in HoldRows
  BY <1>1, HoldsTyped
<1>7. \A n \in DOMAIN holds : old[n] \in HoldRows
  BY <1>6, ZenonT(60) DEF HoldRows, HoldStatuses
<1>8. \A n \in DOMAIN holds :
        /\ old[n].unit = holds[n].unit /\ old[n].item = holds[n].item
        /\ IF \E i \in lines : row[i] = n THEN old[n].status = "checked_out" ELSE old[n] = holds[n]
  BY <1>6, ZenonT(60) DEF HoldRows
<1>9. old \in Seq(HoldRows) /\ Len(old) = Len(holds)
  <2>1. old = [n \in 1..Len(holds) |-> old[n]]
    BY <1>6
  <2> HIDE DEF old
  <2>2. old \in [1..Len(holds) -> HoldRows]
    BY <1>6, <1>7, <2>1
  <2> QED
    BY <1>6, <2>2, FunctionIsSeq
<1>10. \A i \in lines : i \in Items /\ /\ hold(i).item = i /\ hold(i).unit = unitOf[i]
                       /\ hold(i).status = "checked_out" /\ hold(i) \in HoldRows
  BY <1>1 DEF Hold, HoldRows, HoldStatuses, OrderRows, ItemsOf
<1>11. IsFiniteSet(new)
  <2>1. IsFiniteSet(J)
    BY <1>10, FS_Subset, RentalAssumption DEF RentalAssumption
  <2> DEFINE f == [i \in J |-> hold(i)]
  <2>2. f \in [J -> new] /\ \A r \in new : \E i \in J : f[i] = r
    OBVIOUS
  <2> HIDE DEF new, J, f
  <2> QED
    BY <2>1, <2>2, ImageFinite
<1>12. (\A t \in new : \E i \in J : t = hold(i)) /\ (\A i \in J : hold(i) \in new)
  OBVIOUS
<1>13. \A i \in J : i \in lines
  OBVIOUS
<1> HIDE DEF new, old, hold
<1>14. new \subseteq HoldRows
  BY <1>10, <1>12, <1>13
<1>15. /\ \A n \in DOMAIN holds : n \in DOMAIN holds' /\ holds'[n] = old[n]
       /\ \A m \in DOMAIN holds' \ DOMAIN holds : holds'[m] \in new
       /\ \A t \in new : \E m \in DOMAIN holds' : holds'[m] = t
  BY <1>1, <1>5, <1>9, <1>11, <1>14, JoinedSet
<1>16. ASSUME NEW i \in lines, row[i] # 0
       PROVE  row[i] \in DOMAIN holds /\ holds[row[i]].item = i /\ holds[row[i]].unit = unitOf[i]
  <2>1. row[i] \in Candidates(i, unitOf[i])
    BY <1>2, <1>3
  <2> QED
    BY <1>16, <2>1 DEF Candidates
<1>17. ASSUME NEW n \in DOMAIN holds
       PROVE  /\ n \in DOMAIN holds' /\ holds'[n].unit = holds[n].unit /\ holds'[n].item = holds[n].item
              /\ \/ holds'[n] = holds[n]
                 \/ /\ holds[n].item \in lines /\ holds[n].unit = unitOf[holds[n].item]
                    /\ holds'[n].status = "checked_out"
  <2>1. n # 0
    BY <1>6
  <2> QED
    BY <1>8, <1>15, <1>16, <2>1
<1>18. ASSUME NEW m \in DOMAIN holds' \ DOMAIN holds
       PROVE  holds'[m].item \in lines /\ holds'[m].unit = unitOf[holds'[m].item]
  BY <1>10, <1>12, <1>13, <1>15
<1>19. ASSUME NEW i \in lines
       PROVE  \E n \in DOMAIN holds' :
                holds'[n].item = i /\ holds'[n].unit = unitOf[i] /\ holds'[n].status = "checked_out"
  <2>1. CASE row[i] = 0
    <3>1. i \in J
      BY <2>1
    <3> QED
      BY <1>10, <1>12, <1>15, <3>1
  <2>2. CASE row[i] # 0
    BY <1>8, <1>15, <1>16, <2>2
  <2> QED
    BY <2>1, <2>2
<1> QED
  BY <1>17, <1>18, <1>19 DEF PickedRows

LEMMA PickupHeld ==
  ASSUME HInv, NEW h \in Handlers, Pickup(h)
  PROVE  Tables' /\ ReadsOK'
<1> DEFINE
      s == handler[h]
      lines == ItemsOf(s.order)
      swapped == {i \in DOMAIN s.swap : s.swap[i] # itemUnit[i]}
<1>1. PickupOK(h) /\ Tables /\ RowsOK
  BY DEF Pickup, At, HInv, IInv, HandlersOK, HandlerOK
<1>2. PICK unitOf :
        unitOf = [i \in lines |-> IF i \in DOMAIN s.swap THEN s.swap[i] ELSE itemUnit[i]]
  OBVIOUS
<1>3. \A i \in lines : i \in Items /\ OrderOf[i] = s.order /\ itemUnit[i] # None
                       /\ unitOf[i] \in Units /\ unitOf[i] \in s.on \cup raced
  BY <1>1, <1>2 DEF PickupOK, ItemsOf, RowsOK
<1>4. PickedRows(lines, unitOf)
  BY <1>2, <1>3, PickupRows
<1>5. /\ Done(h) /\ Rest /\ UNCHANGED returned
      /\ itemUnit' = [i \in Items |->
           IF i \in lines THEN IF i \in DOMAIN s.swap THEN s.swap[i] ELSE itemUnit[i] ELSE itemUnit[i]]
      /\ order' = [order EXCEPT ![s.order] =
                     [@ EXCEPT !.life = "checked_out", !.status = "fulfilled", !.from = Today]]
      /\ loose' = loose \cup swapped \cup {itemUnit[i] : i \in swapped}
      /\ SetUnits({IF i \in DOMAIN s.swap THEN s.swap[i] ELSE itemUnit[i] : i \in lines}, "checked_out")
  BY DEF Pickup
<1>6. \A i \in Items : itemUnit'[i] = IF i \in lines THEN unitOf[i] ELSE itemUnit[i]
  BY <1>2, <1>5
<1>7. \A o \in Orders : order'[o].life = IF o = s.order THEN "checked_out" ELSE order[o].life
  BY <1>1, <1>5 DEF RowsOK, OrderRows
<1>8. UnitsOK' /\ \A u \in Units : unit'[u] = "reserved" => unit[u] = "reserved"
  BY <1>5 DEF SetUnits, UnitsOK
<1>9. \A i \in lines : i \notin loose' => unitOf[i] = itemUnit[i]
  BY <1>2, <1>5
<1>10. \A i \in lines : unitOf[i] # itemUnit[i] => itemUnit[i] \in loose'
  BY <1>2, <1>5
<1>11. raced' = raced /\ loose \subseteq loose' /\ s.order \in s.on
  BY <1>1, <1>5 DEF Rest, PickupOK
<1> HIDE DEF swapped, lines
<1>12. \A n \in DOMAIN holds : holds[n].item \in Items \cup {None}
  BY <1>1, HoldsTyped DEF RowsOK, HoldRows
<1>13. None \notin Units /\ None \notin Items /\ \A i \in Items : OrderOf[i] \in Orders
  BY RentalAssumption DEF RentalAssumption
<1>14. LinesStand'
  <2>1. ASSUME NEW n \in DOMAIN holds', holds'[n].item # None PROVE itemUnit'[holds'[n].item] # None
    <3>1. CASE n \in DOMAIN holds
      BY <1>1, <1>3, <1>4, <1>6, <1>12, <1>13, <2>1, <3>1 DEF PickedRows, Tables, LinesStand
    <3>2. CASE n \notin DOMAIN holds
      BY <1>3, <1>4, <1>6, <1>13, <3>2 DEF PickedRows
    <3> QED
      BY <3>1, <3>2
  <2> QED
    BY <2>1 DEF LinesStand
<1>15. NoStray'
  <2>1. ASSUME NEW n \in DOMAIN holds', holds'[n].item # None, Live(holds'[n]),
               itemUnit'[holds'[n].item] # holds'[n].unit
        PROVE  holds'[n].unit \in raced' \cup loose'
    <3>1. n \in DOMAIN holds
      BY <1>3, <1>4, <1>6, <2>1 DEF PickedRows
    <3>2. holds'[n] = holds[n]
      BY <1>3, <1>4, <1>6, <2>1, <3>1 DEF PickedRows
    <3>3. CASE itemUnit[holds[n].item] # holds[n].unit
      BY <1>1, <1>11, <2>1, <3>1, <3>2, <3>3 DEF Tables, NoStray
    <3>4. CASE itemUnit[holds[n].item] = holds[n].unit
      BY <1>6, <1>10, <1>12, <2>1, <3>1, <3>2, <3>4
    <3> QED
      BY <3>3, <3>4
  <2> QED
    BY <2>1 DEF NoStray
<1>16. ASSUME NEW i \in Items, i \notin loose', OrderOf[i] \notin raced' PROVE OwnLine(i)'
  <2>1. OwnLine(i) /\ OrderOf[i] \in Orders
    BY <1>1, <1>11, <1>13, <1>16 DEF Tables, LinesOwn
  <2>2. CASE OrderOf[i] # s.order
    <3>1. i \notin lines
      BY <1>3, <2>2
    <3>2. RowsKept(i)
      BY <1>4, <3>1 DEF PickedRows, RowsKept
    <3>3. /\ itemUnit'[i] = itemUnit[i] /\ returned \subseteq returned'
          /\ order'[OrderOf[i]].life \in {order[OrderOf[i]].life} \cup Back
      BY <1>5, <1>6, <1>7, <2>1, <2>2, <3>1
    <3> QED
      BY <2>1, <3>2, <3>3, LineKept
  <2>3. CASE OrderOf[i] = s.order
    <3>1. order'[OrderOf[i]].life = "checked_out" /\ itemUnit'[i] = itemUnit[i]
      BY <1>6, <1>7, <1>9, <1>16, <2>1, <2>3
    <3>2. itemUnit[i] # None <=> i \in lines
      BY <2>3 DEF lines, ItemsOf
    <3>3. ASSUME NEW n \in DOMAIN holds', holds'[n].item = i, Live(holds'[n])
          PROVE  holds'[n].unit = itemUnit[i]
      <4>1. CASE n \in DOMAIN holds
        <5>1. CASE holds'[n] = holds[n]
          BY <2>1, <3>3, <4>1, <5>1 DEF OwnLine
        <5>2. CASE holds[n].item \in lines /\ holds[n].unit = unitOf[holds[n].item]
          BY <1>4, <1>9, <1>16, <3>3, <4>1, <5>2 DEF PickedRows
        <5> QED
          BY <1>4, <4>1, <5>1, <5>2 DEF PickedRows
      <4>2. CASE n \notin DOMAIN holds
        BY <1>4, <1>9, <1>16, <3>3, <4>2 DEF PickedRows
      <4> QED
        BY <4>1, <4>2
    <3>4. itemUnit[i] # None => OwnHold(i, "checked_out")'
      BY <1>4, <1>9, <1>16, <3>1, <3>2 DEF PickedRows, OwnHold
    <3>5. "checked_out" \notin Ahead
      BY DEF Ahead
    <3> QED
      BY <3>1, <3>3, <3>4, <3>5 DEF OwnLine
  <2> QED
    BY <2>2, <2>3
<1>17. ASSUME NEW u \in Units, u \notin raced' \cup loose', unit'[u] = "reserved"
       PROVE  Active(u)' # {}
  <2>1. PICK n \in Active(u) : TRUE
    BY <1>1, <1>8, <1>11, <1>17 DEF Tables, ReservedIsHeld
  <2>2. n \in Active(u)'
    BY <1>4, <2>1 DEF PickedRows, Active, LiveOn, Live
  <2> QED
    BY <2>2
<1>18. Touches(s.on)
  <2>1. \A i \in Items : \/ itemUnit'[i] = itemUnit[i]
                         \/ OrderOf[i] \in s.on /\ itemUnit'[i] \in s.on \cup raced' \cup {None}
    BY <1>3, <1>6, <1>11
  <2> QED
    BY <1>5, <1>7, <1>11, <2>1 DEF Touches
<1>19. ReadsOK'
  BY <1>5, <1>11, <1>18, ReadsDone
<1> QED
  BY <1>8, <1>14, <1>15, <1>16, <1>17, <1>19 DEF Tables, LinesOwn, ReservedIsHeld

-----------------------------------------------------------------------------
LEMMA HeldStep == HInv /\ [Next]_vars => HInv'
<1> SUFFICES ASSUME HInv, [Next]_vars PROVE HInv'
  OBVIOUS
<1>1. IInv'
  BY StepKept DEF HInv
<1>2. CASE UNCHANGED vars
  <2>1. Tables'
    BY <1>2 DEF HInv, vars, rowVars, Tables, UnitsOK, LinesStand, NoStray, LinesOwn, OwnLine, OwnHold,
                ReservedIsHeld, Active, LiveOn
  <2>2. ReadsOK'
    BY <1>2 DEF HInv, vars, rowVars, ReadsOK, ReadOK, ReadItems, ReadWrites, ReadExchange, ReadReturn,
                Still, LifeRead, UnitsOf, ItemsOf
  <2> QED
    BY <1>1, <2>1, <2>2 DEF HInv
<1>3. CASE ByHand
  BY <1>1, <1>3, ByHandHeld DEF HInv
<1>4. ASSUME NEW h \in Handlers, Work(h) PROVE HInv'
  BY <1>1, <1>4, QuietHeld, JudgeHeld, AdvanceHeld, ReserveHeld, ExchangeHeld, PickupHeld, SettleHeld,
     CancelHeld, ReturnHeld DEF HInv, Work
<1>5. ASSUME NEW h \in Handlers,
             \/ BeginOrder(h) \/ BeginRental(h) \/ BeginBack(h)
             \/ \E u \in Units, w \in Windows : BeginReserve(h, u, w)
      PROVE  HInv'
  BY <1>1, <1>5, BeginHeld DEF HInv
<1> QED
  BY <1>2, <1>3, <1>4, <1>5 DEF Next

(* A unit shown as reserved has a live reservation, whatever released the    *)
(* others (releaseRentalHolds, releaseReservation, returnSettle, cancel,     *)
(* exchange, returns), for any orders, lines, units and handlers; but for    *)
(* the units two requests worked on at once or pickup took off a line.       *)
THEOREM ReservedUnitsAreHeld == Spec => []ReservedIsHeld
<1>1. HInv => ReservedIsHeld
  BY DEF HInv, Tables
<1> QED
  BY <1>1, InitHeld, HeldStep, PTL DEF Spec

(* The reservations of a line are those the life cycle of its order calls    *)
(* for (changeRentalLifecycle, exchange, pickup, cancel, returns), for any   *)
(* orders, lines, units and handlers; but for the orders two requests worked *)
(* on at once and the loose lines.                                           *)
THEOREM HoldsFollowTheOrder == Spec => []HoldsAgree
<1>1. HInv => HoldsAgree
  BY DEF HInv, Tables, LinesOwn, OwnLine, HoldsAgree, ItemsOf, Ahead
<1> QED
  BY <1>1, InitHeld, HeldStep, PTL DEF Spec
=============================================================================
