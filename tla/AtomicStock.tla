---------------------------- MODULE AtomicStock ----------------------------
(***************************************************************************)
(* What the stock engine promises its callers: every request is executed   *)
(* as a whole, alone, on the committed stock, or not at all.  There are no *)
(* sessions, locks or half-done calls here; StockRefinement shows that the *)
(* engine's interleaved transactions implement this.                       *)
(***************************************************************************)
EXTENDS StockOps, SequencesExt

VARIABLES
  stock,     \* the levels, with their ledgers
  answers    \* what is recorded for each idempotency key

avars == <<stock, answers>>

(* The state a request works on; ok says that no call was refused so far. *)
Snapshot == [stock |-> stock, answers |-> answers, ok |-> TRUE]

Reserve(s, op) ==
  IF ReserveAllowed(op, s.stock[op.lv])
  THEN [s EXCEPT !.stock[op.lv] = Reserved(op, @)]
  ELSE [s EXCEPT !.ok = FALSE]

(* A component call: it has no key and no components of its own. *)
Move(s, op) ==
  IF s.ok /\ Allowed(op, s.stock[op.lv])
  THEN [s EXCEPT !.stock[op.lv] = Mutated(op, @)]
  ELSE [s EXCEPT !.ok = FALSE]

Consume(s, op) == FoldLeft(Move, s, ConsumeComponents(op.lv, -op.qty))

Answer(s, op, before, delta) ==
  IF op.key = NoKey THEN s
  ELSE [s EXCEPT !.answers[op.key] =
          DoneRow([lv |-> op.lv, before |-> before, delta |-> delta])]

(* One mutateInTx, with what it recursively does to the components. *)
Mutate(s, op) ==
  LET before == s.stock[op.lv].onHand
      moved == IF IsRecipeParent(op) THEN s ELSE Move(s, op)
      delta == IF IsRecipeParent(op) THEN 0 ELSE op.qty IN
  IF op.key # NoKey /\ s.answers[op.key].st = "done" THEN s
  ELSE Answer(IF ~op.comp /\ op.qty < 0 THEN Consume(moved, op) ELSE moved,
              op, before, delta)

Do(s, op) ==
  IF ~s.ok THEN s
  ELSE IF op.kind = "reserve" THEN Reserve(s, op) ELSE Mutate(s, op)

AInit ==
  /\ stock = [l \in Levels |-> OpeningRow(l)]
  /\ answers = [k \in Keys |-> NoRow]

Execute(r) ==
  LET done == FoldLeft(Do, Snapshot, r) IN
  /\ done.ok
  /\ stock' = done.stock
  /\ answers' = done.answers

ANext == \E r \in Requests : Execute(r)

ASpec == AInit /\ [][ANext]_avars
=============================================================================
