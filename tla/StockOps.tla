------------------------------ MODULE StockOps ------------------------------
(***************************************************************************)
(* What one call of the stock mutation engine does to one stock level      *)
(* (inventory/stock-mutation.engine.ts), without transactions: the calls,  *)
(* the rows they read and write, their guards and their effects.           *)
(*                                                                         *)
(* Quantities are integers in base units: toBaseQty has been applied.      *)
(* Batches and serial numbers are not part of this module.                 *)
(***************************************************************************)
EXTENDS Integers, Sequences

CONSTANTS
  Levels,     \* rows of stock_levels: one product at one location
  Keys,       \* idempotency keys of one tenant
  NoKey,      \* a call without an idempotency key
  Opening,    \* on-hand quantity of each level before the first mutation
  Lines,      \* bundle lines (consumeOnSale) of the product of each level
  RecipeOf,   \* levels whose product has a line with a recipe purpose
  Requests    \* transaction bodies the callers run

BundleLine == [lv: Levels, qty: Nat \ {0}]

(***************************************************************************)
(* One call to the engine.  "mutate" is mutateInTx, "reserve" is           *)
(* adjustReserved, and "result" is the last statement of mutateInTx, the   *)
(* update of the idempotency row, which a call leaves behind the calls it  *)
(* makes for the components.  neg is allowNegative, comp is                *)
(* skipComponentExplosion, before is the qtyBefore of a "result".          *)
(***************************************************************************)
Op == [kind: {"mutate", "reserve", "result"}, lv: Levels, qty: Int, dmg: Int,
       key: Keys \cup {NoKey}, neg: BOOLEAN, comp: BOOLEAN, before: Int]

ASSUME ConstantsAssumption ==
  /\ NoKey \notin Keys
  /\ Opening \in [Levels -> Nat]
  /\ Lines \in [Levels -> Seq(BundleLine)]
  /\ RecipeOf \subseteq Levels

ASSUME RequestsAssumption ==
  \A r \in Requests :
    /\ r \in Seq(Op)
    /\ \A i \in 1..Len(r) :
         /\ r[i].kind # "result"
         /\ r[i].qty # 0 \/ r[i].dmg # 0   \* refused before any statement

(* A stock_ledger_entries row, reduced to what the properties tell apart. *)
Entry == [key: Keys \cup {NoKey}, before: Int, delta: Int, after: Int, dmg: Int]

LevelRow == [onHand: Int, reserved: Int, damaged: Nat, ledger: Seq(Entry)]

Result == [lv: Levels, before: Int, delta: Int]

(* The JSON of an idempotency row: {pending: true}, then the result.  "none" *)
(* stands for the absence of a row.                                          *)
NoRow == [st |-> "none"]
PendingRow == [st |-> "pending"]
DoneRow(res) == [st |-> "done", res |-> res]
KeyRow == {NoRow, PendingRow} \cup [st: {"done"}, res: Result]

(* consumeComponents, one call per bundle line, without idempotency key.   *)
(* Lines whose need rounds to zero are skipped by the code and are not in  *)
(* Lines.                                                                  *)
ComponentOps(l, q) ==
  [i \in 1..Len(Lines[l]) |->
     [kind |-> "mutate", lv |-> Lines[l][i].lv, qty |-> q * Lines[l][i].qty,
      dmg |-> 0, key |-> NoKey, neg |-> FALSE, comp |-> TRUE, before |-> 0]]

ConsumeComponents(l, q) == ComponentOps(l, -q)
RestoreComponents(l, q) == ComponentOps(l, q)

(* The call is a sale of a recipe: its components move, the parent does not. *)
IsRecipeParent(op) == ~op.comp /\ op.qty < 0 /\ op.lv \in RecipeOf

(* Faults of the guards: reservations, or the damaged quantity, forgotten. *)
AllowedFromReserved(op, lv) ==
  (op.neg \/ lv.onHand + op.qty >= 0) /\ lv.damaged + op.dmg >= 0
AllowedAnyDamage(op, lv) ==
  op.neg \/ op.qty >= 0 \/ lv.onHand - lv.reserved + op.qty >= 0

(* The guards of mutateInTx and of its UPDATE; the row lock makes them one. *)
Allowed(op, lv) ==
  /\ op.neg \/ lv.onHand + op.qty >= 0
  /\ op.neg \/ op.qty >= 0 \/ lv.onHand - lv.reserved + op.qty >= 0
  /\ lv.damaged + op.dmg >= 0

ReserveAllowed(op, lv) ==
  /\ lv.reserved + op.qty >= 0
  /\ lv.onHand - (lv.reserved + op.qty) >= 0

(* Fault: the components of a sale move without a ledger row. *)
MutatedUnlogged(op, lv) ==
  [lv EXCEPT !.onHand = @ + op.qty, !.damaged = @ + op.dmg,
             !.ledger = IF op.comp THEN @
                        ELSE Append(@, [key |-> op.key, before |-> lv.onHand,
                                        delta |-> op.qty, after |-> lv.onHand + op.qty,
                                        dmg |-> op.dmg])]

(* Fault: consecutive component movements are netted into one ledger row. *)
MutatedNetted(op, lv) ==
  LET n == Len(lv.ledger)
      netted == op.key = NoKey /\ n > 0 /\ lv.ledger[n].key = NoKey
      entry == [key |-> op.key, before |-> lv.onHand, delta |-> op.qty,
                after |-> lv.onHand + op.qty, dmg |-> op.dmg] IN
  [lv EXCEPT !.onHand = @ + op.qty, !.damaged = @ + op.dmg,
     !.ledger = IF netted
                THEN [@ EXCEPT ![n].delta = @ + op.qty, ![n].after = lv.onHand + op.qty]
                ELSE Append(@, entry)]

Mutated(op, lv) ==
  LET entry == [key |-> op.key, before |-> lv.onHand, delta |-> op.qty,
                after |-> lv.onHand + op.qty, dmg |-> op.dmg] IN
  [onHand |-> lv.onHand + op.qty, reserved |-> lv.reserved,
   damaged |-> lv.damaged + op.dmg, ledger |-> Append(lv.ledger, entry)]

Reserved(op, lv) == [lv EXCEPT !.reserved = @ + op.qty]

(* Fault: the sale of a recipe returns before it records its result. *)
ResultOpOfMoves(op, before, delta) ==
  IF op.key = NoKey \/ delta = 0 THEN <<>>
  ELSE <<[op EXCEPT !.kind = "result", !.qty = delta, !.before = before]>>

(* The trailing update of the idempotency row, when the call has a key. *)
ResultOp(op, before, delta) ==
  IF op.key = NoKey THEN <<>>
  ELSE <<[op EXCEPT !.kind = "result", !.qty = delta, !.before = before]>>

(* A level at its opening quantity. *)
OpeningRow(l) ==
  [onHand |-> Opening[l], reserved |-> 0, damaged |-> 0, ledger |-> <<>>]

(* The ledger of a level explains its quantity: every entry starts where   *)
(* the one before it ended, from the opening quantity to the one on hand.  *)
Chained(l, lv) ==
  LET n == Len(lv.ledger) IN
  /\ lv.onHand = IF n = 0 THEN Opening[l] ELSE lv.ledger[n].after
  /\ \A i \in 1..n :
       /\ lv.ledger[i].before = IF i = 1 THEN Opening[l] ELSE lv.ledger[i-1].after
       /\ lv.ledger[i].after = lv.ledger[i].before + lv.ledger[i].delta

(* The levels some caller may push below zero. *)
NegativeLevels ==
  {l \in Levels : \E r \in Requests : \E i \in 1..Len(r) :
      r[i].lv = l /\ r[i].kind = "mutate" /\ r[i].neg}
=============================================================================
