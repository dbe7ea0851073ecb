------------------------------ MODULE MCStock ------------------------------
(***************************************************************************)
(* Small instances of the stock engine for TLC: two products with a common *)
(* component, sold by two sessions whose requests collide on levels (in    *)
(* both orders) and on idempotency keys.                                   *)
(***************************************************************************)
EXTENDS StockRefinement, TLC

CONSTANTS tea, kit, milk, w1, w2, k1, k2

MCLevels == {tea, kit, milk}
MCWorkers == {w1, w2}
MCKeys == {k1, k2}

(* tea is a recipe that uses milk; kit is a bundle that ships one milk. *)
MCLines == (tea :> <<[lv |-> milk, qty |-> 1]>>) @@
           (kit :> <<[lv |-> milk, qty |-> 1]>>) @@
           (milk :> <<>>)

MCOpening == (tea :> 0) @@ (kit :> 2) @@ (milk :> 3)

Call0(kind, l, q, k) ==
  [kind |-> kind, lv |-> l, qty |-> q, dmg |-> 0, key |-> k, neg |-> FALSE,
   comp |-> FALSE, before |-> 0]

Sale(l, q, k) == Call0("mutate", l, -q, k)
Receipt(l, q, k) == Call0("mutate", l, q, k)
Hold(l, q) == Call0("reserve", l, q, NoKey)
Forced(l, q) == [Call0("mutate", l, -q, NoKey) EXCEPT !.neg = TRUE]
Damage(l, q, k) == [Call0("mutate", l, -q, k) EXCEPT !.dmg = q]
Repair(l, q, k) == [Call0("mutate", l, q, k) EXCEPT !.dmg = -q]

(* Retries and collisions on keys; opposite lock orders; a recipe and a     *)
(* bundle that consume the same component.                                  *)
SaleRequests ==
  { <<Sale(kit, 1, k1)>>,                       \* locks kit, then milk
    <<Sale(milk, 2, k2), Sale(kit, 1, k1)>>,    \* locks milk, then kit
    <<Sale(tea, 1, k2)>>,                       \* a recipe under the same key
    <<Receipt(milk, 1, k1)>> }                  \* another call with key k1

(* Reservations against sales, damage, and a kitchen that forces stock. *)
HoldRequests ==
  { <<Hold(milk, 2)>>,
    <<Hold(milk, -1), Sale(milk, 1, NoKey)>>,
    ConsumeComponents(tea, 2),                  \* consumeForParent
    RestoreComponents(tea, 1),                  \* restoreForParent
    <<Damage(kit, 1, k1)>>, <<Repair(kit, 1, k2)>>,
    <<Forced(kit, 2), Hold(kit, 1)>> }

AllRequests == SaleRequests \cup HoldRequests
=============================================================================
