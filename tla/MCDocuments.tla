----------------------------- MODULE MCDocuments -----------------------------
(* A shop, a store and a sister company with one product, and a kit made of   *)
(* it; one document of each kind.                                             *)
EXTENDS StockDocuments, TLC

CONSTANTS shop, store, sister, kit, move, group, hold, adj, audit, h1, h2

MCTransferOf ==
  move :> [from |-> shop, to |-> store, qty |-> 2, group |-> FALSE]
    @@ group :> [from |-> store, to |-> sister, qty |-> 1, group |-> TRUE]
MCBookingOf == hold :> [lv |-> shop, qty |-> 1]
MCAdjustAt == adj :> store
MCDeltas == {-1, 2}
MCCountAt == audit :> shop
MCParts ==
  [l \in Levels |-> [p \in Levels |-> IF l = kit /\ p = shop THEN 2 ELSE 0]]
MCOpening == shop :> 2 @@ store :> 1 @@ sister :> 0 @@ kit :> 0
=============================================================================
