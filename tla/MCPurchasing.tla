----------------------------- MODULE MCPurchasing -----------------------------
(* One order of two boxes of screws, two to a box, and one hammer. *)
EXTENDS Purchasing, TLC

CONSTANTS po, screws, hammer, h1, h2

MCOrdered == po :> (screws :> 2 @@ hammer :> 1)
MCCost == screws :> 1 @@ hammer :> 2
MCPer == screws :> 2 @@ hammer :> 1
MCOpening == screws :> 0 @@ hammer :> 1
MCClientNumbers == {<<"credit", 2>>}
MCBatches == {screws :> 1 @@ hammer :> 0, screws :> 1 @@ hammer :> 1}
=============================================================================
