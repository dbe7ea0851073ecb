------------------------------- MODULE MCSale -------------------------------
(***************************************************************************)
(* Small instances of a Stripe sale for TLC.  The order costs 3.           *)
(***************************************************************************)
EXTENDS StripeSale, TLC

CONSTANTS card1, card2, cash1, h1, h2, tea, cup

(* One card intent of 2 and a cash tender of 2, of which 1 is due. *)
SplitAmount == (card1 :> 2) @@ (cash1 :> 2)
CardAmount == card1 :> 3
RecoveryAmount == (card1 :> 2) @@ (card2 :> 1) @@ (cash1 :> 2)

Cup == [lv |-> cup, qty |-> 1, recipe |-> FALSE]
Cups == [lv |-> cup, qty |-> 2, recipe |-> FALSE]
Tea == [lv |-> tea, qty |-> 1, recipe |-> TRUE]

MixedLines == <<Cup, Tea, Cups>>
TrackedLines == <<Cup, Cups>>

Plenty == (tea :> 2) @@ (cup :> 6)
Exact == (tea :> 1) @@ (cup :> 3) \* nothing left once the sale is served
=============================================================================
