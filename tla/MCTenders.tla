------------------------------ MODULE MCTenders ------------------------------
(***************************************************************************)
(* Small instances of the counter tenders for TLC.  The order costs 3.     *)
(***************************************************************************)
EXTENDS Tenders

CONSTANTS k1, k2, k3, k4, k5, h1, h2

OpeningCredit == [w \in Wallets |-> IF w = "credit" THEN 2 ELSE 1]

Pay(k, m, a) == [op |-> "pay", key |-> k, method |-> m, amount |-> a]
Refund(k, p, a) == [op |-> "refund", key |-> k, parent |-> p, amount |-> a]
Adjustment(a) == [op |-> "adjust", amount |-> a]
Movement(a) == [op |-> "move", amount |-> a]
Opening == [op |-> "open", float |-> 1]

(* Tenders of every kind, more than the order costs together, with refunds  *)
(* and the life of the drawer.                                              *)
Counter ==
  {Pay(k1, "cash", 2), Pay(k2, "credit", 2), Pay(k3, "bank", 1),
   Pay(k3, "giftcard", 1), Pay(k3, "cash", 2), Refund(k4, k1, 1), Refund(k5, k1, 2),
   Adjustment(1), Adjustment(-2), Opening, Movement(1), Movement(-1)}

(* Requests that meet: one key, one wallet, one refund twice. *)
Rivals ==
  {Pay(k1, "credit", 2), Pay(k2, "cash", 2), Pay(k3, "bank", 1),
   Pay(k3, "giftcard", 1), Refund(k4, k2, 2), Refund(k5, k2, 1), Adjustment(-1)}
=============================================================================
