------------------------------ MODULE MCReturns ------------------------------
(* A sale of two levels, two returns, an exchange and their approval. *)
EXTENDS SaleReturns, TLC

CONSTANTS shirt, cap, k1, k2, x, h1, h2

MCSold == shirt :> 2 @@ cap :> 1
MCPrice == shirt :> 2 @@ cap :> 3
MCOpening == shirt :> 0 @@ cap :> 1

Take(l, n, ok) == [lv |-> l, qty |-> n, good |-> ok]
Return(k, lines, amount, approver) ==
  [op |-> "return", key |-> k, lines |-> lines, amount |-> amount, approver |-> approver]

MCRequests ==
  { Return(k1, <<Take(shirt, 1, TRUE)>>, 0, TRUE),
    Return(k1, <<Take(shirt, 2, TRUE), Take(cap, 1, FALSE)>>, 0, FALSE),
    Return(k2, <<Take(shirt, 1, FALSE)>>, 1, FALSE),
    Return(k2, <<Take(cap, 1, TRUE), Take(shirt, 1, TRUE)>>, 5, TRUE),
    [op |-> "exchange", key |-> x, lines |-> <<Take(shirt, 1, TRUE)>>,
     replace |-> <<[lv |-> cap, qty |-> 1]>>] }
  \cup [op: {"approve", "reject"}, key: {k1, k2}]

HandlerSymmetry == Permutations(Handlers)
=============================================================================
