-------------------------- MODULE StockRefinement --------------------------
(***************************************************************************)
(* The engine's transactions are serialisable: seen through the committed  *)
(* rows, every commit is one request executed alone.                       *)
(***************************************************************************)
EXTENDS StockEngine

Atomic == INSTANCE AtomicStock WITH stock <- dbLevel, answers <- dbRow

(* Row locks, the unique key and the rollback together make any interleaving *)
(* of multi-line sales, replays and reservations equal to some serial        *)
(* execution of the requests that committed.                                 *)
Serialisable == Atomic!ASpec
=============================================================================
