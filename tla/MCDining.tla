------------------------------- MODULE MCDining -------------------------------
(* Two tables, one of them reserved, two stations. *)
EXTENDS Dining, TLC

CONSTANTS window, corner, soup, beer, cake, kitchen, bar, visit, none, h1, h2

MCStationOf == soup :> kitchen @@ beer :> bar @@ cake :> kitchen
MCBookingAt == visit :> corner
(* A bill with two items is open at the window. *)
MCOpenAt == window :> 1 @@ corner :> none
MCBill == soup :> 1 @@ beer :> 1 @@ cake :> none
=============================================================================
