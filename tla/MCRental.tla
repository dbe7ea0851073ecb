------------------------------- MODULE MCRental -------------------------------
(* Two rental orders for the same unit, one of which may get a second line. *)
EXTENDS RentalUnits, TLC

CONSTANTS summer, winter, gown, sash, late, dress, veil, h1, h2

MCOrderOf == gown :> summer @@ late :> summer @@ sash :> winter
MCUnit0 == gown :> dress @@ sash :> dress @@ late :> None
MCWindows == {<<1, 1>>, <<2, 2>>}
MCWindow0 == summer :> <<1, 1>> @@ winter :> <<2, 2>>
HandlerSymmetry == Permutations({h1, h2})
=============================================================================
