-------------------------------- MODULE MCBank --------------------------------
(* Instances of Bank for TLC: a customer who is the president, the governor of
   the same kingdom, and a player of a town outside the mainland. *)
EXTENDS Bank, TLC

CONSTANTS president, governor, islander

MCKingdom == (president :> 1) @@ (governor :> 1) @@ (islander :> 0)
MCElected == (president :> {"president"}) @@ (governor :> {"governor"}) @@ (islander :> {})
MCCoins   == (president :> 100) @@ (governor :> 0) @@ (islander :> 0)
MCSavings == (president :> 105) @@ (governor :> 20) @@ (islander :> 0)
===============================================================================
