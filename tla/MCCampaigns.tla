----------------------------- MODULE MCCampaigns -----------------------------
(***************************************************************************)
(* A user who sends two bids at once, and another user.  The prices are a  *)
(* floor of 1000 (charge 1) and twice that.                                *)
(***************************************************************************)
EXTENDS Auction, TLC

CONSTANTS u1, u2, f1, f2, f3

Owners == f1 :> u1 @@ f2 :> u1 @@ f3 :> u2
Bids   == f1 :> 2000 @@ f2 :> 2000 @@ f3 :> 1000
Tops   == f1 :> 3 @@ f2 :> 3 @@ f3 :> 1

SameUser == Permutations({f1, f2})
===============================================================================
