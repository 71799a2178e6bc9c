--------------------------- MODULE MC_Book_walk ----------------------------
(* Books and requests for TLC: offers with and without a least fill, one   *)
(* that only fills whole between two that do not, and requests that end    *)
(* before, inside and beyond each of them.                                 *)
EXTENDS BookWalk

Offer(seq, btc, minFill) == [seq |-> seq, btc |-> btc, minFill |-> minFill]

MCBooks == { [side |-> "buy",  offers |-> << Offer(2, 3, 0), Offer(3, 5, 3), Offer(4, 9, 0) >>],
             [side |-> "sell", offers |-> << Offer(3, 3, 2), Offer(4, 3, 2) >>],
             [side |-> "sell", offers |-> << Offer(2, 3, 0), Offer(4, 2, 0), Offer(4, 1, 0) >>] }
MCWants == {2, 3, 5, 6, 9}
=============================================================================
