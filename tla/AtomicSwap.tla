----------------------------- MODULE AtomicSwap -----------------------------
(***************************************************************************)
(* What a hash-locked swap of coins against goods promises, whoever funds  *)
(* first and whatever crashes: the goods are locked only against locked    *)
(* coins, the secret comes out only while both are locked, and from then   *)
(* on both change hands; before it comes out, both can only go back.       *)
(* ForwardSwap and ReverseSwap implement this specification with BTC as    *)
(* the coins, Submarine with the asset as the coins and a Lightning        *)
(* payment, which reveals the secret as it is taken, as the goods.         *)
(***************************************************************************)
VARIABLES coins, goods, public

swapVars == <<coins, goods, public>>

Places == {"held", "locked", "paid", "returned"}

TypeOK == coins \in Places /\ goods \in Places /\ public \in BOOLEAN

Init == coins = "held" /\ goods = "held" /\ public = FALSE

LockCoins ==
    /\ coins = "held" /\ coins' = "locked"
    /\ UNCHANGED <<goods, public>>

LockGoods ==
    /\ goods = "held" /\ coins = "locked" /\ goods' = "locked"
    /\ UNCHANGED <<coins, public>>

Reveal ==
    /\ ~public /\ coins = "locked" /\ goods = "locked" /\ public' = TRUE
    /\ UNCHANGED <<coins, goods>>

RevealAndTake ==
    /\ ~public /\ coins = "locked" /\ goods = "locked"
    /\ public' = TRUE /\ goods' = "paid"
    /\ UNCHANGED coins

TakeGoods ==
    /\ public /\ goods = "locked" /\ goods' = "paid"
    /\ UNCHANGED <<coins, public>>

TakeCoins ==
    /\ public /\ coins = "locked" /\ coins' = "paid"
    /\ UNCHANGED <<goods, public>>

ReturnGoods ==
    /\ ~public /\ goods = "locked" /\ goods' = "returned"
    /\ UNCHANGED <<coins, public>>

ReturnCoins ==
    /\ ~public /\ coins = "locked" /\ coins' = "returned"
    /\ UNCHANGED <<goods, public>>

Next == \/ LockCoins \/ LockGoods \/ Reveal \/ RevealAndTake
        \/ TakeGoods \/ TakeCoins \/ ReturnGoods \/ ReturnCoins

Spec == Init /\ [][Next]_swapVars

\* All or nothing: one side is never paid while the other is given back.
AllOrNothing ==
    /\ ~(coins = "paid" /\ goods = "returned")
    /\ ~(goods = "paid" /\ coins = "returned")
=============================================================================
