-------------------------- MODULE SubmarineProofs ---------------------------
(***************************************************************************)
(* Why a trade over Lightning is an atomic swap, for every timelock, margin *)
(* and number of faults, and what the switches of Submarine protect.       *)
(*                                                                         *)
(* The two directions are two arguments.  A buyer is safe because its gate *)
(* leaves time for the worst the payment may take (BuyTimes) and because   *)
(* from the gate on both stored copies can claim (BuyRecords), so the rate *)
(* of a wallet that is back in time applies.  A seller is safe because the *)
(* hook refunds only after it read that the payment was not held, at a     *)
(* height at which the maker can no longer pay (SellTimes).                *)
(*                                                                         *)
(* A walk runs such trades one after another over the offers of a book;    *)
(* the second part is about BookWalk, for every book and request.  Its     *)
(* amounts are sums over plans and records of any length, so it begins     *)
(* with an induction of its own: a set of numbers that holds 0 and the     *)
(* successor of each of its members is all of Nat, since what is left out  *)
(* would have a least member.  The third part is about the arithmetic of   *)
(* terms, sizes, delays, fees and price readings, for every amount: it     *)
(* rests on what a division rounded down or up is (DivAbove, CeilDivBelow). *)
(* The last is about the leaf maker's ladder and merges, for every holding *)
(* and purse: sums over finite sets (SumOut), sums of the first slices     *)
(* (First), and the n lowest of an ordered set (LowestIs).                 *)
(***************************************************************************)
EXTENDS Submarine, BookWalk, PriceTerms, FiniteSetTheorems, WellFoundedInduction,
        TLAPS

\* A buyer's payment is settled, and the wallet back with its claim, within
\* what the gate allows for.
Prompt == Drift + SettleBy + Absence <= Cltv

BuyShape ==
    /\ driver \in {"off", "terms", "locked", "anchor", "pay", "paying", "claim", "close"}
    /\ tick \in {"idle", "claim", "repay", "learn", "close"}
    /\ ln \in {"none", "inflight", "settled", "failed"}
    /\ driver \in {"terms", "locked", "anchor", "pay"} => ln = "none"

\* Where the preimage is, and what a claim took.
BuySecret ==
    /\ rec.p \/ rescue.p \/ tick = "claim" \/ driver = "claim" => ln = "settled"
    /\ tick = "close" \/ driver = "close" => htlc = "claimed"
    /\ htlc = "claimed" => ln = "settled"

BuyTimes ==
    /\ htlc = "refunded" => seq >= TSeq
    /\ driver = "pay" =>
          htlc = "locked" /\ seq <= mark + Drift /\ mark + Cltv + Margin < TSeq
    /\ ln = "inflight" =>
          htlc \in {"locked", "refunded"} /\ mark + SettleBy + Absence + Margin < TSeq
    /\ ln = "settled" =>
          /\ htlc \in {"locked", "claimed"} /\ mark + Absence + Margin < TSeq
          /\ htlc = "locked" => seq <= mark + Absence

CanClaimFrom(r) ==
    r.leg = "funded" /\ (r.state = "paying" \/ (r.state = "claiming" /\ r.p))
BuyRecords ==
    (driver = "pay" \/ ln \in {"inflight", "settled"}) /\ htlc = "locked"
        => CanClaimFrom(rec) /\ CanClaimFrom(rescue)

BuyInv == Buy => BuyShape /\ BuySecret /\ BuyTimes /\ BuyRecords

SellShape ==
    /\ driver \in {"off", "terms", "mint", "fund", "conf", "watch", "settle", "close"}
    /\ tick \in {"idle", "find", "found", "status", "settle", "tip", "refund", "close",
                 "refunded"}
    /\ ~open => driver = "off" /\ tick = "idle"
    /\ driver = "terms" => ln = "none"
    /\ driver \in {"terms", "mint"} => tick = "idle" /\ rec.leg = "none"
    /\ driver \in {"terms", "mint", "fund"} => htlc = "none"

SellTimes ==
    /\ ln = "inflight" => htlc = "locked"
    /\ ln = "settled" => htlc \in {"locked", "claimed"}
    /\ htlc = "claimed" \/ tick = "close" \/ driver = "close" => ln = "settled"
    /\ tick = "refunded" => htlc = "refunded"
    /\ tick = "tip" =>
          /\ readAt <= seq /\ seq <= readAt + Drift
          /\ ln \in {"inflight", "settled"} => readAt + Cltv < TSeq
    /\ tick = "refund" => seq >= TSeq /\ ln \notin {"inflight", "settled"}

Reclaims(r) ==
    r.p /\ \/ r.leg = "planned" /\ r.state = "funding"
           \/ r.leg = "funded" /\ r.state = "settling"
SellRecords ==
    (driver = "fund" \/ htlc \in {"seen", "locked"}) /\ ln # "settled"
        => Reclaims(rec) /\ Reclaims(rescue)

SellInv == Sell => SellShape /\ SellTimes /\ SellRecords

TradeInv == TypeOK /\ BuyInv /\ SellInv
-----------------------------------------------------------------------------
LEMMA InitTrade == Init => TradeInv
  <1> SUFFICES ASSUME Init PROVE TradeInv OBVIOUS
  <1> USE HeightsAssumption DEF Init
  <1>1. TypeOK
    BY DEF TypeOK, Records, States, Terminal, NewRec, NoRec, DriverPcs, TickPcs
  <1>2. BuyInv
    BY DEF Buy, BuyInv, BuyShape, BuySecret, BuyTimes, BuyRecords, NewRec, NoRec
  <1>3. SellInv
    BY DEF Sell, SellInv, SellShape, SellTimes, SellRecords, NewRec, NoRec
  <1> QED BY <1>1, <1>2, <1>3 DEF TradeInv

LEMMA CaughtIsRecord == ASSUME rec \in Records PROVE Caught \in Records
  BY DEF Caught, Records, States, Terminal

LEMMA NoRecIsRecord == NoRec \in Records
  BY DEF NoRec, NewRec, Records, States, Terminal

LEMMA TypeStep == ASSUME TypeOK, [Next]_vars PROVE TypeOK'
  <1> USE NoRecIsRecord
      DEF TypeOK, DriverPcs, TickPcs, Fault, Save, SaveBoth, Drop,
          SettleHold, tradeVars, storeVars, pageVars
  <1>1. ASSUME World PROVE TypeOK'
    BY <1>1 DEF World, MineSeq, HtlcDeepens, MakerLocks, MakerUnlocks, MakerRefunds,
           NothingRests, MakerPays, MakerSettles, NodeSettles, PaymentFails, MakerClaims
  <1>2. ASSUME DriverAsks PROVE TypeOK'
    <2>1. [rec EXCEPT !.state = "awaiting-lock"] \in Records
      BY DEF Records, States, Terminal
    <2> QED BY <1>2, <2>1 DEF DriverAsks
  <1>3. ASSUME DriverVerifies PROVE TypeOK'
    <2>1. [rec EXCEPT !.state = "anchor-wait"] \in Records
      BY DEF Records, States, Terminal
    <2> QED BY <1>3, <2>1, CaughtIsRecord DEF DriverVerifies
  <1>4. ASSUME DriverGates PROVE TypeOK'
    <2>1. [rec EXCEPT !.state = "paying", !.leg = "funded"] \in Records
      BY DEF Records, States, Terminal
    <2> QED BY <1>4, <2>1, CaughtIsRecord DEF DriverGates
  <1>5. ASSUME DriverPays PROVE TypeOK'
    BY <1>5 DEF DriverPays
  <1>6. ASSUME DriverLearns PROVE TypeOK'
    <2>1. [rec EXCEPT !.state = "claiming", !.p = TRUE] \in Records
      BY DEF Records, States, Terminal
    <2> QED BY <1>6, <2>1, CaughtIsRecord DEF DriverLearns
  <1>7. ASSUME DriverClaims PROVE TypeOK'
    BY <1>7, CaughtIsRecord DEF DriverClaims
  <1>8. ASSUME DriverCloses PROVE TypeOK'
    <2>1. [rec EXCEPT !.state = "settled"] \in Records
      BY DEF Records, States, Terminal
    <2> QED BY <1>8, <2>1 DEF DriverCloses
  <1>9. ASSUME DriverMints PROVE TypeOK'
    BY <1>9, CaughtIsRecord DEF DriverMints
  <1>10. ASSUME DriverPlans PROVE TypeOK'
    <2>1. [rec EXCEPT !.state = "funding", !.leg = "planned", !.p = TRUE] \in Records
      BY DEF Records, States, Terminal
    <2> QED BY <1>10, <2>1 DEF DriverPlans
  <1>11. ASSUME DriverFunds PROVE TypeOK'
    BY <1>11 DEF DriverFunds
  <1>12. ASSUME DriverAnnounces PROVE TypeOK'
    <2>1. [rec EXCEPT !.state = "settling", !.leg = "funded", !.p = TRUE] \in Records
      BY DEF Records, States, Terminal
    <2> QED BY <1>12, <2>1 DEF DriverAnnounces
  <1>13. ASSUME DriverWatches PROVE TypeOK'
    BY <1>13 DEF DriverWatches
  <1>14. ASSUME DriverSettles PROVE TypeOK'
    BY <1>14 DEF DriverSettles
  <1>15. ASSUME DriverThrows PROVE TypeOK'
    BY <1>15, CaughtIsRecord DEF DriverThrows
  <1>16. ASSUME TickStarts PROVE TypeOK'
    <2>1. Block(rec) \in TickPcs
      BY DEF Block
    <2>2. tick' \in TickPcs /\ UNCHANGED <<rec, tradeVars, open, driver, readAt, faults>>
      BY <1>16, <2>1 DEF TickStarts
    <2>3. listed' \in BOOLEAN /\ rescue' \in Records
      BY <1>16 DEF TickStarts
    <2> QED BY <2>2, <2>3
  <1>17. ASSUME TickClaims PROVE TypeOK'
    BY <1>17 DEF TickClaims
  <1>18. ASSUME TickRepays PROVE TypeOK'
    BY <1>18 DEF TickRepays
  <1>19. ASSUME TickLearns PROVE TypeOK'
    BY <1>19 DEF TickLearns
  <1>20. ASSUME TickCloses PROVE TypeOK'
    <2>1. [rec EXCEPT !.state = "settled", !.p = TRUE] \in Records
      BY DEF Records, States, Terminal
    <2> QED BY <1>20, <2>1 DEF TickCloses
  <1>21. ASSUME TickFinds PROVE TypeOK'
    <2>1. /\ tick' \in {"idle", "found"}
          /\ UNCHANGED <<rec, tradeVars, open, driver, readAt, faults>>
      BY <1>21 DEF TickFinds
    <2>2. listed' \in BOOLEAN /\ rescue' \in Records
      BY <1>21 DEF TickFinds
    <2> QED BY <2>1, <2>2
  <1>22. ASSUME TickFound PROVE TypeOK'
    <2>1. [rec EXCEPT !.state = "settling", !.leg = "funded"] \in Records
      BY DEF Records, States, Terminal
    <2> QED BY <1>22, <2>1 DEF TickFound
  <1>23. ASSUME TickReadsStatus PROVE TypeOK'
    BY <1>23 DEF TickReadsStatus
  <1>24. ASSUME TickSettles PROVE TypeOK'
    BY <1>24 DEF TickSettles
  <1>25. ASSUME TickReadsTip PROVE TypeOK'
    BY <1>25 DEF TickReadsTip
  <1>26. ASSUME TickRefunds PROVE TypeOK'
    BY <1>26 DEF TickRefunds
  <1>27. ASSUME TickRefunded PROVE TypeOK'
    <2>1. [rec EXCEPT !.state = "refunded"] \in Records
      BY DEF Records, States, Terminal
    <2> QED BY <1>27, <2>1 DEF TickRefunded
  <1>28. ASSUME TickThrows PROVE TypeOK'
    BY <1>28 DEF TickThrows
  <1>29. ASSUME UserClears PROVE TypeOK'
    <2>1. listed' \in BOOLEAN /\ rescue' = NoRec /\ UNCHANGED <<rec, tradeVars, pageVars>>
      BY <1>29 DEF UserClears
    <2> QED BY <2>1
  <1>30. ASSUME Reaps PROVE TypeOK'
    <2>1. [rec EXCEPT !.state = "failed"] \in Records
      BY DEF Records, States, Terminal
    <2> QED BY <1>30, <2>1 DEF Reaps
  <1>31. ASSUME PageCloses PROVE TypeOK'
    <2>1. faults' \in Nat
      BY <1>31 DEF PageCloses
    <2>2. open' = FALSE /\ driver' = "off" /\ tick' = "idle"
          /\ UNCHANGED <<tradeVars, storeVars, readAt>>
      BY <1>31 DEF PageCloses
    <2> QED BY <2>1, <2>2
  <1>32. ASSUME PageOpens PROVE TypeOK'
    BY <1>32 DEF PageOpens
  <1>33. ASSUME UNCHANGED vars PROVE TypeOK'
    BY <1>33 DEF vars
  <1> QED
    BY <1>1, <1>2, <1>3, <1>4, <1>5, <1>6, <1>7, <1>8, <1>9, <1>10, <1>11, <1>12, <1>13,
       <1>14, <1>15, <1>16, <1>17, <1>18, <1>19, <1>20, <1>21, <1>22, <1>23, <1>24,
       <1>25, <1>26, <1>27, <1>28, <1>29, <1>30, <1>31, <1>32, <1>33 DEF Next, Driver,
       Tick
-----------------------------------------------------------------------------
(* The buyer.                                                              *)

LEMMA BuyStep ==
    ASSUME TypeOK, BuyInv, Buy, [Next]_vars, Prompt, ~RepayGoesOut, ~LateReorg
    PROVE  BuyInv'
  <1> USE HeightsAssumption
      DEF Buy, Sell, BuyInv, BuyShape, BuySecret, BuyTimes, BuyRecords, CanClaimFrom,
          Prompt, TypeOK, Records, Fault, Save, SaveBoth, Drop, tradeVars, storeVars,
          pageVars
  <1>1. ASSUME MineSeq PROVE BuyInv'
    BY <1>1 DEF MineSeq, CanClaim, Recovers, Stored, LookUpAllowed, Terminal
  <1>2. ASSUME HtlcDeepens PROVE BuyInv'
    BY <1>2 DEF HtlcDeepens
  <1>3. ASSUME MakerLocks PROVE BuyInv'
    BY <1>3 DEF MakerLocks
  <1>4. ASSUME MakerUnlocks PROVE BuyInv'
    <2>1. UNCHANGED <<kind, seq, ln, mark, storeVars, pageVars>>
      BY <1>4 DEF MakerUnlocks
    <2>2. CASE htlc = "seen" /\ htlc' = "gone"
      BY <2>1, <2>2
    <2>3. CASE htlc = "locked" /\ NothingRests /\ htlc' \in {"seen", "gone"}
      BY <2>1, <2>3 DEF NothingRests
    <2> QED BY <1>4, <2>2, <2>3 DEF MakerUnlocks
  <1>5. ASSUME MakerRefunds PROVE BuyInv'
    BY <1>5 DEF MakerRefunds
  <1>6. ASSUME MakerSettles PROVE BuyInv'
    BY <1>6 DEF MakerSettles
  <1>7. ASSUME PaymentFails PROVE BuyInv'
    BY <1>7 DEF PaymentFails
  <1>8. ASSUME DriverAsks PROVE BuyInv'
    BY <1>8 DEF DriverAsks
  <1>9. ASSUME DriverVerifies PROVE BuyInv'
    BY <1>9 DEF DriverVerifies, Caught
  <1>10. ASSUME DriverGates PROVE BuyInv'
    <2>1. rec.p' = rec.p /\ (rescue.p' => rec.p \/ rescue.p)
      BY <1>10 DEF DriverGates, Caught
    <2>2. ln = "none" /\ ln' = "none" /\ htlc = "locked" /\ htlc' = "locked"
      BY <1>10 DEF DriverGates, LegConfirmed
    <2>3. CASE PayGate
      <3>1. CanClaimFrom(rec') /\ CanClaimFrom(rescue')
        BY <1>10, <2>3 DEF DriverGates
      <3>2. driver' = "pay" /\ mark' = seq /\ seq' = seq /\ tick' = tick /\ kind' = kind
        BY <1>10, <2>3 DEF DriverGates
      <3> QED
        BY <2>1, <2>2, <2>3, <3>1, <3>2 DEF PayGate
    <2>4. CASE ~PayGate
      BY <1>10, <2>1, <2>2, <2>4 DEF DriverGates
    <2> QED BY <2>3, <2>4
  <1>11. ASSUME DriverPays PROVE BuyInv'
    BY <1>11 DEF DriverPays
  <1>12. ASSUME DriverLearns PROVE BuyInv'
    BY <1>12 DEF DriverLearns, Caught
  <1>13. ASSUME DriverClaims PROVE BuyInv'
    BY <1>13 DEF DriverClaims, Caught
  <1>14. ASSUME DriverCloses PROVE BuyInv'
    BY <1>14 DEF DriverCloses
  <1>15. ASSUME DriverThrows PROVE BuyInv'
    BY <1>15 DEF DriverThrows, Caught
  <1>16. ASSUME TickStarts PROVE BuyInv'
    BY <1>16 DEF TickStarts, Block, Terminal, NoRec, NewRec
  <1>17. ASSUME TickClaims PROVE BuyInv'
    BY <1>17 DEF TickClaims
  <1>18. ASSUME TickRepays PROVE BuyInv'
    BY <1>18 DEF TickRepays
  <1>19. ASSUME TickLearns PROVE BuyInv'
    BY <1>19 DEF TickLearns
  <1>20. ASSUME TickCloses PROVE BuyInv'
    BY <1>20 DEF TickCloses
  <1>21. ASSUME TickThrows PROVE BuyInv'
    BY <1>21 DEF TickThrows
  <1>22. ASSUME UserClears PROVE BuyInv'
    BY <1>22 DEF UserClears, NoRec, NewRec
  <1>23. ASSUME Reaps PROVE BuyInv'
    BY <1>23 DEF Reaps
  <1>24. ASSUME PageCloses PROVE BuyInv'
    BY <1>24 DEF PageCloses
  <1>25. ASSUME PageOpens PROVE BuyInv'
    BY <1>25 DEF PageOpens, NoRec, NewRec
  <1>26. ASSUME \/ MakerPays \/ NodeSettles \/ MakerClaims \/ DriverMints \/ DriverPlans \/ DriverFunds
               \/ DriverAnnounces \/ DriverWatches \/ DriverSettles
               \/ TickFinds \/ TickFound \/ TickReadsStatus \/ TickSettles
               \/ TickReadsTip \/ TickRefunds \/ TickRefunded
        PROVE  FALSE
    BY <1>26 DEF MakerPays, NodeSettles, MakerClaims, DriverMints, DriverPlans, DriverFunds,
           DriverAnnounces, DriverWatches, DriverSettles, TickFinds, TickFound,
           TickReadsStatus, TickSettles, TickReadsTip, TickRefunds, TickRefunded
  <1>27. ASSUME UNCHANGED vars PROVE BuyInv'
    BY <1>27 DEF vars
  <1> QED
    BY <1>1, <1>2, <1>3, <1>4, <1>5, <1>6, <1>7, <1>8, <1>9, <1>10, <1>11, <1>12, <1>13,
       <1>14, <1>15, <1>16, <1>17, <1>18, <1>19, <1>20, <1>21, <1>22, <1>23, <1>24,
       <1>25, <1>26, <1>27 DEF Next, World, Driver, Tick
-----------------------------------------------------------------------------
(* The seller.                                                             *)

\* What the seller's refund needs of the world: the maker pays no later than
\* leaves its payment time to resolve, and a payment's status is what it is.
Readable == ~StatusFails /\ ~LateMaker /\ Drift <= Cltv

LEMMA SellStep ==
    ASSUME TypeOK, SellInv, Sell, [Next]_vars, Readable, ~TickMidFunding
    PROVE  SellInv'
  <1> USE HeightsAssumption
      DEF Buy, Sell, SellInv, SellShape, SellTimes, SellRecords, Reclaims,
          Readable, TypeOK, Records, Fault, Save, SaveBoth, Drop, tradeVars, storeVars,
          pageVars
  <1>1. ASSUME MineSeq PROVE SellInv'
    BY <1>1 DEF MineSeq
  <1>2. ASSUME HtlcDeepens PROVE SellInv'
    BY <1>2 DEF HtlcDeepens
  <1>3. ASSUME MakerPays \/ NodeSettles PROVE SellInv'
    BY <1>3 DEF MakerPays, NodeSettles
  <1>4. ASSUME PaymentFails PROVE SellInv'
    BY <1>4 DEF PaymentFails
  <1>5. ASSUME MakerClaims PROVE SellInv'
    BY <1>5 DEF MakerClaims
  <1>6. ASSUME DriverMints PROVE SellInv'
    BY <1>6 DEF DriverMints, Caught
  <1>7. ASSUME DriverPlans PROVE SellInv'
    BY <1>7 DEF DriverPlans
  <1>8. ASSUME DriverFunds PROVE SellInv'
    BY <1>8 DEF DriverFunds
  <1>9. ASSUME DriverAnnounces PROVE SellInv'
    BY <1>9 DEF DriverAnnounces
  <1>10. ASSUME DriverWatches PROVE SellInv'
    BY <1>10 DEF DriverWatches, Held
  <1>11. ASSUME DriverSettles PROVE SellInv'
    BY <1>11 DEF DriverSettles, SettleHold, Held
  <1>12. ASSUME DriverCloses PROVE SellInv'
    BY <1>12 DEF DriverCloses
  <1>13. ASSUME DriverThrows PROVE SellInv'
    BY <1>13 DEF DriverThrows, Caught
  <1>14. ASSUME TickStarts PROVE SellInv'
    BY <1>14 DEF TickStarts, Block, Terminal, NoRec, NewRec
  <1>15. ASSUME TickCloses PROVE SellInv'
    BY <1>15 DEF TickCloses
  <1>16. ASSUME TickFinds PROVE SellInv'
    BY <1>16 DEF TickFinds, NoRec, NewRec
  <1>17. ASSUME TickFound PROVE SellInv'
    BY <1>17 DEF TickFound
  <1>18. ASSUME TickReadsStatus PROVE SellInv'
    BY <1>18 DEF TickReadsStatus, StatusRead
  <1>19. ASSUME TickSettles PROVE SellInv'
    BY <1>19 DEF TickSettles, SettleHold, Held
  <1>20. ASSUME TickReadsTip PROVE SellInv'
    BY <1>20 DEF TickReadsTip, RefundOpen
  <1>21. ASSUME TickRefunds PROVE SellInv'
    BY <1>21 DEF TickRefunds
  <1>22. ASSUME TickRefunded PROVE SellInv'
    BY <1>22 DEF TickRefunded
  <1>23. ASSUME TickThrows PROVE SellInv'
    BY <1>23 DEF TickThrows
  <1>24. ASSUME UserClears PROVE SellInv'
    BY <1>24 DEF UserClears, NoRec, NewRec
  <1>25. ASSUME Reaps PROVE SellInv'
    BY <1>25 DEF Reaps
  <1>26. ASSUME PageCloses PROVE SellInv'
    BY <1>26 DEF PageCloses
  <1>27. ASSUME PageOpens PROVE SellInv'
    BY <1>27 DEF PageOpens, NoRec, NewRec
  <1>28. ASSUME \/ MakerLocks \/ MakerUnlocks \/ MakerRefunds \/ MakerSettles
               \/ DriverAsks \/ DriverVerifies \/ DriverGates \/ DriverPays
               \/ DriverLearns \/ DriverClaims
               \/ TickClaims \/ TickRepays \/ TickLearns
        PROVE  FALSE
    BY <1>28 DEF MakerLocks, MakerUnlocks, MakerRefunds, MakerSettles, DriverAsks,
           DriverVerifies, DriverGates, DriverPays, DriverLearns, DriverClaims,
           TickClaims, TickRepays, TickLearns
  <1>29. ASSUME UNCHANGED vars PROVE SellInv'
    BY <1>29 DEF vars
  <1> QED
    BY <1>1, <1>2, <1>3, <1>4, <1>5, <1>6, <1>7, <1>8, <1>9, <1>10, <1>11, <1>12, <1>13,
       <1>14, <1>15, <1>16, <1>17, <1>18, <1>19, <1>20, <1>21, <1>22, <1>23, <1>24,
       <1>25, <1>26, <1>27, <1>28, <1>29 DEF Next, World, Driver, Tick
-----------------------------------------------------------------------------
LEMMA KindIsFixed == ASSUME [Next]_vars PROVE kind' = kind
  BY DEF Next, vars, tradeVars, storeVars, pageVars, World, MineSeq, HtlcDeepens,
         MakerLocks, MakerUnlocks, MakerRefunds, MakerPays, MakerSettles, NodeSettles,
         PaymentFails, MakerClaims, Driver, DriverThrows, DriverAsks, DriverVerifies, DriverGates,
         DriverPays, DriverLearns, DriverClaims, DriverCloses, DriverMints, DriverPlans,
         DriverFunds, DriverAnnounces, DriverWatches, DriverSettles, Tick, TickThrows,
         TickStarts, TickClaims, TickRepays, TickLearns, TickCloses, TickFinds, TickFound,
         TickReadsStatus, TickSettles, TickReadsTip, TickRefunds, TickRefunded,
         UserClears, Reaps, PageCloses, PageOpens

\* For a buyer: a payment goes out once, late settling leaves time to claim, and the
\* confirmed leg its gate accepted stays confirmed, as it waited for no burial of it.
\* For a seller: a status is what is read, and an empty address is not read for
\* one about to be funded.
BuyerCalm  == Prompt /\ ~RepayGoesOut /\ ~LateReorg
SellerCalm == Readable /\ ~TickMidFunding

Calm == BuyerCalm /\ SellerCalm

LEMMA BuyInvariant == ASSUME BuyerCalm PROVE Spec => [](TypeOK /\ BuyInv)
  <1>1. Init => TypeOK /\ BuyInv
    BY InitTrade DEF TradeInv
  <1>2. ASSUME TypeOK, BuyInv, [Next]_vars PROVE TypeOK' /\ BuyInv'
    <2>1. TypeOK'
      BY <1>2, TypeStep
    <2>2. CASE Buy
      BY <1>2, <2>1, <2>2, BuyStep DEF BuyerCalm
    <2>3. CASE ~Buy
      BY <1>2, <2>1, <2>3, KindIsFixed DEF BuyInv, Buy
    <2> QED BY <2>2, <2>3
  <1> QED BY <1>1, <1>2, PTL DEF Spec

LEMMA SellInvariant == ASSUME SellerCalm PROVE Spec => [](TypeOK /\ SellInv)
  <1>1. Init => TypeOK /\ SellInv
    BY InitTrade DEF TradeInv
  <1>2. ASSUME TypeOK, SellInv, [Next]_vars PROVE TypeOK' /\ SellInv'
    <2>1. TypeOK'
      BY <1>2, TypeStep
    <2>2. CASE Sell
      BY <1>2, <2>1, <2>2, SellStep DEF SellerCalm
    <2>3. CASE ~Sell
      BY <1>2, <2>1, <2>3, KindIsFixed DEF SellInv, Sell
    <2> QED BY <2>2, <2>3
  <1> QED BY <1>1, <1>2, PTL DEF Spec

LEMMA TradeInvariant == ASSUME Calm PROVE Spec => []TradeInv
  <1>1. TypeOK /\ BuyInv /\ SellInv => TradeInv
    BY DEF TradeInv
  <1> QED BY BuyInvariant, SellInvariant, <1>1, PTL DEF Calm

\* A buyer who paid never finds the asset taken back (subswap.js 603-654), if the leg
\* its gate accepted at one confirmation is not undone afterwards (swap.js 5612).
THEOREM BuyerSafe == ASSUME BuyerCalm PROVE Spec => []BuyerNeverPaysForNothing
  <1>1. TypeOK /\ BuyInv => BuyerNeverPaysForNothing
    BY DEF BuyInv, BuyTimes, BuyerNeverPaysForNothing
  <1> QED BY BuyInvariant, <1>1, PTL

\* A seller never has the payment and the asset (swap.js 6620-6640).
THEOREM SellerSafe == ASSUME SellerCalm PROVE Spec => []SellerNeverHasBoth
  <1>1. TypeOK /\ SellInv => SellerNeverHasBoth
    BY DEF SellInv, SellTimes, SellerNeverHasBoth
  <1> QED BY SellInvariant, <1>1, PTL

\* No side of a trade ends with both legs, and what the wallet has outstanding is
\* in its list or its rescue copy (subswap.js 586-790, swap.js 6500-6643).
THEOREM TradeSafe == ASSUME Calm PROVE Spec => []TradeIsSafe
  <1>1. TradeInv => TradeIsSafe
    <2> SUFFICES ASSUME TradeInv PROVE TradeIsSafe OBVIOUS
    <2> USE HeightsAssumption DEF TradeInv, TypeOK, Buy, Sell
    <2>1. BuyerNeverPaysForNothing
      BY DEF BuyInv, BuyTimes, BuyerNeverPaysForNothing
    <2>2. SellerNeverHasBoth
      BY DEF SellInv, SellTimes, SellerNeverHasBoth
    <2>3. OutstandingIsOnRecord
      BY DEF BuyInv, BuyRecords, CanClaimFrom, SellInv, SellRecords, Reclaims,
             OutstandingIsOnRecord, Outstanding, Recovers, Terminal
    <2> QED BY <2>1, <2>2, <2>3 DEF TradeIsSafe
  <1> QED BY TradeInvariant, <1>1, PTL
-----------------------------------------------------------------------------
(* The refinement: coins are the asset HTLC, goods the payment.            *)

LEMMA InitRefines == Init => Swap!Init
  BY DEF Init, Swap!Init, Place, Payment

LEMMA Stutters ==
    ASSUME UNCHANGED <<ln, Place(htlc)>> PROVE UNCHANGED Swap!swapVars
  BY DEF Swap!swapVars, Payment

\* What the maker, the chain and the network do to the two legs.
LEMMA WorldRefines ==
    ASSUME TradeInv, World, ~LateReorg PROVE [Swap!Next]_(Swap!swapVars)
  <1> USE HeightsAssumption
      DEF TradeInv, TypeOK, Buy, Sell, BuyInv, BuyTimes, BuyShape, SellInv, SellTimes,
          SellShape, Place, Payment
  <1>1. ASSUME MineSeq \/ HtlcDeepens PROVE UNCHANGED Swap!swapVars
    BY <1>1, Stutters DEF MineSeq, HtlcDeepens
  <1>2. ASSUME MakerLocks PROVE Swap!LockCoins
    BY <1>2 DEF MakerLocks, Swap!LockCoins
  <1>3. ASSUME MakerUnlocks \/ MakerRefunds
        PROVE  Swap!ReturnCoins \/ UNCHANGED Swap!swapVars
    BY <1>3 DEF MakerUnlocks, MakerRefunds, NothingRests, Swap!ReturnCoins, Swap!swapVars
  <1>4. ASSUME MakerPays PROVE Swap!LockGoods
    BY <1>4 DEF MakerPays, Swap!LockGoods
  <1>5. ASSUME MakerSettles \/ NodeSettles PROVE Swap!RevealAndTake
    BY <1>5 DEF MakerSettles, NodeSettles, Swap!RevealAndTake
  <1>6. ASSUME PaymentFails PROVE Swap!ReturnGoods \/ UNCHANGED Swap!swapVars
    BY <1>6 DEF PaymentFails, Swap!ReturnGoods, Swap!swapVars
  <1>7. ASSUME MakerClaims PROVE Swap!TakeCoins
    BY <1>7 DEF MakerClaims, Swap!TakeCoins
  <1> QED
    BY <1>1, <1>2, <1>3, <1>4, <1>5, <1>6, <1>7 DEF World, Swap!Next

LEMMA WalletRefines ==
    ASSUME TradeInv, ~RepayGoesOut,
           \/ Driver \/ DriverThrows \/ Tick \/ TickThrows
           \/ UserClears \/ Reaps \/ PageCloses \/ PageOpens
    PROVE  [Swap!Next]_(Swap!swapVars)
  <1> USE HeightsAssumption
      DEF TradeInv, TypeOK, Buy, Sell, BuyInv, BuyShape, BuySecret, BuyTimes,
          SellInv, SellShape, SellTimes, Place, Payment
  <1>1. ASSUME DriverPays PROVE Swap!LockGoods \/ UNCHANGED Swap!swapVars
    BY <1>1 DEF DriverPays, Swap!LockGoods, Swap!swapVars
  <1>2. ASSUME DriverMints PROVE UNCHANGED Swap!swapVars
    BY <1>2 DEF DriverMints, Swap!swapVars
  <1>3. ASSUME DriverFunds PROVE Swap!LockCoins
    BY <1>3 DEF DriverFunds, Swap!LockCoins
  <1>4. ASSUME DriverSettles \/ TickSettles
        PROVE  Swap!RevealAndTake \/ UNCHANGED Swap!swapVars
    BY <1>4 DEF DriverSettles, TickSettles, SettleHold, Held, Swap!RevealAndTake,
           Swap!swapVars
  <1>5. ASSUME DriverClaims \/ TickClaims \/ TickLearns
        PROVE  Swap!TakeCoins \/ UNCHANGED Swap!swapVars
    BY <1>5 DEF DriverClaims, TickClaims, TickLearns, Swap!TakeCoins, Swap!swapVars
  <1>6. ASSUME TickRefunds PROVE Swap!ReturnCoins \/ UNCHANGED Swap!swapVars
    BY <1>6 DEF TickRefunds, Swap!ReturnCoins, Swap!swapVars
  <1>7. ASSUME \/ DriverAsks \/ DriverVerifies \/ DriverGates \/ DriverLearns
               \/ DriverCloses \/ DriverPlans \/ DriverAnnounces \/ DriverWatches
               \/ DriverThrows \/ TickStarts \/ TickRepays \/ TickCloses \/ TickFinds
               \/ TickFound \/ TickReadsStatus \/ TickReadsTip \/ TickRefunded
               \/ TickThrows \/ UserClears \/ Reaps \/ PageCloses \/ PageOpens
        PROVE  UNCHANGED Swap!swapVars
    <2>1. UNCHANGED <<ln, htlc>>
      BY <1>7 DEF DriverAsks, DriverVerifies, DriverGates, DriverLearns, DriverCloses,
             DriverPlans, DriverAnnounces, DriverWatches, DriverThrows, TickStarts,
             TickRepays, TickCloses, TickFinds, TickFound, TickReadsStatus, TickReadsTip,
             TickRefunded, TickThrows, UserClears, Reaps, PageCloses, PageOpens, tradeVars
    <2> QED BY <2>1, Stutters
  <1> QED
    BY <1>1, <1>2, <1>3, <1>4, <1>5, <1>6, <1>7 DEF Driver, Tick, Swap!Next

\* The wallet's driver, its hook, the maker and the Lightning network together are
\* an atomic swap of the asset against the payment.
THEOREM Implements == ASSUME Calm PROVE Spec => ImplementsAtomicSwap
  <1>1. TradeInv /\ [Next]_vars => [Swap!Next]_(Swap!swapVars)
    <2> SUFFICES ASSUME TradeInv, [Next]_vars PROVE [Swap!Next]_(Swap!swapVars) OBVIOUS
    <2>1. CASE UNCHANGED vars
      BY <2>1, Stutters DEF vars, tradeVars
    <2>2. CASE Next
      BY <2>2, WorldRefines, WalletRefines DEF Next, Calm, BuyerCalm
    <2> QED BY <2>1, <2>2
  <1> QED
    BY InitRefines, TradeInvariant, <1>1, PTL DEF Spec, ImplementsAtomicSwap, Swap!Spec

\* The wallet's state keeps its types, whatever is switched on.
THEOREM TypeCorrect == Spec => []TypeOK
  <1>1. Init => TypeOK
    BY InitTrade DEF TradeInv
  <1> QED BY <1>1, TypeStep, PTL DEF Spec
-----------------------------------------------------------------------------
(* Induction and recursion over the natural numbers                         *)

LEMMA LeastNatural ==
    ASSUME NEW T, T \subseteq Nat, T # {}
    PROVE  \E x \in T : \A y \in T : x <= y
  <1> DEFINE R == OpToRel(<, Nat)
  <1>1. IsWellFoundedOn(R, Nat)
    BY NatLessThanWellFounded
  <1>2. R = {ss \in Nat \X Nat : ss[1] < ss[2]}
    BY Zenon DEF OpToRel
  <1> HIDE DEF R
  <1>3. \A x, y \in Nat : y < x => <<y, x>> \in R
    BY <1>2
  <1>4. PICK x \in T : \A y \in T : ~(<<y, x>> \in R)
    BY <1>1, WFMin
  <1>5. ASSUME NEW y \in T PROVE x <= y
    <2>1. x \in Nat /\ y \in Nat /\ ~(<<y, x>> \in R)
      BY <1>4
    <2> QED BY <1>3, <2>1
  <1> QED BY <1>5

LEMMA Induction ==
    ASSUME NEW S, 0 \in S, \A n \in Nat : n \in S => n + 1 \in S
    PROVE  Nat \subseteq S
  <1> DEFINE T == Nat \ S
  <1> SUFFICES ASSUME T # {} PROVE FALSE
    OBVIOUS
  <1>1. PICK x \in T : \A y \in T : x <= y
    BY LeastNatural
  <1>2. x # 0 /\ x - 1 \in Nat
    OBVIOUS
  <1>3. x - 1 \in S
    BY <1>1, <1>2
  <1> QED BY <1>2, <1>3

\* A recursion over 1 .. n that stays in a set has a solution.
StaysIn(D, F, n) == \A i \in 1 .. n, d \in D : F[<<i, d>>] \in D
Solves(g, b, F, n) == g[0] = b /\ \A i \in 1 .. n : g[i] = F[<<i, g[i - 1]>>]

LEMMA RecursionHolds ==
    ASSUME NEW n \in Nat, NEW D, NEW b \in D, NEW F, StaysIn(D, F, n)
    PROVE  \E g \in [0 .. n -> D] : Solves(g, b, F, n)
  <1> DEFINE S == {k \in Nat : k <= n => \E g \in [0 .. k -> D] : Solves(g, b, F, k)}
  <1>1. 0 \in S
    <2>1. [i \in 0 .. 0 |-> b] \in [0 .. 0 -> D] /\ Solves([i \in 0 .. 0 |-> b], b, F, 0)
      BY DEF Solves
    <2> QED BY <2>1
  <1>2. ASSUME NEW k \in Nat, k \in S PROVE k + 1 \in S
    <2> SUFFICES ASSUME k + 1 <= n
                 PROVE  \E g \in [0 .. k + 1 -> D] : Solves(g, b, F, k + 1)
      OBVIOUS
    <2>1. PICK g \in [0 .. k -> D] : Solves(g, b, F, k)
      BY <1>2
    <2> HIDE DEF S
    <2> DEFINE h == [i \in 0 .. k + 1 |-> IF i = k + 1 THEN F[<<k + 1, g[k]>>] ELSE g[i]]
    <2>2. h[k + 1] = F[<<k + 1, g[k]>>] /\ \A i \in 0 .. k : h[i] = g[i]
      OBVIOUS
    <2>3. h \in [0 .. k + 1 -> D]
      BY DEF StaysIn
    <2> HIDE DEF h
    <2>4. ASSUME NEW i \in 1 .. k + 1 PROVE h[i] = F[<<i, h[i - 1]>>]
      <3>1. CASE i = k + 1
        <4>1. i - 1 = k /\ h[k] = g[k]
          BY <2>2, <3>1
        <4> QED BY <2>2, <3>1, <4>1
      <3>2. CASE i # k + 1
        <4>1. i \in 1 .. k /\ i - 1 \in 0 .. k
          BY <3>2
        <4>2. h[i] = g[i] /\ h[i - 1] = g[i - 1]
          BY <2>2, <4>1
        <4> QED BY <2>1, <4>1, <4>2 DEF Solves
      <3> QED BY <3>1, <3>2
    <2>5. Solves(h, b, F, k + 1)
      BY <2>1, <2>2, <2>4 DEF Solves
    <2> QED BY <2>3, <2>5
  <1>3. n \in S
    <2> HIDE DEF S
    <2> QED BY <1>1, <1>2, Induction
  <1> QED BY <1>3

-----------------------------------------------------------------------------
(* Sums                                                                     *)

Naturals(f, n) == \A i \in 1 .. n : f[i] \in Nat
Adds(g, f, n) == g[0] = 0 /\ \A i \in 1 .. n : g[i] = g[i - 1] + f[i]

LEMMA SumIs ==
    ASSUME NEW f, NEW n \in Nat, Naturals(f, n)
    PROVE  \E g \in [0 .. n -> Nat] : Adds(g, f, n) /\ SumTo(f, n) = g[n]
  <1> DEFINE F == [p \in (1 .. n) \X Nat |-> p[2] + f[p[1]]]
  <1>1. \A i \in 1 .. n, d \in Nat : F[<<i, d>>] = d + f[i]
    OBVIOUS
  <1> HIDE DEF F
  <1>2. StaysIn(Nat, F, n)
    <2> SUFFICES ASSUME NEW i \in 1 .. n, NEW d \in Nat PROVE F[<<i, d>>] \in Nat
      BY DEF StaysIn
    <2>1. F[<<i, d>>] = d + f[i] /\ f[i] \in Nat
      BY <1>1 DEF Naturals
    <2> QED BY <2>1
  <1>3. PICK g \in [0 .. n -> Nat] : Solves(g, 0, F, n)
    BY <1>2, RecursionHolds
  <1>4. Adds(g, f, n)
    <2>1. ASSUME NEW i \in 1 .. n PROVE g[i] = g[i - 1] + f[i]
      <3>1. g[i] = F[<<i, g[i - 1]>>] /\ g[i - 1] \in Nat
        BY <1>3 DEF Solves
      <3> QED BY <1>1, <3>1
    <2> QED BY <1>3, <2>1 DEF Adds, Solves
  <1> DEFINE Rec(s) == s = [i \in 0 .. n |-> IF i = 0 THEN 0 ELSE s[i - 1] + f[i]]
  <1>5. Rec(g)
    BY <1>4 DEF Adds
  <1> DEFINE s == CHOOSE s : Rec(s)
  <1>6. Rec(s)
    BY <1>5, Zenon
  <1>7. SumTo(f, n) = s[n]
    BY Zenon DEF SumTo
  <1> HIDE DEF s
  <1>8. s \in [0 .. n -> Nat] /\ Adds(s, f, n)
    <2>1. Adds(s, f, n)
      BY <1>6 DEF Adds
    <2> DEFINE S == {k \in Nat : k <= n => s[k] \in Nat}
    <2>2. 0 \in S
      BY <2>1 DEF Adds
    <2>3. ASSUME NEW k \in Nat, k \in S PROVE k + 1 \in S
      <3> SUFFICES ASSUME k + 1 <= n PROVE s[k + 1] \in Nat
        OBVIOUS
      <3>1. s[k + 1] = s[k] + f[k + 1] /\ f[k + 1] \in Nat /\ s[k] \in Nat
        BY <2>1, <2>3 DEF Adds, Naturals
      <3> QED BY <3>1
    <2>4. Nat \subseteq S
      <3> HIDE DEF S
      <3> QED BY <2>2, <2>3, Induction
    <2>5. \A k \in 0 .. n : s[k] \in Nat
      BY <2>4
    <2>6. s = [k \in 0 .. n |-> s[k]]
      BY <1>6
    <2> QED BY <2>1, <2>5, <2>6
  <1> QED BY <1>7, <1>8

LEMMA SumUnique ==
    ASSUME NEW f, NEW n \in Nat, Naturals(f, n), NEW g, NEW h,
           Adds(g, f, n), Adds(h, f, n)
    PROVE  g[n] = h[n]
  <1> DEFINE S == {k \in Nat : k <= n => g[k] = h[k]}
  <1>1. 0 \in S
    BY DEF Adds
  <1>2. ASSUME NEW k \in Nat, k \in S PROVE k + 1 \in S
    BY <1>2 DEF Adds
  <1>3. Nat \subseteq S
    <2> HIDE DEF S
    <2> QED BY <1>1, <1>2, Induction
  <1> QED BY <1>3

LEMMA SumStep ==
    ASSUME NEW f, NEW n \in Nat, Naturals(f, n)
    PROVE  /\ SumTo(f, n) \in Nat
           /\ n = 0 => SumTo(f, n) = 0
           /\ n > 0 => SumTo(f, n) = SumTo(f, n - 1) + f[n]
  <1>1. PICK g \in [0 .. n -> Nat] : Adds(g, f, n) /\ SumTo(f, n) = g[n]
    BY SumIs
  <1>2. SumTo(f, n) \in Nat /\ (n = 0 => SumTo(f, n) = 0)
    BY <1>1 DEF Adds
  <1>3. ASSUME n > 0 PROVE SumTo(f, n) = SumTo(f, n - 1) + f[n]
    <2> DEFINE m == n - 1
    <2>1. m \in Nat /\ Naturals(f, m) /\ Adds(g, f, m)
      BY <1>1, <1>3 DEF Naturals, Adds
    <2> HIDE DEF m
    <2>2. PICK h \in [0 .. m -> Nat] : Adds(h, f, m) /\ SumTo(f, m) = h[m]
      BY <2>1, SumIs
    <2>3. g[m] = h[m]
      BY <2>1, <2>2, SumUnique
    <2> QED BY <1>1, <1>3, <2>2, <2>3 DEF m, Adds
  <1> QED BY <1>2, <1>3

LEMMA SumMonotone ==
    ASSUME NEW f, NEW h, NEW n \in Nat, Naturals(f, n), Naturals(h, n),
           \A i \in 1 .. n : f[i] <= h[i]
    PROVE  SumTo(f, n) <= SumTo(h, n)
  <1> DEFINE S == {k \in Nat : k <= n => SumTo(f, k) <= SumTo(h, k)}
  <1>0. \A k \in Nat : k <= n => Naturals(f, k) /\ Naturals(h, k)
    BY DEF Naturals
  <1>1. 0 \in S
    BY <1>0, SumStep
  <1>2. ASSUME NEW k \in Nat, k \in S PROVE k + 1 \in S
    <2> SUFFICES ASSUME k + 1 <= n PROVE SumTo(f, k + 1) <= SumTo(h, k + 1)
      OBVIOUS
    <2>1. /\ SumTo(f, k + 1) = SumTo(f, k) + f[k + 1]
          /\ SumTo(h, k + 1) = SumTo(h, k) + h[k + 1]
      BY <1>0, SumStep
    <2>2. SumTo(f, k) \in Nat /\ SumTo(h, k) \in Nat /\ f[k+1] \in Nat /\ h[k+1] \in Nat
      BY <1>0, SumStep DEF Naturals
    <2> QED BY <1>2, <2>1, <2>2
  <1>3. Nat \subseteq S
    <2> HIDE DEF S
    <2> QED BY <1>1, <1>2, Induction
  <1> QED BY <1>3

LEMMA SumSame ==
    ASSUME NEW f, NEW h, NEW n \in Nat, Naturals(f, n),
           \A i \in 1 .. n : f[i] = h[i]
    PROVE  SumTo(f, n) = SumTo(h, n)
  <1>1. Naturals(h, n)
    BY DEF Naturals
  <1>2. SumTo(f, n) <= SumTo(h, n) /\ SumTo(h, n) <= SumTo(f, n)
    BY <1>1, SumMonotone DEF Naturals
  <1> QED BY <1>1, <1>2, SumStep

-----------------------------------------------------------------------------
(* The plan                                                                 *)

BookOffers == [seq : Nat \ {0}, btc : Nat \ {0}, minFill : Nat]
Sides == {"buy", "sell"}

LEMMA Quotients ==
    ASSUME NEW a \in Nat, NEW b \in Nat \ {0}
    PROVE  a \div b \in Nat /\ CeilDiv(a, b) \in Nat
  BY DEF CeilDiv

\* An offer is never taken beyond what is wanted of it.
LEMMA TakeFits ==
    ASSUME NEW want \in Nat \ {0}, NEW o \in BookOffers, NEW side \in Sides,
           ~SizeSubswapTake(want, o, side).belowMin
    PROVE  /\ SizeSubswapTake(want, o, side).take \in 1 .. want
           /\ SizeSubswapTake(want, o, side).btc \in Nat
  <1>0. /\ want > 0 /\ o.seq \in Nat /\ o.seq > 0 /\ o.btc \in Nat /\ o.minFill \in Nat
    BY DEF BookOffers
  <1>1. CASE want >= o.seq
    <2>1. SizeSubswapTake(want, o, side) = [take |-> o.seq, btc |-> o.btc, belowMin |-> FALSE]
      BY <1>0, <1>1 DEF SizeSubswapTake
    <2> QED BY <1>0, <1>1, <2>1
  <1>2. CASE ~(want >= o.seq)
    <2> DEFINE take == Larger(want, MinFloor(o))
    <2>1. SizeSubswapTake(want, o, side) =
            [take |-> take, btc |-> SubswapPrice(o.btc, take, o.seq, side),
             belowMin |-> want < MinFloor(o)]
      BY <1>0, <1>2 DEF SizeSubswapTake
    <2>2. MinFloor(o) \in Nat
      BY <1>0 DEF MinFloor, Smaller
    <2>3. ~(want < MinFloor(o))
      <3> DEFINE below == want < MinFloor(o)
                 price == SubswapPrice(o.btc, take, o.seq, side)
      <3>1. SizeSubswapTake(want, o, side) = [take |-> take, btc |-> price, belowMin |-> below]
        BY <2>1
      <3> HIDE DEF below, take, price
      <3>2. SizeSubswapTake(want, o, side).belowMin = below
        BY <3>1
      <3>3. ~below
        BY <3>2, Zenon
      <3> QED BY <3>3 DEF below
    <2>4. take = want
      BY <2>2, <2>3 DEF Larger
    <2> HIDE DEF take
    <2>5. o.btc * want \in Nat
      BY <1>0
    <2>6. SubswapPrice(o.btc, want, o.seq, side) \in Nat
      BY <1>0, <2>5, Quotients DEF SubswapPrice
    <2> QED BY <2>1, <2>4, <2>6
  <1> QED BY <1>1, <1>2

LegAtoms(legs) == [i \in DOMAIN legs |-> legs[i].atoms]

LEMMA LegSums ==
    ASSUME NEW legs \in Seq(Leg), NEW n \in 0 .. Len(legs)
    PROVE  /\ Naturals(LegAtoms(legs), n)
           /\ Total(legs) = SumTo(LegAtoms(legs), Len(legs))
           /\ SumTo(LegAtoms(legs), n) \in Nat
           /\ n > 0 => SumTo(LegAtoms(legs), n) = SumTo(LegAtoms(legs), n - 1) + legs[n].atoms
  <1>1. Naturals(LegAtoms(legs), n)
    <2>1. ASSUME NEW i \in 1 .. n PROVE LegAtoms(legs)[i] \in Nat
      <3>1. i \in DOMAIN legs /\ legs[i] \in Leg
        OBVIOUS
      <3> QED BY <3>1 DEF LegAtoms, Leg
    <2> QED BY <2>1 DEF Naturals
  <1>2. n > 0 => LegAtoms(legs)[n] = legs[n].atoms
    BY DEF LegAtoms
  <1>3. Total(legs) = SumTo(LegAtoms(legs), Len(legs))
    BY DEF Total, LegAtoms
  <1> QED BY <1>1, <1>2, <1>3, SumStep

LEMMA TotalIsNatural == ASSUME NEW legs \in Seq(Leg) PROVE Total(legs) \in Nat
  <1>1. Len(legs) \in 0 .. Len(legs)
    OBVIOUS
  <1> QED BY <1>1, LegSums

LEMMA TotalOfMore ==
    ASSUME NEW legs \in Seq(Leg), NEW leg \in Leg
    PROVE  Total(Append(legs, leg)) = Total(legs) + leg.atoms
  <1> DEFINE more == Append(legs, leg)
             n == Len(legs)
  <1>1. more \in Seq(Leg) /\ Len(more) = n + 1 /\ more[n + 1] = leg /\ n \in Nat
        /\ \A i \in 1 .. n : more[i] = legs[i]
    OBVIOUS
  <1> HIDE DEF more, n
  <1>2. Total(more) = SumTo(LegAtoms(more), n) + leg.atoms
    BY <1>1, LegSums
  <1>3. SumTo(LegAtoms(legs), n) = SumTo(LegAtoms(more), n)
    <2>1. \A i \in 1 .. n : LegAtoms(legs)[i] = LegAtoms(more)[i]
      BY <1>1 DEF LegAtoms, n
    <2>2. Naturals(LegAtoms(legs), n)
      BY LegSums, <1>1 DEF n
    <2> QED BY <1>1, <2>1, <2>2, SumSame
  <1>4. Total(legs) = SumTo(LegAtoms(legs), n)
    BY LegSums, <1>1 DEF n
  <1> QED BY <1>2, <1>3, <1>4 DEF more

PlanStates(want) ==
    {p \in [legs : Seq(Leg), left : Nat] : Total(p.legs) + p.left = want}

LEMMA LegTaken ==
    ASSUME NEW want \in Nat, NEW plan \in PlanStates(want), NEW o \in BookOffers,
           NEW side \in Sides
    PROVE  TakeLeg(plan, o, side) \in PlanStates(want)
  <1> DEFINE sz == SizeSubswapTake(plan.left, o, side)
             leg == [atoms |-> sz.take, btc |-> sz.btc]
  <1>1. plan.legs \in Seq(Leg) /\ plan.left \in Nat /\ Total(plan.legs) + plan.left = want
    BY DEF PlanStates
  <1>2. CASE plan.left > 0 /\ TakesLeg(sz)
    <2>1. sz.take \in 1 .. plan.left /\ sz.btc \in Nat /\ sz.btc > 0
      BY <1>1, <1>2, TakeFits DEF TakesLeg
    <2>2. TakeLeg(plan, o, side) = [legs |-> Append(plan.legs, leg), left |-> plan.left - sz.take]
      BY <1>2 DEF TakeLeg
    <2>3. leg \in Leg /\ leg.atoms = sz.take
      BY <2>1 DEF Leg
    <2> HIDE DEF leg, sz
    <2>4. /\ Append(plan.legs, leg) \in Seq(Leg)
          /\ Total(Append(plan.legs, leg)) = Total(plan.legs) + sz.take
          /\ Total(plan.legs) \in Nat
      BY <1>1, <2>3, TotalOfMore, TotalIsNatural
    <2>5. plan.left - sz.take \in Nat
      BY <1>1, <2>1
    <2>6. Total(Append(plan.legs, leg)) + (plan.left - sz.take) = want
      BY <1>1, <2>1, <2>4
    <2> DEFINE legs == Append(plan.legs, leg)
               left == plan.left - sz.take
    <2>7. [legs |-> legs, left |-> left] \in [legs : Seq(Leg), left : Nat]
      BY <2>4, <2>5
    <2>8. Total(legs) + left = want
      BY <2>6
    <2> HIDE DEF legs, left
    <2>9. [legs |-> legs, left |-> left] \in PlanStates(want)
      BY <2>7, <2>8 DEF PlanStates
    <2> QED BY <2>2, <2>9 DEF legs, left
  <1>3. CASE ~(plan.left > 0 /\ TakesLeg(sz))
    BY <1>3 DEF TakeLeg
  <1> QED BY <1>2, <1>3

\* A plan is made of legs that are not empty, and takes no more than was wanted.
LEMMA PlanFits ==
    ASSUME NEW want \in Nat, NEW book \in Seq(BookOffers), NEW side \in Sides
    PROVE  /\ WalkBook(book, want, side) \in Seq(Leg)
           /\ Total(WalkBook(book, want, side)) <= want
  <1> DEFINE n == Len(book)
             P == PlanStates(want)
             F == [p \in (1 .. n) \X P |-> TakeLeg(p[2], book[p[1]], side)]
             Rec(s) == s = [i \in 0 .. n |-> IF i = 0 THEN [legs |-> <<>>, left |-> want]
                                             ELSE TakeLeg(s[i - 1], book[i], side)]
             first == [legs |-> <<>>, left |-> want]
             s == CHOOSE s : Rec(s)
  <1>1. n \in Nat /\ \A i \in 1 .. n : book[i] \in BookOffers
    OBVIOUS
  <1>2. \A i \in 1 .. n, p \in P : F[<<i, p>>] = TakeLeg(p, book[i], side)
    OBVIOUS
  <1>3. first \in P
    <2>1. <<>> \in Seq(Leg) /\ Total(<<>>) = 0
      <3>1. <<>> \in Seq(Leg) /\ Len(<<>>) = 0
        OBVIOUS
      <3>2. Total(<<>>) = SumTo(LegAtoms(<<>>), 0)
        BY <3>1 DEF Total, LegAtoms
      <3>3. Naturals(LegAtoms(<<>>), 0)
        BY DEF Naturals
      <3> QED BY <3>1, <3>2, <3>3, SumStep
    <2> QED BY <2>1 DEF PlanStates
  <1> HIDE DEF F, P, n
  <1>4. \A i \in 1 .. n, p \in P : TakeLeg(p, book[i], side) \in P
    BY <1>1, LegTaken DEF P
  <1>5. StaysIn(P, F, n)
    BY <1>2, <1>4 DEF StaysIn
  <1> HIDE DEF first
  <1>6. PICK g \in [0 .. n -> P] : Solves(g, first, F, n)
    BY <1>1, <1>3, <1>5, RecursionHolds
  <1>7. Rec(g)
    <2>1. ASSUME NEW i \in 1 .. n PROVE g[i] = TakeLeg(g[i - 1], book[i], side)
      <3>1. g[i] = F[<<i, g[i - 1]>>]
        BY <1>6 DEF Solves
      <3>2. i - 1 \in 0 .. n
        BY <1>1
      <3>3. g[i - 1] \in P
        BY <1>6, <3>2
      <3> QED BY <1>2, <3>1, <3>3
    <2>2. g[0] = first
      BY <1>6 DEF Solves
    <2> QED BY <2>1, <2>2 DEF first
  <1>8. Rec(s)
    BY <1>7, Zenon
  <1>9. WalkBook(book, want, side) = s[n].legs
    BY Zenon DEF WalkBook, n
  <1> HIDE DEF s
  <1>10. s[n] \in P
    <2>1. s[0] = first /\ \A i \in 1 .. n : s[i] = TakeLeg(s[i - 1], book[i], side)
      BY <1>1, <1>8 DEF first
    <2> HIDE DEF Rec
    <2> DEFINE S == {k \in Nat : k <= n => s[k] \in P}
    <2>2. 0 \in S
      BY <2>1, <1>3
    <2>3. ASSUME NEW k \in Nat, k \in S PROVE k + 1 \in S
      <3> SUFFICES ASSUME k + 1 <= n PROVE s[k + 1] \in P
        OBVIOUS
      <3>1. s[k] \in P /\ k + 1 \in 1 .. n
        BY <1>1, <2>3
      <3>2. s[k + 1] = TakeLeg(s[k], book[k + 1], side)
        BY <2>1, <3>1
      <3> QED BY <1>4, <3>1, <3>2
    <2> HIDE DEF S
    <2>4. Nat \subseteq S
      BY <2>2, <2>3, Induction
    <2> QED BY <1>1, <2>4 DEF S
  <1>11. s[n].legs \in Seq(Leg) /\ s[n].left \in Nat /\ Total(s[n].legs) + s[n].left = want
    BY <1>10 DEF P, PlanStates
  <1>12. Total(s[n].legs) \in Nat
    BY <1>11, TotalIsNatural
  <1> QED BY <1>9, <1>11, <1>12

-----------------------------------------------------------------------------
(* The walk                                                                 *)

\* What the records of an order hold, and what of it is settled.
AskedIn(rs, o) == [i \in DOMAIN rs |-> IF rs[i].order = o THEN rs[i].atoms ELSE 0]
FilledIn(rs, o) ==
    [i \in DOMAIN rs |->
        IF rs[i].order = o /\ Settled(rs[i]) THEN rs[i].atoms ELSE 0]
Asked(rs, o) == SumTo(AskedIn(rs, o), Len(rs))
Filled(rs, o) == SumTo(FilledIn(rs, o), Len(rs))
PlanUpTo(k) == SumTo(LegAtoms(walk.legs), k)

\* No order asks for more than was wanted, nor does its plan.
OrdersFit ==
    \A o \in DOMAIN orders :
        Asked(recs, o) <= orders[o].want /\ Total(orders[o].plan) <= orders[o].want

\* A driver at work has its record where it found it, and reports for a walk.
DriversAtWork ==
    \A i \in DOMAIN recs :
        /\ recs[i].pc = "drive" => recs[i].state = "starting"
        /\ recs[i].pc = "settled" => recs[i].state = "settled"
        /\ recs[i].pc \in {"settled", "unsettled"} => recs[i].walk

\* A walk's leg is driven for the walk the slot holds.
DriversFollow ==
    \A i \in DOMAIN recs :
        recs[i].walk /\ Driven(recs[i]) => HasWalkInFlight /\ recs[i].order = walk.order

\* Of a running walk every leg before the one it is at is settled.
LegUnderWay(l) ==
    /\ recs[l].order = walk.order /\ recs[l].walk
    /\ recs[l].atoms = walk.legs[walk.legIndex].atoms
    /\ \A i \in DOMAIN recs :
          recs[i].order = walk.order /\ i # l => Settled(recs[i]) /\ ~Driven(recs[i])
RunsInOrder ==
    HasWalkInFlight =>
        /\ \E l \in DOMAIN recs : LegUnderWay(l)
        /\ Asked(recs, walk.order) = PlanUpTo(walk.legIndex)
        /\ walk.filled = PlanUpTo(walk.legIndex - 1)

SlotIsTrue ==
    walk # NoWalk =>
        /\ walk.legs = orders[walk.order].plan
        /\ walk.filled <= Filled(recs, walk.order)
        /\ walk.state = "done" =>
              /\ Asked(recs, walk.order) = Total(orders[walk.order].plan)
              /\ Filled(recs, walk.order) = Total(orders[walk.order].plan)

WalkStore == WalkTypeOK /\ DriversAtWork
WalkInv ==
    WalkStore /\ OrdersFit /\ DriversFollow /\ OneLegLive /\ RunsInOrder /\ SlotIsTrue

SameLegs(rs, qs) ==
    /\ Len(qs) = Len(rs)
    /\ \A i \in 1 .. Len(rs) :
          /\ qs[i].order = rs[i].order /\ qs[i].atoms = rs[i].atoms
          /\ qs[i].btc = rs[i].btc /\ qs[i].walk = rs[i].walk
          /\ Settled(rs[i]) => Settled(qs[i])
          /\ Open(qs[i]) => Open(rs[i])
          /\ Driven(qs[i]) => Driven(rs[i])

LEMMA RecordAt ==
    ASSUME NEW rs \in Seq(Trades), NEW i \in 1 .. Len(rs)
    PROVE  rs[i] \in Trades /\ rs[i].atoms \in Nat \ {0}
  <1>1. rs[i] \in Trades
    OBVIOUS
  <1> QED BY <1>1 DEF Trades

LEMMA RecordSums ==
    ASSUME NEW rs \in Seq(Trades), NEW o
    PROVE  /\ Naturals(AskedIn(rs, o), Len(rs)) /\ Naturals(FilledIn(rs, o), Len(rs))
           /\ Asked(rs, o) \in Nat /\ Filled(rs, o) \in Nat
           /\ Filled(rs, o) <= Asked(rs, o)
           /\ (\A i \in 1 .. Len(rs) : rs[i].order = o => Settled(rs[i]))
                 => Filled(rs, o) = Asked(rs, o)
           /\ (\A i \in 1 .. Len(rs) : rs[i].order # o) => Asked(rs, o) = 0
  <1> DEFINE n == Len(rs)
  <1>1. n \in Nat /\ DOMAIN rs = 1 .. n /\ \A i \in 1 .. n : rs[i].atoms \in Nat
    BY RecordAt
  <1> HIDE DEF n
  <1>2. ASSUME NEW i \in 1 .. n
        PROVE  /\ AskedIn(rs, o)[i] = IF rs[i].order = o THEN rs[i].atoms ELSE 0
               /\ FilledIn(rs, o)[i] =
                     IF rs[i].order = o /\ Settled(rs[i]) THEN rs[i].atoms ELSE 0
    BY <1>1 DEF AskedIn, FilledIn
  <1>3. Naturals(AskedIn(rs, o), n) /\ Naturals(FilledIn(rs, o), n)
    BY <1>1, <1>2 DEF Naturals
  <1>4. Asked(rs, o) = SumTo(AskedIn(rs, o), n) /\ Filled(rs, o) = SumTo(FilledIn(rs, o), n)
    BY DEF Asked, Filled, n
  <1>5. Asked(rs, o) \in Nat /\ Filled(rs, o) \in Nat
    BY <1>1, <1>3, <1>4, SumStep
  <1>6. Filled(rs, o) <= Asked(rs, o)
    <2>1. \A i \in 1 .. n : FilledIn(rs, o)[i] <= AskedIn(rs, o)[i]
      BY <1>1, <1>2
    <2> QED BY <1>1, <1>3, <1>4, <2>1, SumMonotone
  <1>7. ASSUME \A i \in 1 .. n : rs[i].order = o => Settled(rs[i])
        PROVE  Filled(rs, o) = Asked(rs, o)
    <2>1. \A i \in 1 .. n : FilledIn(rs, o)[i] = AskedIn(rs, o)[i]
      BY <1>2, <1>7
    <2> QED BY <1>1, <1>3, <1>4, <2>1, SumSame
  <1>8. ASSUME \A i \in 1 .. n : rs[i].order # o PROVE Asked(rs, o) = 0
    <2> DEFINE S == {k \in Nat : k <= n => SumTo(AskedIn(rs, o), k) = 0}
    <2>1. \A k \in Nat : k <= n => Naturals(AskedIn(rs, o), k)
      BY <1>1, <1>3 DEF Naturals
    <2>2. 0 \in S
      BY <1>1, <2>1, SumStep
    <2>3. ASSUME NEW k \in Nat, k \in S PROVE k + 1 \in S
      <3> SUFFICES ASSUME k + 1 <= n PROVE SumTo(AskedIn(rs, o), k + 1) = 0
        OBVIOUS
      <3>1. SumTo(AskedIn(rs, o), k + 1) = SumTo(AskedIn(rs, o), k) + AskedIn(rs, o)[k + 1]
        BY <2>1, SumStep
      <3>2. AskedIn(rs, o)[k + 1] = 0
        BY <1>1, <1>2, <1>8
      <3> QED BY <1>1, <2>3, <3>1, <3>2
    <2>4. n \in S
      <3> HIDE DEF S
      <3> QED BY <1>1, <2>2, <2>3, Induction
    <2> QED BY <1>4, <2>4
  <1> QED BY <1>3, <1>5, <1>6, <1>7, <1>8 DEF n

LEMMA SameSums ==
    ASSUME NEW rs \in Seq(Trades), NEW qs \in Seq(Trades), SameLegs(rs, qs), NEW o
    PROVE  Asked(qs, o) = Asked(rs, o) /\ Filled(rs, o) <= Filled(qs, o)
  <1> DEFINE n == Len(rs)
  <1>1. /\ n \in Nat /\ n = Len(qs) /\ DOMAIN rs = 1 .. n /\ DOMAIN qs = 1 .. n
        /\ \A i \in 1 .. n : qs[i].atoms \in Nat /\ qs[i].order = rs[i].order
              /\ qs[i].atoms = rs[i].atoms /\ (Settled(rs[i]) => Settled(qs[i]))
    BY RecordAt DEF SameLegs
  <1>2. /\ Naturals(AskedIn(rs, o), n) /\ Naturals(FilledIn(rs, o), n)
        /\ Naturals(AskedIn(qs, o), n) /\ Naturals(FilledIn(qs, o), n)
    BY <1>1, RecordSums
  <1>3. /\ Asked(rs, o) = SumTo(AskedIn(rs, o), n) /\ Filled(rs, o) = SumTo(FilledIn(rs, o), n)
        /\ Asked(qs, o) = SumTo(AskedIn(qs, o), n) /\ Filled(qs, o) = SumTo(FilledIn(qs, o), n)
    BY <1>1 DEF Asked, Filled
  <1> HIDE DEF n
  <1>4. \A i \in 1 .. n : AskedIn(rs, o)[i] = AskedIn(qs, o)[i]
    BY <1>1 DEF AskedIn
  <1>5. \A i \in 1 .. n : FilledIn(rs, o)[i] <= FilledIn(qs, o)[i]
    <2> TAKE i \in 1 .. n
    <2>1. CASE Settled(rs[i])
      BY <1>1, <2>1 DEF FilledIn
    <2>2. CASE ~Settled(rs[i])
      BY <1>1, <2>2 DEF FilledIn
    <2> QED BY <2>1, <2>2
  <1>6. Asked(qs, o) = Asked(rs, o)
    BY <1>1, <1>2, <1>3, <1>4, SumSame
  <1>7. Filled(rs, o) <= Filled(qs, o)
    BY <1>1, <1>2, <1>3, <1>5, SumMonotone
  <1> QED BY <1>6, <1>7

LEMMA MoreSums ==
    ASSUME NEW rs \in Seq(Trades), NEW r \in Trades, NEW o
    PROVE  /\ Asked(Append(rs, r), o) = Asked(rs, o) + (IF r.order = o THEN r.atoms ELSE 0)
           /\ Filled(rs, o) <= Filled(Append(rs, r), o)
           /\ ~Settled(r) => Filled(Append(rs, r), o) = Filled(rs, o)
  <1> DEFINE qs == Append(rs, r)
             n == Len(rs)
  <1>1. /\ n \in Nat /\ DOMAIN rs = 1 .. n /\ DOMAIN qs = 1 .. n + 1 /\ Len(qs) = n + 1
        /\ qs \in Seq(Trades) /\ qs[n + 1] = r /\ \A i \in 1 .. n : qs[i] = rs[i]
    OBVIOUS
  <1> HIDE DEF qs, n
  <1>2. /\ Naturals(AskedIn(rs, o), n) /\ Naturals(FilledIn(rs, o), n)
        /\ Naturals(AskedIn(qs, o), n + 1) /\ Naturals(FilledIn(qs, o), n + 1)
    BY <1>1, RecordSums DEF n
  <1>3. \A i \in 1 .. n : AskedIn(rs, o)[i] = AskedIn(qs, o)[i]
                          /\ FilledIn(rs, o)[i] = FilledIn(qs, o)[i]
    BY <1>1 DEF AskedIn, FilledIn
  <1>4. /\ SumTo(AskedIn(qs, o), n) = SumTo(AskedIn(rs, o), n)
        /\ SumTo(FilledIn(qs, o), n) = SumTo(FilledIn(rs, o), n)
    BY <1>1, <1>2, <1>3, SumSame
  <1>5. /\ SumTo(AskedIn(qs, o), n + 1) = SumTo(AskedIn(qs, o), n) + AskedIn(qs, o)[n + 1]
        /\ SumTo(FilledIn(qs, o), n + 1) = SumTo(FilledIn(qs, o), n) + FilledIn(qs, o)[n + 1]
    BY <1>1, <1>2, SumStep
  <1>6. /\ AskedIn(qs, o)[n + 1] = (IF r.order = o THEN r.atoms ELSE 0)
        /\ FilledIn(qs, o)[n + 1] \in Nat
        /\ ~Settled(r) => FilledIn(qs, o)[n + 1] = 0
    BY <1>1, <1>2 DEF AskedIn, FilledIn, Naturals
  <1>7. /\ Asked(rs, o) = SumTo(AskedIn(rs, o), n) /\ Filled(rs, o) = SumTo(FilledIn(rs, o), n)
        /\ Asked(qs, o) = SumTo(AskedIn(qs, o), n + 1)
        /\ Filled(qs, o) = SumTo(FilledIn(qs, o), n + 1)
    BY <1>1 DEF Asked, Filled, n
  <1>8. Filled(rs, o) \in Nat
    BY RecordSums
  <1> QED BY <1>4, <1>5, <1>6, <1>7, <1>8 DEF qs

\* A function on 1 .. n is a sequence.
LEMMA IsSequence ==
    ASSUME NEW S, NEW n \in Nat, NEW s \in [1 .. n -> S]
    PROVE  s \in Seq(S) /\ Len(s) = n
  OBVIOUS

\* One record moves on.
Moved(rs, qs, i, st, pc) == qs = [rs EXCEPT ![i].state = st, ![i].pc = pc]
LEMMA OneMoves ==
    ASSUME NEW rs \in Seq(Trades), NEW i \in DOMAIN rs,
           NEW st \in {"starting", "settled", "failed", "resumable", "refunded"},
           NEW pc \in {"drive", "settled", "unsettled", "idle"},
           NEW qs, Moved(rs, qs, i, st, pc)
    PROVE  /\ qs \in Seq(Trades) /\ Len(qs) = Len(rs)
           /\ \A j \in 1 .. Len(rs) : j # i => qs[j] = rs[j]
           /\ /\ qs[i].order = rs[i].order /\ qs[i].atoms = rs[i].atoms
              /\ qs[i].btc = rs[i].btc /\ qs[i].walk = rs[i].walk
              /\ qs[i].state = st /\ qs[i].pc = pc
  <1>1. rs[i] \in Trades /\ i \in 1 .. Len(rs)
    OBVIOUS
  <1> DEFINE r == [rs[i] EXCEPT !.state = st, !.pc = pc]
  <1>2. /\ r \in Trades /\ r.order = rs[i].order /\ r.atoms = rs[i].atoms
        /\ r.btc = rs[i].btc /\ r.walk = rs[i].walk /\ r.state = st /\ r.pc = pc
    BY <1>1 DEF Trades
  <1>3. qs = [rs EXCEPT ![i] = r]
    BY <1>1 DEF Trades, Moved
  <1> DEFINE n == Len(rs)
  <1>4. n \in Nat /\ DOMAIN rs = 1 .. n /\ rs \in [1 .. n -> Trades]
    OBVIOUS
  <1> HIDE DEF r, n
  <1>5. qs \in [1 .. n -> Trades]
    BY <1>2, <1>3, <1>4
  <1>6. qs \in Seq(Trades) /\ Len(qs) = n
    <2>1. n \in Nat
      BY <1>4
    <2> QED BY Zenon, <1>5, <2>1, IsSequence
  <1>7. qs[i] = r /\ \A j \in 1 .. n : j # i => qs[j] = rs[j]
    BY <1>1, <1>3, <1>4
  <1> QED BY <1>2, <1>6, <1>7 DEF n

\* The steps that start nothing and leave the slot, or stop its walk.
Quiet == \/ Reloads
         \/ \E i \in DOMAIN recs : \/ DriverEnds(i) \/ ReportsInVain(i)
                                   \/ StopWalk(i) \/ Resumes(i)

LEMMA QuietSteps ==
    ASSUME WalkStore, Quiet
    PROVE  /\ recs' \in Seq(Trades) /\ SameLegs(recs, recs') /\ orders' = orders
           /\ DriversAtWork'
  <1> USE DEF WalkStore
  <1>1. CASE Reloads
    <2>1. PICK kept \in SUBSET {i \in DOMAIN recs : recs[i].state = "starting"} :
             recs' = [i \in DOMAIN recs |->
                        [recs[i] EXCEPT
                            !.pc = "idle",
                            !.state = IF i \in kept THEN "resumable"
                                      ELSE IF @ = "starting" THEN "failed" ELSE @]]
      BY <1>1 DEF Reloads
    <2> DEFINE n == Len(recs)
    <2>2. n \in Nat /\ DOMAIN recs = 1 .. n /\ recs \in Seq(Trades)
      BY DEF WalkTypeOK
    <2>3. ASSUME NEW i \in 1 .. n
          PROVE  /\ recs'[i] \in Trades
                 /\ recs'[i].order = recs[i].order /\ recs'[i].atoms = recs[i].atoms
                 /\ recs'[i].btc = recs[i].btc /\ recs'[i].walk = recs[i].walk
                 /\ recs'[i].pc = "idle"
                 /\ Settled(recs[i]) => Settled(recs'[i])
                 /\ Open(recs'[i]) => Open(recs[i])
      <3> DEFINE st == IF i \in kept THEN "resumable"
                       ELSE IF recs[i].state = "starting" THEN "failed" ELSE recs[i].state
      <3>1. recs[i] \in Trades
        BY <2>2
      <3>2. recs'[i] = [recs[i] EXCEPT !.pc = "idle", !.state = st]
        BY <2>1, <2>2
      <3>3. i \in kept => recs[i].state = "starting"
        BY <2>1
      <3>4. st \in {"starting", "settled", "failed", "resumable", "refunded"}
        BY <3>1 DEF Trades
      <3>5. st = "settled" <=> recs[i].state = "settled"
        BY <3>3
      <3>6. st \notin {"settled", "failed", "refunded"}
               => recs[i].state \notin {"settled", "failed", "refunded"}
        BY <3>3
      <3> HIDE DEF st
      <3>7. /\ recs'[i] \in Trades
            /\ recs'[i].order = recs[i].order /\ recs'[i].atoms = recs[i].atoms
            /\ recs'[i].btc = recs[i].btc /\ recs'[i].walk = recs[i].walk
            /\ recs'[i].pc = "idle" /\ recs'[i].state = st
        BY <3>1, <3>2, <3>4 DEF Trades
      <3> QED BY <3>5, <3>6, <3>7 DEF Settled, Open, SubswapTerminal
    <2>4. DOMAIN recs' = 1 .. n
      BY <2>1, <2>2
    <2>5. recs' = [i \in 1 .. n |-> recs'[i]]
      BY <2>1, <2>2
    <2> HIDE DEF n
    <2>6. recs' \in [1 .. n -> Trades]
      BY <2>3, <2>5
    <2>7. recs' \in Seq(Trades) /\ Len(recs') = n
      BY <2>2, <2>6
    <2>8. orders' = orders
      BY <1>1 DEF Reloads
    <2>9. DriversAtWork'
      BY <2>3, <2>4 DEF DriversAtWork
    <2> QED BY <2>3, <2>7, <2>8, <2>9 DEF SameLegs, Driven, n
  <1>2. ASSUME NEW i \in DOMAIN recs,
               DriverEnds(i) \/ ReportsInVain(i) \/ StopWalk(i) \/ Resumes(i)
        PROVE  /\ recs' \in Seq(Trades) /\ SameLegs(recs, recs') /\ orders' = orders
               /\ DriversAtWork'
    <2>1. PICK st \in {"starting", "settled", "failed", "resumable", "refunded"},
               pc \in {"drive", "settled", "unsettled", "idle"} :
             /\ recs' = [recs EXCEPT ![i].state = st, ![i].pc = pc]
             /\ Settled(recs[i]) => st = "settled"
             /\ st \in {"starting", "resumable"} => Open(recs[i])
             /\ pc # "idle" => Driven(recs[i]) /\ (pc = "drive" => st = "starting")
             /\ pc = "settled" => st = "settled"
             /\ pc \in {"settled", "unsettled"} => recs[i].walk
      <3>1. CASE DriverEnds(i)
        <4>1. recs[i].pc = "drive" /\ recs[i].state = "starting"
          BY <3>1 DEF DriverEnds, DriversAtWork
        <4>2. PICK st \in {"settled", "failed", "resumable"} :
                 recs' = [recs EXCEPT ![i].state = st,
                                      ![i].pc = IF ~Reports(recs[i], st) THEN "idle"
                                                ELSE IF st = "settled" THEN "settled"
                                                ELSE "unsettled"]
          BY <3>1 DEF DriverEnds
        <4>3. CASE ~Reports(recs[i], st)
          <5>1. recs' = [recs EXCEPT ![i].state = st, ![i].pc = "idle"]
            BY <4>2, <4>3
          <5> QED BY <4>1, <5>1 DEF Settled, Open, SubswapTerminal, Driven
        <4>4. CASE Reports(recs[i], st) /\ st = "settled"
          <5>1. recs' = [recs EXCEPT ![i].state = st, ![i].pc = "settled"]
            BY <4>2, <4>4
          <5> QED BY <4>1, <4>4, <5>1 DEF Settled, Open, SubswapTerminal, Driven, Reports
        <4>5. CASE Reports(recs[i], st) /\ st # "settled"
          <5>1. recs' = [recs EXCEPT ![i].state = st, ![i].pc = "unsettled"]
            BY <4>2, <4>5
          <5> QED BY <4>1, <4>5, <5>1 DEF Settled, Open, SubswapTerminal, Driven, Reports
        <4> QED BY <4>3, <4>4, <4>5
      <3>2. CASE ReportsInVain(i) \/ StopWalk(i)
        <4> DEFINE st == recs[i].state
        <4>1. recs[i] \in Trades /\ recs[i].pc # "idle" /\ recs' = [recs EXCEPT ![i].pc = "idle"]
          BY <3>2 DEF ReportsInVain, StopWalk, Idled, WalkTypeOK
        <4>2. /\ recs' = [recs EXCEPT ![i].state = st, ![i].pc = "idle"]
              /\ st \in {"starting", "settled", "failed", "resumable", "refunded"}
          BY <4>1 DEF Trades, WalkTypeOK
        <4> QED BY <4>1, <4>2 DEF Settled, Open, SubswapTerminal
      <3>3. CASE Resumes(i)
        <4> DEFINE pc == recs[i].pc
        <4>1. recs[i] \in Trades /\ recs[i].state = "resumable"
          BY <3>3 DEF Resumes, WalkTypeOK
        <4>2. PICK st \in {"settled", "refunded"} : recs' = [recs EXCEPT ![i].state = st]
          BY <3>3 DEF Resumes
        <4>3. /\ recs' = [recs EXCEPT ![i].state = st, ![i].pc = pc]
              /\ pc \in {"drive", "settled", "unsettled", "idle"}
          BY <4>1, <4>2 DEF Trades, WalkTypeOK
        <4>4. /\ pc # "drive" /\ pc # "settled"
              /\ pc = "unsettled" => recs[i].walk
          BY <4>1 DEF DriversAtWork
        <4> QED BY <4>1, <4>2, <4>3, <4>4 DEF Settled, Driven, Open, SubswapTerminal
      <3> QED BY <1>2, <3>1, <3>2, <3>3
    <2>2. /\ recs' \in Seq(Trades) /\ Len(recs') = Len(recs)
          /\ \A j \in 1 .. Len(recs) : j # i => recs'[j] = recs[j]
          /\ /\ recs'[i].order = recs[i].order /\ recs'[i].atoms = recs[i].atoms
             /\ recs'[i].btc = recs[i].btc /\ recs'[i].walk = recs[i].walk
             /\ recs'[i].state = st /\ recs'[i].pc = pc
      <3>1. recs \in Seq(Trades)
        BY DEF WalkTypeOK
      <3>2. Moved(recs, recs', i, st, pc)
        BY <2>1 DEF Moved
      <3>3. st \in {"starting", "settled", "failed", "resumable", "refunded"}
        OBVIOUS
      <3>4. pc \in {"drive", "settled", "unsettled", "idle"}
        OBVIOUS
      <3> HIDE DEF Moved
      <3> QED BY <3>1, <3>2, <3>3, <3>4, OneMoves
    <2>3. SameLegs(recs, recs')
      BY <2>1, <2>2 DEF SameLegs, Settled, Open, SubswapTerminal, Driven
    <2>4. orders' = orders
      BY <1>2 DEF DriverEnds, ReportsInVain, StopWalk, Resumes
    <2>5. DriversAtWork'
      <3>1. DOMAIN recs = 1 .. Len(recs) /\ DOMAIN recs' = 1 .. Len(recs)
        BY <2>2 DEF WalkTypeOK
      <3> SUFFICES ASSUME NEW j \in 1 .. Len(recs)
                   PROVE  /\ recs'[j].pc = "drive" => recs'[j].state = "starting"
                          /\ recs'[j].pc = "settled" => recs'[j].state = "settled"
                          /\ recs'[j].pc \in {"settled", "unsettled"} => recs'[j].walk
        BY <3>1 DEF DriversAtWork
      <3>2. CASE j = i
        BY <2>1, <2>2, <3>2
      <3>3. CASE j # i
        BY <2>2, <3>1, <3>3 DEF DriversAtWork
      <3> QED BY <3>2, <3>3
    <2> QED BY <2>2, <2>3, <2>4, <2>5
  <1> QED BY <1>1, <1>2 DEF Quiet

-----------------------------------------------------------------------------
(* What the store holds                                                     *)

\* A record as the code writes it, of one of the first n orders.
GoodRow(r, n) ==
    /\ r \in Trades /\ r.order \in 1 .. n /\ (r.walk => r.btc > 0)
    /\ r.pc = "drive" => r.state = "starting"
    /\ r.pc = "settled" => r.state = "settled"
    /\ r.pc \in {"settled", "unsettled"} => r.walk

LEMMA NewRow ==
    ASSUME NEW n \in Nat, NEW o \in 1 .. n, NEW leg, leg.atoms \in Nat \ {0},
           leg.btc \in Nat, NEW walking \in BOOLEAN, walking => leg.btc > 0
    PROVE  /\ GoodRow(Record(o, leg, walking), n)
           /\ Record(o, leg, walking).order = o
           /\ Record(o, leg, walking).atoms = leg.atoms
           /\ Record(o, leg, walking).walk = walking
           /\ ~Settled(Record(o, leg, walking))
  BY DEF GoodRow, Record, Trades, Settled

LEMMA RowsAre ==
    ASSUME recs \in Seq(Trades), orders \in Seq(Orders)
    PROVE  (/\ \A i \in DOMAIN recs :
                  recs[i].order \in DOMAIN orders /\ (recs[i].walk => recs[i].btc > 0)
            /\ DriversAtWork)
           <=> \A i \in 1 .. Len(recs) : GoodRow(recs[i], Len(orders))
  <1>1. DOMAIN recs = 1 .. Len(recs) /\ DOMAIN orders = 1 .. Len(orders)
    OBVIOUS
  <1>2. \A i \in 1 .. Len(recs) : recs[i] \in Trades
    BY RecordAt
  <1> QED BY <1>1, <1>2 DEF DriversAtWork, GoodRow

\* The plan and the first leg of a trade placed.
LEMMA PlacedPlan ==
    ASSUME BookWalkAssumption, NEW b \in Books, NEW w \in Wants,
           ~SizeSubswapTake(w, b.offers[1], b.side).belowMin
    PROVE  /\ w \in Nat \ {0}
           /\ WalkBook(b.offers, w, b.side) \in Seq(Leg)
           /\ Total(WalkBook(b.offers, w, b.side)) <= w
           /\ SizeSubswapTake(w, b.offers[1], b.side).take \in 1 .. w
           /\ SizeSubswapTake(w, b.offers[1], b.side).btc \in Nat
  <1>1. w \in Nat \ {0} /\ b.side \in Sides /\ b.offers \in Seq(BookOffers) /\ b.offers # <<>>
    BY DEF BookWalkAssumption, Sides, BookOffers
  <1>2. b.offers[1] \in BookOffers
    BY <1>1
  <1>3. w \in Nat
    BY <1>1
  <1> QED BY <1>1, <1>2, <1>3, PlanFits, TakeFits

LEMMA InitStore == WalkInit => WalkStore
  BY DEF WalkInit, WalkStore, WalkTypeOK, DriversAtWork

\* The record of a leg whose driver has ended.
LEMMA IdledLegs ==
    ASSUME WalkStore, NEW i \in DOMAIN recs
    PROVE  /\ Idled(i) \in Seq(Trades) /\ SameLegs(recs, Idled(i))
           /\ \A j \in 1 .. Len(recs) : GoodRow(Idled(i)[j], Len(orders))
           /\ ~Driven(Idled(i)[i])
  <1> DEFINE st == recs[i].state
             qs == Idled(i)
  <1>1. recs \in Seq(Trades) /\ recs[i] \in Trades /\ DOMAIN recs = 1 .. Len(recs)
    BY DEF WalkStore, WalkTypeOK
  <1>2. st \in {"starting", "settled", "failed", "resumable", "refunded"}
    BY <1>1 DEF Trades
  <1>3. Moved(recs, qs, i, st, "idle")
    BY <1>1 DEF Idled, Moved, Trades
  <1>4. \A j \in 1 .. Len(recs) : GoodRow(recs[j], Len(orders))
    BY RowsAre DEF WalkStore, WalkTypeOK
  <1> HIDE DEF qs
  <1>5. /\ qs \in Seq(Trades) /\ Len(qs) = Len(recs)
        /\ \A j \in 1 .. Len(recs) : j # i => qs[j] = recs[j]
        /\ /\ qs[i].order = recs[i].order /\ qs[i].atoms = recs[i].atoms
           /\ qs[i].btc = recs[i].btc /\ qs[i].walk = recs[i].walk
           /\ qs[i].state = st /\ qs[i].pc = "idle"
    <2> HIDE DEF st
    <2>1. "idle" \in {"drive", "settled", "unsettled", "idle"}
      OBVIOUS
    <2>2. recs \in Seq(Trades)
      BY <1>1
    <2> QED BY <1>2, <1>3, <2>1, <2>2, OneMoves
  <1>6. SameLegs(recs, qs)
    BY <1>5 DEF SameLegs, Settled, Open, SubswapTerminal, Driven
  <1>7. ASSUME NEW j \in 1 .. Len(recs) PROVE GoodRow(qs[j], Len(orders))
    <2>1. CASE j # i
      BY <1>4, <1>5, <2>1
    <2>2. CASE j = i
      <3>1. qs[i] \in Trades
        BY <1>1, <1>5
      <3>2. GoodRow(recs[i], Len(orders))
        BY <1>1, <1>4
      <3> QED BY <1>5, <2>2, <3>1, <3>2 DEF GoodRow
    <2> QED BY <2>1, <2>2
  <1>8. ~Driven(qs[i])
    BY <1>5 DEF Driven
  <1> QED BY <1>5, <1>6, <1>7, <1>8 DEF qs

LEMMA RowsAppended ==
    ASSUME NEW rs \in Seq(Trades), NEW n \in Nat, NEW m \in Nat, n <= m,
           \A j \in 1 .. Len(rs) : GoodRow(rs[j], n),
           NEW r, GoodRow(r, m)
    PROVE  /\ Append(rs, r) \in Seq(Trades) /\ Len(Append(rs, r)) = Len(rs) + 1
           /\ \A j \in 1 .. Len(rs) + 1 : GoodRow(Append(rs, r)[j], m)
           /\ \A j \in 1 .. Len(rs) : Append(rs, r)[j] = rs[j]
           /\ Append(rs, r)[Len(rs) + 1] = r
  <1>1. r \in Trades
    BY DEF GoodRow
  <1>2. /\ Append(rs, r) \in Seq(Trades) /\ Len(Append(rs, r)) = Len(rs) + 1
        /\ Append(rs, r)[Len(rs) + 1] = r
        /\ \A j \in 1 .. Len(rs) : Append(rs, r)[j] = rs[j]
        /\ Len(rs) \in Nat
    BY <1>1
  <1>3. ASSUME NEW j \in 1 .. Len(rs) PROVE GoodRow(rs[j], m)
    BY DEF GoodRow
  <1> QED BY <1>2, <1>3

\* A trade placed: its plan, its record, and the walk of a plan with several legs.
Placed(want, plan, r) ==
    /\ want \in Nat \ {0} /\ plan \in Seq(Leg) /\ Total(plan) <= want
    /\ GoodRow(r, Len(orders) + 1) /\ r.order = Len(orders) + 1 /\ ~Settled(r)
    /\ r.atoms <= want
    /\ orders' = Append(orders, [want |-> want, plan |-> plan])
    /\ recs' = Append(recs, r)
    /\ r.walk => /\ Len(plan) > 1 /\ r.atoms = plan[1].atoms
                 /\ walk' = [state |-> "running", order |-> Len(orders) + 1,
                             legs |-> plan, legIndex |-> 1, filled |-> 0]
    /\ ~r.walk => walk' = walk
    /\ reloads' = reloads /\ cut' = cut

LEMMA SumGrows ==
    ASSUME NEW f, NEW n \in Nat, Naturals(f, n), NEW k \in 0 .. n
    PROVE  SumTo(f, k) <= SumTo(f, n)
  <1> DEFINE S == {m \in Nat : k + m <= n => SumTo(f, k) <= SumTo(f, k + m)}
  <1>1. \A m \in 0 .. n : Naturals(f, m)
    BY DEF Naturals
  <1>2. 0 \in S
    <2>1. k \in Nat /\ SumTo(f, k) \in Nat
      BY <1>1, SumStep
    <2> QED BY <2>1
  <1>3. ASSUME NEW m \in Nat, m \in S PROVE m + 1 \in S
    <2> SUFFICES ASSUME k + (m + 1) <= n PROVE SumTo(f, k) <= SumTo(f, k + (m + 1))
      OBVIOUS
    <2> DEFINE t == k + (m + 1)
    <2>1. t \in Nat /\ t > 0 /\ t <= n /\ t - 1 = k + m /\ k + m \in 0 .. n /\ k \in Nat
      OBVIOUS
    <2>2. SumTo(f, k) <= SumTo(f, k + m)
      BY <1>3, <2>1
    <2>3. Naturals(f, t) /\ Naturals(f, k + m) /\ Naturals(f, k)
      BY <1>1, <2>1
    <2>4. f[t] \in Nat
      BY <2>1, <2>3 DEF Naturals
    <2> HIDE DEF t
    <2>5. SumTo(f, t) = SumTo(f, k + m) + f[t]
      BY <2>1, <2>3, SumStep
    <2>6. SumTo(f, k + m) \in Nat /\ SumTo(f, k) \in Nat
      BY <2>1, <2>3, SumStep
    <2>7. SumTo(f, k) <= SumTo(f, t)
      BY <2>2, <2>4, <2>5, <2>6
    <2> QED BY <2>7 DEF t
  <1> HIDE DEF S
  <1>4. Nat \subseteq S
    BY <1>2, <1>3, Induction
  <1>5. n - k \in Nat /\ k + (n - k) = n
    OBVIOUS
  <1> QED BY <1>4, <1>5 DEF S

LEMMA LegWithinPlan ==
    ASSUME NEW plan \in Seq(Leg), NEW k \in 0 .. Len(plan)
    PROVE  /\ SumTo(LegAtoms(plan), k) <= Total(plan)
           /\ SumTo(LegAtoms(plan), k) \in Nat /\ Total(plan) \in Nat
           /\ SumTo(LegAtoms(plan), 0) = 0
           /\ k = 1 => SumTo(LegAtoms(plan), k) = plan[1].atoms
  <1>1. Len(plan) \in Nat /\ Len(plan) \in 0 .. Len(plan) /\ 0 \in 0 .. Len(plan)
    OBVIOUS
  <1>2. /\ Naturals(LegAtoms(plan), Len(plan)) /\ Naturals(LegAtoms(plan), 0)
        /\ Total(plan) = SumTo(LegAtoms(plan), Len(plan))
        /\ SumTo(LegAtoms(plan), k) \in Nat /\ Total(plan) \in Nat
    BY <1>1, LegSums
  <1>3. SumTo(LegAtoms(plan), k) <= SumTo(LegAtoms(plan), Len(plan))
    BY <1>1, <1>2, SumGrows
  <1>4. SumTo(LegAtoms(plan), 0) = 0
    BY <1>2, SumStep
  <1>5. CASE k = 1
    <2>1. SumTo(LegAtoms(plan), 1) = SumTo(LegAtoms(plan), 1 - 1) + plan[1].atoms
      BY <1>5, LegSums
    <2>2. plan[1] \in Leg
      BY <1>1, <1>5
    <2>3. plan[1].atoms \in Nat
      BY <2>2 DEF Leg
    <2> QED BY <1>2, <1>3, <1>4, <1>5, <2>1, <2>3
  <1> QED BY <1>2, <1>3, <1>4, <1>5

LEMMA PlaceFacts ==
    ASSUME BookWalkAssumption, WalkStore, NEW b \in Books, NEW w \in Wants, PlaceOrder(b, w)
    PROVE  \E plan, r : Placed(w, plan, r)
  <1> DEFINE plan == WalkBook(b.offers, w, b.side)
             single == SizeSubswapTake(w, b.offers[1], b.side)
             walking == Len(plan) > 1
             first == IF walking THEN plan[1] ELSE [atoms |-> single.take, btc |-> single.btc]
             r == Record(Len(orders) + 1, first, walking)
  <1>1. /\ ~single.belowMin
        /\ orders' = Append(orders, [want |-> w, plan |-> plan])
        /\ recs' = Append(recs, r)
        /\ walking => walk' = [state |-> "running", order |-> Len(orders) + 1,
                               legs |-> plan, legIndex |-> 1, filled |-> 0]
        /\ ~walking => walk' = walk
        /\ reloads' = reloads /\ cut' = cut
    BY DEF PlaceOrder
  <1>2. /\ w \in Nat \ {0} /\ plan \in Seq(Leg) /\ Total(plan) <= w
        /\ single.take \in 1 .. w /\ single.btc \in Nat
    BY <1>1, PlacedPlan
  <1>3. walking \in BOOLEAN /\ Len(plan) \in Nat
    BY <1>2
  <1> HIDE DEF plan, single
  <1>4. /\ first.atoms \in Nat \ {0} /\ first.btc \in Nat /\ first.atoms <= w
        /\ walking => first.btc > 0 /\ first.atoms = plan[1].atoms
    <2>1. CASE walking
      <3>1. plan[1] \in Leg /\ 1 \in 0 .. Len(plan)
        BY <1>2, <1>3, <2>1
      <3>2. plan[1].atoms \in Nat \ {0} /\ plan[1].btc \in Nat \ {0}
        BY <3>1 DEF Leg
      <3>3. plan[1].atoms <= Total(plan) /\ Total(plan) \in Nat
        BY <1>2, <3>1, LegWithinPlan
      <3> QED BY <1>2, <2>1, <3>2, <3>3
    <2>2. CASE ~walking
      <3>1. first = [atoms |-> single.take, btc |-> single.btc]
        BY <2>2
      <3> QED BY <1>2, <2>2, <3>1
    <2> QED BY <2>1, <2>2
  <1>5. Len(orders) + 1 \in Nat /\ Len(orders) + 1 \in 1 .. Len(orders) + 1
    BY DEF WalkStore, WalkTypeOK
  <1> HIDE DEF walking, first
  <1>6. /\ GoodRow(r, Len(orders) + 1) /\ r.order = Len(orders) + 1
        /\ r.atoms = first.atoms /\ r.walk = walking /\ ~Settled(r)
    BY <1>3, <1>4, <1>5, NewRow
  <1>7. walking => Len(plan) > 1
    BY DEF walking
  <1> HIDE DEF r
  <1>8. r.atoms <= w /\ (r.walk => r.atoms = plan[1].atoms)
    BY <1>4, <1>6
  <1> QED BY <1>1, <1>2, <1>6, <1>7, <1>8 DEF Placed

\* What a walk in the slot is, with n orders placed.
GoodWalk(wk, n) ==
    wk = NoWalk \/ /\ wk \in Walks /\ wk.order \in 1 .. n
                   /\ wk.legIndex \in 1 .. Len(wk.legs) + 1
                   /\ wk.state = "running" => wk.legIndex <= Len(wk.legs)

LEMMA StoreIs ==
    WalkStore <=> /\ GoodWalk(walk, Len(orders))
                  /\ orders \in Seq(Orders) /\ recs \in Seq(Trades)
                  /\ \A i \in 1 .. Len(recs) : GoodRow(recs[i], Len(orders))
                  /\ reloads \in Nat /\ cut \subseteq 1 .. Len(orders)
  <1> SUFFICES ASSUME orders \in Seq(Orders), recs \in Seq(Trades)
               PROVE  WalkStore <=>
                        /\ GoodWalk(walk, Len(orders))
                        /\ \A i \in 1 .. Len(recs) : GoodRow(recs[i], Len(orders))
                        /\ reloads \in Nat /\ cut \subseteq 1 .. Len(orders)
    BY DEF WalkStore, WalkTypeOK
  <1>1. DOMAIN orders = 1 .. Len(orders)
    OBVIOUS
  <1>2. GoodWalk(walk, Len(orders)) <=>
            /\ walk = NoWalk \/ walk \in Walks
            /\ walk # NoWalk =>
                  /\ walk.order \in DOMAIN orders
                  /\ walk.legIndex \in 1 .. Len(walk.legs) + 1
                  /\ walk.state = "running" => walk.legIndex <= Len(walk.legs)
    BY <1>1 DEF GoodWalk
  <1> QED BY <1>1, <1>2, RowsAre DEF WalkStore, WalkTypeOK

LEMMA StoreWillBe ==
    ASSUME GoodWalk(walk', Len(orders')), orders' \in Seq(Orders), recs' \in Seq(Trades),
           \A i \in 1 .. Len(recs') : GoodRow(recs'[i], Len(orders')),
           reloads' \in Nat, cut' \subseteq 1 .. Len(orders')
    PROVE  WalkStore'
  <1>1. DOMAIN orders' = 1 .. Len(orders') /\ DOMAIN recs' = 1 .. Len(recs')
    OBVIOUS
  <1>2. /\ walk' = NoWalk \/ walk' \in Walks
        /\ walk' # NoWalk =>
              /\ walk'.order \in DOMAIN orders'
              /\ walk'.legIndex \in 1 .. Len(walk'.legs) + 1
              /\ walk'.state = "running" => walk'.legIndex <= Len(walk'.legs)
    BY <1>1 DEF GoodWalk
  <1>3. /\ \A i \in DOMAIN recs' :
              recs'[i].order \in DOMAIN orders' /\ (recs'[i].walk => recs'[i].btc > 0)
        /\ DriversAtWork'
    BY <1>1 DEF GoodRow, DriversAtWork
  <1> QED BY <1>1, <1>2, <1>3 DEF WalkStore, WalkTypeOK

LEMMA RunningWalk ==
    ASSUME WalkStore, HasWalkInFlight
    PROVE  /\ walk \in Walks /\ walk # NoWalk /\ walk.order \in 1 .. Len(orders)
           /\ walk.legs \in Seq(Leg) /\ walk.legIndex \in 1 .. Len(walk.legs)
           /\ walk.filled \in Nat /\ walk.state = "running"
  <1>1. GoodWalk(walk, Len(orders))
    BY StoreIs
  <1>2. walk # NoWalk
    BY DEF HasWalkInFlight, NoWalk
  <1>3. walk \in Walks /\ walk.state = "running"
    BY <1>1, <1>2 DEF GoodWalk, HasWalkInFlight
  <1>4. walk.legs \in Seq(Leg) /\ walk.filled \in Nat /\ walk.legIndex \in Nat
    BY <1>3 DEF Walks
  <1>5. Len(walk.legs) \in Nat
    BY <1>4
  <1> QED BY <1>1, <1>2, <1>3, <1>4, <1>5 DEF GoodWalk

\* The walk moves on to its next leg.
NextRow == Record(walk.order, walk.legs[walk.legIndex + 1], TRUE)
MovesOn(i) ==
    /\ walk.legIndex + 1 <= Len(walk.legs)
    /\ recs' = Append(Idled(i), NextRow)
    /\ walk' \in Walks /\ walk'.state = "running"
    /\ GoodRow(NextRow, Len(orders)) /\ NextRow.order = walk.order /\ NextRow.walk
    /\ NextRow.atoms = walk.legs[walk.legIndex + 1].atoms /\ ~Settled(NextRow)
Completes(i) ==
    /\ walk.legIndex = Len(walk.legs)
    /\ recs' = Idled(i) /\ walk' \in Walks /\ walk'.state = "done"

LEMMA AdvanceFacts ==
    ASSUME WalkStore, NEW i \in DOMAIN recs, AdvanceWalk(i)
    PROVE  /\ HasWalkInFlight /\ recs[i].pc = "settled" /\ recs[i].walk /\ Settled(recs[i])
           /\ walk'.order = walk.order /\ walk'.legs = walk.legs
           /\ walk'.legIndex = walk.legIndex + 1 /\ walk'.filled = Counts
           /\ MovesOn(i) \/ Completes(i)
           /\ orders' = orders /\ reloads' = reloads /\ cut' = cut
  <1> DEFINE next == walk.legIndex + 1
  <1>1. /\ HasWalkInFlight /\ recs[i].pc = "settled"
        /\ orders' = orders /\ reloads' = reloads /\ cut' = cut
    BY DEF AdvanceWalk, GoesOn
  <1>2. recs[i].walk /\ Settled(recs[i])
    BY <1>1 DEF WalkStore, DriversAtWork, Settled
  <1>3. /\ walk \in Walks /\ walk.legs \in Seq(Leg) /\ walk.legIndex \in 1 .. Len(walk.legs)
        /\ walk.order \in 1 .. Len(orders) /\ walk.filled \in Nat /\ Len(walk.legs) \in Nat
        /\ Len(orders) \in Nat
    BY <1>1, RunningWalk DEF WalkStore, WalkTypeOK
  <1>4. next \in Nat /\ Counts \in Nat
    <2>1. walk.legs[walk.legIndex] \in Leg
      BY <1>3
    <2>2. walk.legs[walk.legIndex].atoms \in Nat
      BY <2>1 DEF Leg
    <2> QED BY <1>3, <2>2 DEF Counts
  <1>5. CASE next > Len(walk.legs)
    <2>1. /\ walk' = [walk EXCEPT !.filled = Counts, !.legIndex = next, !.state = "done"]
          /\ recs' = Idled(i)
      BY <1>5 DEF AdvanceWalk
    <2>2. /\ walk' \in Walks /\ walk'.state = "done" /\ walk'.order = walk.order
          /\ walk'.legs = walk.legs /\ walk'.legIndex = next /\ walk'.filled = Counts
      <3> HIDE DEF next
      <3> QED BY <1>3, <1>4, <2>1 DEF Walks
    <2>3. walk.legIndex = Len(walk.legs)
      BY <1>3, <1>5
    <2> QED BY <1>1, <1>2, <2>1, <2>2, <2>3 DEF Completes
  <1>6. CASE next <= Len(walk.legs)
    <2>1. /\ walk' = [walk EXCEPT !.filled = Counts, !.legIndex = next, !.state = "running"]
          /\ recs' = Append(Idled(i), NextRow)
      <3> DEFINE last == next > Len(walk.legs)
                 row  == Record(walk.order, walk.legs[next], TRUE)
      <3>1. ~last
        BY <1>3, <1>4, <1>6
      <3>2. /\ walk' = [walk EXCEPT !.filled = Counts, !.legIndex = next,
                                    !.state = IF last THEN "done" ELSE "running"]
            /\ recs' = IF last THEN Idled(i) ELSE Append(Idled(i), row)
        BY DEF AdvanceWalk
      <3>3. row = NextRow
        BY DEF NextRow
      <3> HIDE DEF last, row, next
      <3> QED BY <3>1, <3>2, <3>3
    <2>2. /\ walk' \in Walks /\ walk'.state = "running" /\ walk'.order = walk.order
          /\ walk'.legs = walk.legs /\ walk'.legIndex = next /\ walk'.filled = Counts
      <3> HIDE DEF next
      <3> QED BY <1>3, <1>4, <2>1 DEF Walks
    <2>3. walk.legs[next] \in Leg
      BY <1>3, <1>6
    <2>4. walk.legs[next].atoms \in Nat \ {0} /\ walk.legs[next].btc \in Nat
          /\ walk.legs[next].btc > 0
      BY <2>3 DEF Leg
    <2>5. /\ GoodRow(NextRow, Len(orders)) /\ NextRow.order = walk.order
          /\ NextRow.walk = TRUE /\ NextRow.atoms = walk.legs[next].atoms
          /\ ~Settled(NextRow)
      <3> DEFINE leg == walk.legs[next]
                 row == Record(walk.order, leg, TRUE)
      <3>1. NextRow = row
        BY DEF NextRow
      <3>2. leg.atoms \in Nat \ {0} /\ leg.btc \in Nat /\ leg.btc > 0 /\ TRUE \in BOOLEAN
        BY <2>4
      <3> HIDE DEF leg
      <3>3. /\ GoodRow(row, Len(orders)) /\ row.order = walk.order
            /\ row.walk = TRUE /\ row.atoms = leg.atoms /\ ~Settled(row)
        <4>1. Len(orders) \in Nat /\ walk.order \in 1 .. Len(orders)
          BY <1>3
        <4> DEFINE walking == TRUE
        <4>2. walking \in BOOLEAN /\ (walking => leg.btc > 0)
          BY <3>2
        <4> HIDE DEF walking
        <4>3. /\ GoodRow(Record(walk.order, leg, walking), Len(orders))
              /\ Record(walk.order, leg, walking).order = walk.order
              /\ Record(walk.order, leg, walking).walk = walking
              /\ Record(walk.order, leg, walking).atoms = leg.atoms
              /\ ~Settled(Record(walk.order, leg, walking))
          BY <3>2, <4>1, <4>2, NewRow
        <4> QED BY <4>3 DEF walking
      <3> HIDE DEF row
      <3> QED BY <3>1, <3>3 DEF leg
    <2> QED BY <1>1, <1>2, <1>6, <2>1, <2>2, <2>5 DEF MovesOn
  <1> QED BY <1>3, <1>4, <1>5, <1>6

LEMMA StoreStep ==
    ASSUME BookWalkAssumption, WalkStore, [WalkNext]_walkVars
    PROVE  WalkStore'
  <1> DEFINE n == Len(orders)
  <1>0. /\ GoodWalk(walk, n) /\ orders \in Seq(Orders) /\ recs \in Seq(Trades)
        /\ \A i \in 1 .. Len(recs) : GoodRow(recs[i], n)
        /\ reloads \in Nat /\ cut \subseteq 1 .. n /\ n \in Nat
        /\ DOMAIN recs = 1 .. Len(recs)
    BY StoreIs DEF WalkStore, WalkTypeOK
  <1>1. CASE \E b \in Books, w \in Wants : PlaceOrder(b, w)
    <2>1. PICK b \in Books, w \in Wants : PlaceOrder(b, w)
      BY <1>1
    <2>2. PICK plan, r : Placed(w, plan, r)
      BY <2>1, PlaceFacts
    <2>3. orders' \in Seq(Orders) /\ Len(orders') = n + 1
      BY <1>0, <2>2 DEF Placed, Orders
    <2>4. recs' \in Seq(Trades) /\ \A i \in 1 .. Len(recs') : GoodRow(recs'[i], n + 1)
      <3>1. GoodRow(r, n + 1) /\ recs' = Append(recs, r) /\ n + 1 \in Nat /\ n <= n + 1
        BY <1>0, <2>2 DEF Placed
      <3> QED BY <1>0, <3>1, RowsAppended
    <2>5. GoodWalk(walk', n + 1)
      <3>1. CASE r.walk
        <4>1. /\ walk' = [state |-> "running", order |-> n + 1, legs |-> plan,
                          legIndex |-> 1, filled |-> 0]
              /\ plan \in Seq(Leg) /\ Len(plan) > 1 /\ Len(plan) \in Nat
          BY <2>2, <3>1 DEF Placed
        <4> HIDE DEF n
        <4>2. walk' \in Walks /\ walk'.order = n + 1 /\ walk'.legIndex = 1 /\ walk'.legs = plan
          BY <1>0, <4>1 DEF Walks
        <4> QED BY <1>0, <4>1, <4>2 DEF GoodWalk
      <3>2. CASE ~r.walk
        BY <1>0, <2>2, <3>2 DEF Placed, GoodWalk
      <3> QED BY <3>1, <3>2
    <2>6. reloads' \in Nat /\ cut' \subseteq 1 .. n + 1
      BY <1>0, <2>2 DEF Placed
    <2> QED BY <2>3, <2>4, <2>5, <2>6, StoreWillBe
  <1>2. CASE Quiet
    <2>1. /\ recs' \in Seq(Trades) /\ SameLegs(recs, recs') /\ orders' = orders
          /\ DriversAtWork'
      BY <1>2, QuietSteps
    <2>2. \A i \in 1 .. Len(recs') : GoodRow(recs'[i], n)
      <3>1. Len(recs') = Len(recs) /\ DOMAIN recs' = 1 .. Len(recs)
        BY <2>1 DEF SameLegs
      <3>2. \A i \in 1 .. Len(recs) : recs'[i] \in Trades
        BY <2>1, <3>1, RecordAt
      <3> QED BY <1>0, <2>1, <3>1, <3>2 DEF GoodRow, SameLegs, DriversAtWork
    <2>3. GoodWalk(walk', n)
      <3>1. CASE walk' = walk
        BY <1>0, <3>1
      <3>2. CASE \E i \in DOMAIN recs : StopWalk(i)
        <4>1. HasWalkInFlight /\ walk' = [walk EXCEPT !.state = "stopped"]
          BY <3>2 DEF StopWalk
        <4>2. walk \in Walks /\ walk # NoWalk
          BY <4>1, RunningWalk
        <4>3. /\ walk' \in Walks /\ walk'.state = "stopped" /\ walk'.order = walk.order
              /\ walk'.legs = walk.legs /\ walk'.legIndex = walk.legIndex
          BY <4>1, <4>2 DEF Walks
        <4> QED BY <1>0, <4>2, <4>3 DEF GoodWalk
      <3> QED BY <1>2, <3>1, <3>2 DEF Reloads, DriverEnds, ReportsInVain, Resumes, Quiet
    <2>4. reloads' \in Nat
      <3>1. CASE Reloads
        <4>1. reloads' = reloads + 1
          BY <3>1 DEF Reloads
        <4> QED BY <1>0, <4>1
      <3>2. CASE ~Reloads
        <4>1. reloads' = reloads
          BY <1>2, <3>2 DEF DriverEnds, ReportsInVain, StopWalk, Resumes, Quiet
        <4> QED BY <1>0, <4>1
      <3> QED BY <3>1, <3>2
    <2>5. cut' \subseteq 1 .. n
      <3>1. CASE Reloads
        <4>1. cut' = IF HasWalkInFlight THEN cut \cup {walk.order} ELSE cut
          BY <3>1 DEF Reloads
        <4>2. HasWalkInFlight => walk.order \in 1 .. n
          BY RunningWalk
        <4> QED BY <1>0, <4>1, <4>2
      <3>2. CASE ~Reloads
        BY <1>0, <1>2, <3>2 DEF DriverEnds, ReportsInVain, StopWalk, Resumes, Quiet
      <3> QED BY <3>1, <3>2
    <2>6. orders' \in Seq(Orders) /\ Len(orders') = n
      BY <1>0, <2>1
    <2> QED BY <2>1, <2>2, <2>3, <2>4, <2>5, <2>6, StoreWillBe
  <1>3. CASE \E i \in DOMAIN recs : AdvanceWalk(i)
    <2>1. PICK i \in DOMAIN recs : AdvanceWalk(i)
      BY <1>3
    <2>2. /\ HasWalkInFlight /\ walk'.order = walk.order /\ walk'.legs = walk.legs
          /\ walk'.legIndex = walk.legIndex + 1
          /\ MovesOn(i) \/ Completes(i)
          /\ orders' = orders /\ reloads' = reloads /\ cut' = cut
      BY <2>1, AdvanceFacts
    <2>3. /\ walk.order \in 1 .. n /\ walk.legIndex \in 1 .. Len(walk.legs)
          /\ Len(walk.legs) \in Nat
      BY <2>2, RunningWalk
    <2>4. GoodWalk(walk', n)
      <3> DEFINE wk == walk'
      <3>1. /\ wk \in Walks /\ wk.order = walk.order /\ wk.legs = walk.legs
            /\ wk.legIndex = walk.legIndex + 1
            /\ wk.state = "running" => walk.legIndex + 1 <= Len(walk.legs)
        <4>1. CASE MovesOn(i)
          BY <2>2, <4>1 DEF MovesOn
        <4>2. CASE Completes(i)
          <5>1. wk.state = "done" /\ wk \in Walks
            BY <4>2 DEF Completes
          <5>2. wk.state # "running"
            BY <5>1
          <5> QED BY <2>2, <5>1, <5>2
        <4> QED BY <2>2, <4>1, <4>2
      <3>2. wk.legIndex \in 1 .. Len(wk.legs) + 1
        BY <2>3, <3>1
      <3> HIDE DEF wk
      <3>3. GoodWalk(wk, n)
        BY <2>3, <3>1, <3>2 DEF GoodWalk
      <3> QED BY <3>3 DEF wk
    <2>5. /\ Idled(i) \in Seq(Trades)
          /\ \A j \in 1 .. Len(Idled(i)) : GoodRow(Idled(i)[j], n)
      BY <2>1, IdledLegs DEF SameLegs
    <2>6. recs' \in Seq(Trades) /\ \A j \in 1 .. Len(recs') : GoodRow(recs'[j], n)
      <3>1. CASE Completes(i)
        BY <2>5, <3>1 DEF Completes
      <3>2. CASE MovesOn(i)
        <4>1. recs' = Append(Idled(i), NextRow) /\ GoodRow(NextRow, n) /\ n <= n
          BY <1>0, <3>2 DEF MovesOn
        <4> QED BY <1>0, <2>5, <4>1, RowsAppended
      <3> QED BY <2>2, <3>1, <3>2
    <2>7. orders' \in Seq(Orders) /\ Len(orders') = n
      BY <1>0, <2>2
    <2> QED BY <1>0, <2>2, <2>4, <2>6, <2>7, StoreWillBe
  <1>4. CASE ClearWalk \/ UNCHANGED walkVars
    <2>1. /\ walk' = NoWalk \/ walk' = walk
          /\ orders' = orders /\ recs' = recs /\ reloads' = reloads /\ cut' = cut
      BY <1>4 DEF ClearWalk, walkVars
    <2>2. GoodWalk(walk', n)
      BY <1>0, <2>1 DEF GoodWalk
    <2> QED BY <1>0, <2>1, <2>2, StoreWillBe
  <1> QED BY <1>1, <1>2, <1>3, <1>4 DEF WalkNext, Quiet

-----------------------------------------------------------------------------
(* One walk at a time                                                       *)

\* The ranges the sums and the quantifiers run over.
Ranges ==
    /\ orders \in Seq(Orders) /\ recs \in Seq(Trades)
    /\ DOMAIN orders = 1 .. Len(orders) /\ DOMAIN recs = 1 .. Len(recs)
    /\ Len(orders) \in Nat /\ Len(recs) \in Nat

LEMMA StoreRanges ==
    ASSUME WalkStore
    PROVE  /\ Ranges
           /\ \A i \in 1 .. Len(recs) : GoodRow(recs[i], Len(orders))
           /\ \A o \in 1 .. Len(orders) : orders[o] \in Orders /\ orders[o].want \in Nat
                                          /\ orders[o].plan \in Seq(Leg)
  <1>1. Ranges
    BY StoreIs DEF Ranges
  <1>2. \A i \in 1 .. Len(recs) : GoodRow(recs[i], Len(orders))
    BY StoreIs
  <1>3. \A o \in 1 .. Len(orders) : orders[o] \in Orders
    BY <1>1 DEF Ranges
  <1>4. \A o \in 1 .. Len(orders) : orders[o].want \in Nat /\ orders[o].plan \in Seq(Leg)
    BY <1>3 DEF Orders
  <1> QED BY <1>1, <1>2, <1>3, <1>4

LEMMA WalkStays ==
    ASSUME Quiet
    PROVE  \/ walk' = walk
           \/ \E i \in DOMAIN recs : StopWalk(i)
  BY DEF Quiet, Reloads, DriverEnds, ReportsInVain, Resumes

LEMMA StoppedWalk ==
    ASSUME WalkStore, NEW i \in DOMAIN recs, StopWalk(i)
    PROVE  /\ HasWalkInFlight /\ walk'.state = "stopped" /\ walk' \in Walks
           /\ walk'.order = walk.order /\ walk'.legs = walk.legs
           /\ walk'.filled = walk.filled
           /\ recs[i].walk /\ Driven(recs[i]) /\ recs' = Idled(i)
  <1>1. /\ HasWalkInFlight /\ walk' = [walk EXCEPT !.state = "stopped"]
        /\ recs[i].pc \in {"settled", "unsettled"} /\ recs' = Idled(i)
    BY DEF StopWalk
  <1>2. walk \in Walks
    BY <1>1, RunningWalk
  <1>3. /\ walk' \in Walks /\ walk'.state = "stopped" /\ walk'.order = walk.order
        /\ walk'.legs = walk.legs /\ walk'.filled = walk.filled
    BY <1>1, <1>2 DEF Walks
  <1>4. recs[i].walk /\ Driven(recs[i])
    BY <1>1 DEF WalkStore, DriversAtWork, Driven
  <1> QED BY <1>1, <1>3, <1>4

\* The one driver of a running walk is that of the leg it is at.
LEMMA OneDriver ==
    ASSUME WalkInv, NEW i \in DOMAIN recs, recs[i].walk, Driven(recs[i])
    PROVE  /\ HasWalkInFlight /\ LegUnderWay(i)
           /\ \A j \in DOMAIN recs : recs[j].walk /\ Driven(recs[j]) => j = i
  <1>1. HasWalkInFlight /\ recs[i].order = walk.order
    BY DEF WalkInv, DriversFollow
  <1>2. PICK l \in DOMAIN recs : LegUnderWay(l)
    BY <1>1 DEF WalkInv, RunsInOrder
  <1>3. l = i
    BY <1>1, <1>2 DEF LegUnderWay
  <1>4. ASSUME NEW j \in DOMAIN recs, recs[j].walk, Driven(recs[j]) PROVE j = i
    <2>1. recs[j].order = walk.order
      BY <1>4 DEF WalkInv, DriversFollow
    <2> QED BY <1>2, <1>3, <1>4, <2>1 DEF LegUnderWay
  <1> QED BY <1>1, <1>2, <1>3, <1>4

LEMMA QuietKeeps ==
    ASSUME WalkInv, WalkStore', Quiet
    PROVE  (OrdersFit /\ DriversFollow /\ OneLegLive /\ RunsInOrder /\ SlotIsTrue)'
  <1>1. /\ recs' \in Seq(Trades) /\ SameLegs(recs, recs') /\ orders' = orders
    BY QuietSteps DEF WalkInv
  <1>2. /\ Ranges /\ DOMAIN recs' = 1 .. Len(recs) /\ WalkStore
    BY <1>1, StoreRanges DEF WalkInv, Ranges, SameLegs
  <1>3. recs \in Seq(Trades) /\ DOMAIN recs = 1 .. Len(recs)
    BY <1>2 DEF Ranges
  <1>4. \A o : /\ Asked(recs', o) = Asked(recs, o) /\ Filled(recs, o) <= Filled(recs', o)
               /\ Asked(recs, o) \in Nat /\ Filled(recs, o) \in Nat
               /\ Filled(recs', o) \in Nat /\ Filled(recs', o) <= Asked(recs', o)
    BY <1>1, <1>3, SameSums, RecordSums
  <1>5. OrdersFit'
    BY <1>1, <1>4 DEF WalkInv, OrdersFit
  <1>6. OneLegLive'
    BY <1>1, <1>2, <1>3 DEF WalkInv, OneLegLive, SameLegs
  <1>7. CASE walk' = walk
    <2>1. HasWalkInFlight' = HasWalkInFlight
      BY <1>7 DEF HasWalkInFlight
    <2>2. DriversFollow'
      BY <1>1, <1>2, <1>3, <1>7, <2>1 DEF WalkInv, DriversFollow, SameLegs
    <2>3. RunsInOrder'
      <3> SUFFICES ASSUME HasWalkInFlight
                   PROVE  /\ \E l \in 1 .. Len(recs) : LegUnderWay(l)'
                          /\ Asked(recs', walk.order) = PlanUpTo(walk.legIndex)
                          /\ walk.filled = PlanUpTo(walk.legIndex - 1)
        BY <1>2, <1>7, <2>1 DEF RunsInOrder, PlanUpTo
      <3>1. PICK l \in 1 .. Len(recs) : LegUnderWay(l)
        BY <1>3 DEF WalkInv, RunsInOrder
      <3>2. LegUnderWay(l)'
        BY <1>1, <1>2, <1>3, <1>7, <3>1 DEF LegUnderWay, SameLegs
      <3> QED BY <1>4, <3>2 DEF WalkInv, RunsInOrder
    <2>4. SlotIsTrue'
      <3> SUFFICES ASSUME walk # NoWalk
                   PROVE  /\ walk.legs = orders[walk.order].plan
                          /\ walk.filled <= Filled(recs', walk.order)
                          /\ walk.state = "done" =>
                                /\ Asked(recs', walk.order) = Total(orders[walk.order].plan)
                                /\ Filled(recs', walk.order) = Total(orders[walk.order].plan)
        BY <1>1, <1>7 DEF SlotIsTrue
      <3>1. walk.filled \in Nat
        BY StoreIs DEF WalkInv, GoodWalk, Walks
      <3> QED BY <1>4, <3>1 DEF WalkInv, SlotIsTrue
    <2> QED BY <1>5, <1>6, <2>2, <2>3, <2>4
  <1>8. CASE \E i \in DOMAIN recs : StopWalk(i)
    <2>1. PICK i \in DOMAIN recs : StopWalk(i)
      BY <1>8
    <2>2. /\ HasWalkInFlight /\ walk'.state = "stopped" /\ walk' \in Walks
          /\ walk'.order = walk.order /\ walk'.legs = walk.legs
          /\ walk'.filled = walk.filled
          /\ recs[i].walk /\ Driven(recs[i]) /\ recs' = Idled(i)
      BY <1>2, <2>1, StoppedWalk
    <2>3. ~HasWalkInFlight'
      BY <2>2 DEF HasWalkInFlight
    <2>4. ~Driven(recs'[i])
      BY <1>2, <2>2, IdledLegs
    <2>5. DriversFollow'
      <3> SUFFICES ASSUME NEW j \in 1 .. Len(recs), recs'[j].walk, Driven(recs'[j])
                   PROVE  FALSE
        BY <1>2 DEF DriversFollow
      <3>1. recs[j].walk /\ Driven(recs[j])
        BY <1>1 DEF SameLegs
      <3>2. j = i
        BY <1>3, <2>2, <3>1, OneDriver
      <3> QED BY <2>4, <3>2
    <2>6. RunsInOrder'
      BY <2>3 DEF RunsInOrder
    <2>7. SlotIsTrue'
      <3>1. walk # NoWalk /\ walk.filled \in Nat
        BY <1>2, <2>2, RunningWalk
      <3>2. walk.legs = orders[walk.order].plan /\ walk.filled <= Filled(recs, walk.order)
        BY <3>1 DEF WalkInv, SlotIsTrue
      <3>3. walk.filled <= Filled(recs', walk.order)
        BY <1>4, <3>1, <3>2
      <3>4. walk'.state # "done"
        BY <2>2
      <3> QED BY <1>1, <2>2, <3>2, <3>3, <3>4 DEF SlotIsTrue
    <2> QED BY <1>5, <1>6, <2>5, <2>6, <2>7
  <1> QED BY <1>7, <1>8, WalkStays

\* The walk moves on only from a leg that settled, so all of its order has.
LEMMA AdvanceState ==
    ASSUME WalkInv, NEW i \in DOMAIN recs, AdvanceWalk(i)
    PROVE  /\ \A j \in 1 .. Len(recs) : recs[j].order = walk.order => Settled(recs[j])
           /\ \A j \in 1 .. Len(recs) : recs[j].walk /\ Driven(recs[j]) => j = i
           /\ \A j \in 1 .. Len(recs) :
                 recs[j].order = walk.order /\ j # i => ~Driven(recs[j])
           /\ Filled(recs, walk.order) = Asked(recs, walk.order)
           /\ Counts = Asked(recs, walk.order)
           /\ Asked(recs, walk.order) = PlanUpTo(walk.legIndex)
  <1>1. WalkStore /\ Ranges
    BY StoreRanges DEF WalkInv
  <1>2. /\ HasWalkInFlight /\ recs[i].pc = "settled" /\ recs[i].walk /\ Settled(recs[i])
        /\ Driven(recs[i])
    BY <1>1, AdvanceFacts DEF Driven
  <1>3. LegUnderWay(i) /\ \A j \in DOMAIN recs : recs[j].walk /\ Driven(recs[j]) => j = i
    BY <1>2, OneDriver
  <1>4. /\ \A j \in 1 .. Len(recs) : recs[j].order = walk.order => Settled(recs[j])
        /\ \A j \in 1 .. Len(recs) : recs[j].order = walk.order /\ j # i => ~Driven(recs[j])
    BY <1>1, <1>2, <1>3 DEF LegUnderWay, Ranges
  <1>5. Filled(recs, walk.order) = Asked(recs, walk.order)
    BY <1>1, <1>4, RecordSums DEF Ranges
  <1>6. /\ Asked(recs, walk.order) = PlanUpTo(walk.legIndex)
        /\ walk.filled = PlanUpTo(walk.legIndex - 1)
    BY <1>2 DEF WalkInv, RunsInOrder
  <1>7. walk.legs \in Seq(Leg) /\ walk.legIndex \in 1 .. Len(walk.legs)
    BY <1>1, <1>2, RunningWalk
  <1>8. Counts = PlanUpTo(walk.legIndex)
    <2>1. walk.legIndex \in 0 .. Len(walk.legs) /\ walk.legIndex > 0
      BY <1>7
    <2>2. SumTo(LegAtoms(walk.legs), walk.legIndex)
             = SumTo(LegAtoms(walk.legs), walk.legIndex - 1) + walk.legs[walk.legIndex].atoms
      BY <1>7, <2>1, LegSums
    <2> QED BY <1>6, <2>2 DEF Counts, PlanUpTo
  <1> QED BY <1>1, <1>3, <1>4, <1>5, <1>6, <1>8 DEF Ranges

\* What the walk of a leg just idled leaves in the store.
LEMMA AdvanceSums ==
    ASSUME WalkInv, NEW i \in DOMAIN recs, AdvanceWalk(i)
    PROVE  /\ Idled(i) \in Seq(Trades) /\ SameLegs(recs, Idled(i))
           /\ \A j \in 1 .. Len(recs) :
                 /\ Idled(i)[j].order = walk.order
                       => Settled(Idled(i)[j]) /\ ~Driven(Idled(i)[j])
                 /\ ~(Idled(i)[j].walk /\ Driven(Idled(i)[j]))
           /\ \A o : /\ Asked(Idled(i), o) = Asked(recs, o) /\ Asked(recs, o) \in Nat
                     /\ Filled(recs, o) <= Filled(Idled(i), o)
                     /\ Filled(recs, o) \in Nat /\ Filled(Idled(i), o) \in Nat
                     /\ Filled(Idled(i), o) <= Asked(Idled(i), o)
  <1> DEFINE rs == Idled(i)
  <1>1. WalkStore /\ recs \in Seq(Trades)
    BY StoreRanges DEF WalkInv, Ranges
  <1>2. rs \in Seq(Trades) /\ SameLegs(recs, rs) /\ ~Driven(rs[i])
    BY <1>1, IdledLegs
  <1>3. /\ \A j \in 1 .. Len(recs) : recs[j].order = walk.order => Settled(recs[j])
        /\ \A j \in 1 .. Len(recs) : recs[j].walk /\ Driven(recs[j]) => j = i
        /\ \A j \in 1 .. Len(recs) : recs[j].order = walk.order /\ j # i => ~Driven(recs[j])
    BY AdvanceState
  <1> HIDE DEF rs
  <1>4. \A j \in 1 .. Len(recs) :
           /\ rs[j].order = walk.order => Settled(rs[j]) /\ ~Driven(rs[j])
           /\ ~(rs[j].walk /\ Driven(rs[j]))
    BY <1>2, <1>3 DEF SameLegs
  <1>5. \A o : /\ Asked(rs, o) = Asked(recs, o) /\ Asked(recs, o) \in Nat
               /\ Filled(recs, o) <= Filled(rs, o)
               /\ Filled(recs, o) \in Nat /\ Filled(rs, o) \in Nat
               /\ Filled(rs, o) <= Asked(rs, o)
    BY <1>1, <1>2, SameSums, RecordSums
  <1> QED BY <1>2, <1>4, <1>5 DEF rs

LEMMA CompletesKeeps ==
    ASSUME WalkInv, NEW i \in DOMAIN recs, AdvanceWalk(i), Completes(i)
    PROVE  (OrdersFit /\ DriversFollow /\ OneLegLive /\ RunsInOrder /\ SlotIsTrue)'
  <1>1. WalkStore /\ Ranges
    BY StoreRanges DEF WalkInv
  <1>2. /\ HasWalkInFlight /\ walk'.order = walk.order /\ walk'.legs = walk.legs
        /\ walk'.filled = Counts /\ orders' = orders
    BY <1>1, AdvanceFacts
  <1>3. walk.legIndex = Len(walk.legs) /\ recs' = Idled(i) /\ walk'.state = "done"
    BY DEF Completes
  <1>4. /\ recs' \in Seq(Trades) /\ SameLegs(recs, recs')
        /\ \A j \in 1 .. Len(recs) : ~(recs'[j].walk /\ Driven(recs'[j]))
        /\ \A o : /\ Asked(recs', o) = Asked(recs, o) /\ Asked(recs, o) \in Nat
                  /\ Filled(recs, o) <= Filled(recs', o)
                  /\ Filled(recs, o) \in Nat /\ Filled(recs', o) \in Nat
                  /\ Filled(recs', o) <= Asked(recs', o)
    BY <1>3, AdvanceSums
  <1>5. /\ DOMAIN recs' = 1 .. Len(recs) /\ DOMAIN recs = 1 .. Len(recs)
        /\ recs \in Seq(Trades)
    BY <1>1, <1>4 DEF SameLegs, Ranges
  <1>6. OrdersFit'
    BY <1>2, <1>4 DEF WalkInv, OrdersFit
  <1>7. OneLegLive'
    BY <1>4, <1>5 DEF WalkInv, OneLegLive, SameLegs
  <1>8. DriversFollow' /\ RunsInOrder'
    BY <1>3, <1>4, <1>5 DEF DriversFollow, RunsInOrder, HasWalkInFlight
  <1>9. SlotIsTrue'
    <2>1. walk # NoWalk /\ walk.legs \in Seq(Leg)
      BY <1>1, <1>2, RunningWalk
    <2>2. walk.legs = orders[walk.order].plan
      BY <2>1 DEF WalkInv, SlotIsTrue
    <2>3. /\ Filled(recs, walk.order) = Asked(recs, walk.order)
          /\ Counts = Asked(recs, walk.order)
          /\ Asked(recs, walk.order) = PlanUpTo(walk.legIndex)
      BY AdvanceState
    <2>4. PlanUpTo(Len(walk.legs)) = Total(walk.legs)
      <3>1. Len(walk.legs) \in 0 .. Len(walk.legs)
        BY <2>1
      <3> QED BY <2>1, <3>1, LegSums DEF PlanUpTo
    <2>5. /\ Asked(recs', walk.order) = Total(walk.legs)
          /\ Filled(recs', walk.order) = Total(walk.legs)
          /\ Counts = Filled(recs', walk.order)
      BY <1>3, <1>4, <2>3, <2>4
    <2>6. Counts <= Filled(recs', walk.order)
      BY <1>4, <2>5
    <2> QED BY <1>2, <2>2, <2>5, <2>6 DEF SlotIsTrue
  <1> QED BY <1>6, <1>7, <1>8, <1>9

LEMMA MovesOnKeeps ==
    ASSUME WalkInv, NEW i \in DOMAIN recs, AdvanceWalk(i), MovesOn(i)
    PROVE  (OrdersFit /\ DriversFollow /\ OneLegLive /\ RunsInOrder /\ SlotIsTrue)'
  <1> DEFINE rs == Idled(i)
             n == Len(recs)
             next == walk.legIndex + 1
             r == NextRow
  <1>1. WalkStore /\ Ranges
    BY StoreRanges DEF WalkInv
  <1>2. /\ HasWalkInFlight /\ walk'.order = walk.order /\ walk'.legs = walk.legs
        /\ walk'.legIndex = next /\ walk'.filled = Counts /\ orders' = orders
    BY <1>1, AdvanceFacts
  <1>3. /\ next <= Len(walk.legs) /\ recs' = Append(rs, r) /\ walk'.state = "running"
        /\ GoodRow(r, Len(orders)) /\ r.order = walk.order /\ r.walk
        /\ r.atoms = walk.legs[next].atoms /\ ~Settled(r) /\ r \in Trades
    BY DEF MovesOn, GoodRow
  <1>4. /\ rs \in Seq(Trades) /\ SameLegs(recs, rs)
        /\ \A j \in 1 .. n : /\ rs[j].order = walk.order => Settled(rs[j]) /\ ~Driven(rs[j])
                             /\ ~(rs[j].walk /\ Driven(rs[j]))
        /\ \A o : /\ Asked(rs, o) = Asked(recs, o) /\ Asked(recs, o) \in Nat
                  /\ Filled(recs, o) <= Filled(rs, o)
                  /\ Filled(recs, o) \in Nat /\ Filled(rs, o) \in Nat
    BY AdvanceSums
  <1>5. /\ walk # NoWalk /\ walk.legs \in Seq(Leg) /\ walk.legIndex \in 1 .. Len(walk.legs)
        /\ walk.order \in 1 .. Len(orders) /\ Len(walk.legs) \in Nat
    BY <1>1, <1>2, RunningWalk
  <1>6. /\ Filled(recs, walk.order) = Asked(recs, walk.order)
        /\ Counts = Asked(recs, walk.order)
        /\ Asked(recs, walk.order) = PlanUpTo(walk.legIndex)
    BY AdvanceState
  <1>7. walk.legs = orders[walk.order].plan
    BY <1>5 DEF WalkInv, SlotIsTrue
  <1> HIDE DEF rs, r
  <1>8. /\ n \in Nat /\ Len(rs) = n /\ recs' \in Seq(Trades)
        /\ DOMAIN recs' = 1 .. n + 1 /\ DOMAIN recs = 1 .. n
        /\ recs'[n + 1] = r /\ \A j \in 1 .. n : recs'[j] = rs[j]
    <2>1. /\ n \in Nat /\ Len(rs) = n /\ DOMAIN recs = 1 .. n /\ r \in Trades
          /\ recs' = Append(rs, r)
      BY <1>1, <1>3, <1>4 DEF SameLegs, Ranges
    <2> HIDE DEF n
    <2> QED BY <1>4, <2>1
  <1>9. \A o : /\ Asked(recs', o) = Asked(recs, o) + (IF walk.order = o THEN r.atoms ELSE 0)
               /\ Filled(recs, o) <= Filled(recs', o)
    <2> SUFFICES ASSUME NEW o
                 PROVE  /\ Asked(recs', o) = Asked(recs, o)
                                             + (IF walk.order = o THEN r.atoms ELSE 0)
                        /\ Filled(recs, o) <= Filled(recs', o)
      OBVIOUS
    <2>1. /\ Asked(recs', o) = Asked(rs, o) + (IF walk.order = o THEN r.atoms ELSE 0)
          /\ Filled(rs, o) <= Filled(recs', o)
      BY <1>3, <1>4, MoreSums
    <2>2. Filled(recs', o) \in Nat
      BY <1>8, RecordSums
    <2> QED BY <1>4, <2>1, <2>2
  <1> DEFINE legs == walk.legs
             k == walk.legIndex
  <1>10. /\ PlanUpTo(k) = SumTo(LegAtoms(legs), k)
         /\ SumTo(LegAtoms(legs), next) = SumTo(LegAtoms(legs), k) + legs[next].atoms
         /\ SumTo(LegAtoms(legs), next) <= Total(legs)
         /\ SumTo(LegAtoms(legs), next) \in Nat /\ Total(legs) \in Nat
    <2>1. next \in 0 .. Len(legs) /\ next > 0 /\ next - 1 = k
      BY <1>3, <1>5
    <2>2. SumTo(LegAtoms(legs), next) = SumTo(LegAtoms(legs), next - 1) + legs[next].atoms
      BY <1>5, <2>1, LegSums
    <2>3. /\ SumTo(LegAtoms(legs), next) <= Total(legs)
          /\ SumTo(LegAtoms(legs), next) \in Nat /\ Total(legs) \in Nat
      BY <1>5, <2>1, LegWithinPlan
    <2> QED BY <2>1, <2>2, <2>3 DEF PlanUpTo
  <1>11. Asked(recs', walk.order) = SumTo(LegAtoms(legs), next)
    BY <1>3, <1>6, <1>9, <1>10
  <1>12. OrdersFit'
    <2> SUFFICES ASSUME NEW o \in DOMAIN orders
                 PROVE  /\ Asked(recs', o) <= orders[o].want
                        /\ Total(orders[o].plan) <= orders[o].want
      BY <1>2 DEF OrdersFit
    <2>1. Asked(recs, o) <= orders[o].want /\ Total(orders[o].plan) <= orders[o].want
      BY DEF WalkInv, OrdersFit
    <2>2. orders[o].want \in Nat
      BY <1>1, StoreRanges DEF Ranges
    <2>3. CASE o = walk.order
      BY <1>7, <1>10, <1>11, <2>1, <2>2, <2>3
    <2>4. CASE o # walk.order
      <3>1. Asked(recs', o) = Asked(recs, o) + 0
        BY <1>9, <2>4
      <3> QED BY <1>4, <2>1, <3>1
    <2> QED BY <2>3, <2>4
  <1>13. OneLegLive'
    <2> SUFFICES ASSUME NEW a \in 1 .. n + 1, NEW b \in 1 .. n + 1,
                        recs'[a].order = recs'[b].order, Open(recs'[a]), Open(recs'[b])
                 PROVE  a = b
      BY <1>8 DEF OneLegLive
    <2>1. ASSUME NEW c \in 1 .. n, recs'[c].order = walk.order PROVE ~Open(recs'[c])
      BY <1>4, <1>8, <2>1 DEF Open, SubswapTerminal, Settled
    <2>2. CASE a \in 1 .. n /\ b \in 1 .. n
      <3>1. /\ recs[a].order = recs[b].order /\ Open(recs[a]) /\ Open(recs[b])
            /\ a \in DOMAIN recs /\ b \in DOMAIN recs
        BY <1>4, <1>8, <2>2 DEF SameLegs
      <3> QED BY <3>1 DEF WalkInv, OneLegLive
    <2>3. recs'[n + 1].order = walk.order
      BY <1>3, <1>8
    <2>4. CASE a = n + 1 \/ b = n + 1
      BY <1>8, <2>1, <2>3, <2>4
    <2> QED BY <1>8, <2>2, <2>4
  <1>14. DriversFollow'
    <2> SUFFICES ASSUME NEW j \in 1 .. n + 1, recs'[j].walk, Driven(recs'[j])
                 PROVE  HasWalkInFlight' /\ recs'[j].order = walk.order
      BY <1>2, <1>8 DEF DriversFollow
    <2>1. j = n + 1
      BY <1>4, <1>8
    <2> QED BY <1>3, <1>8, <2>1 DEF HasWalkInFlight
  <1>15. RunsInOrder'
    <2>1. \E l \in DOMAIN recs' : LegUnderWay(l)'
      <3>1. /\ recs'[n + 1].order = walk.order /\ recs'[n + 1].walk
            /\ recs'[n + 1].atoms = walk.legs[next].atoms
        BY <1>3, <1>8
      <3>2. ASSUME NEW j \in 1 .. n + 1, recs'[j].order = walk.order, j # n + 1
            PROVE  Settled(recs'[j]) /\ ~Driven(recs'[j])
        <4>1. j \in 1 .. n
          BY <1>8, <3>2
        <4> QED BY <1>4, <1>8, <3>2, <4>1
      <3>3. recs'[n + 1].atoms = walk'.legs[walk'.legIndex].atoms
        BY <1>2, <3>1
      <3>4. \A j \in DOMAIN recs' :
               recs'[j].order = walk'.order /\ j # n + 1
                  => Settled(recs'[j]) /\ ~Driven(recs'[j])
        BY <1>2, <1>8, <3>2
      <3>5. recs'[n + 1].order = walk'.order /\ recs'[n + 1].walk
        BY <1>2, <3>1
      <3>6. PICK l \in DOMAIN recs' : l = n + 1
        BY <1>8
      <3> HIDE DEF n
      <3>7. LegUnderWay(l)'
        BY <3>3, <3>4, <3>5, <3>6 DEF LegUnderWay
      <3> QED BY <3>7
    <2>2. PlanUpTo(walk.legIndex)' = SumTo(LegAtoms(legs), next)
      BY <1>2 DEF PlanUpTo
    <2>3. (PlanUpTo(walk.legIndex - 1))' = SumTo(LegAtoms(legs), k)
      <3>1. next - 1 = k
        BY <1>5
      <3>2. (PlanUpTo(walk.legIndex - 1))' = SumTo(LegAtoms(legs), next - 1)
        BY <1>2 DEF PlanUpTo
      <3> QED BY <3>1, <3>2
    <2>4. Asked(recs', walk'.order) = PlanUpTo(walk.legIndex)'
      BY <1>2, <1>11, <2>2
    <2>5. walk'.filled = (PlanUpTo(walk.legIndex - 1))'
      BY <1>2, <1>6, <1>10, <2>3
    <2> HIDE DEF legs, k, next
    <2> QED BY <2>1, <2>4, <2>5 DEF RunsInOrder
  <1>16. SlotIsTrue'
    <2>1. Counts <= Filled(recs', walk.order)
      BY <1>6, <1>9
    <2>2. walk'.state # "done"
      BY <1>3
    <2> QED BY <1>2, <1>7, <2>1, <2>2 DEF SlotIsTrue
  <1> QED BY <1>12, <1>13, <1>14, <1>15, <1>16

LEMMA PlaceKeeps ==
    ASSUME BookWalkAssumption, ~TwoWalks, WalkInv, NEW b \in Books, NEW w \in Wants,
           PlaceOrder(b, w)
    PROVE  (OrdersFit /\ DriversFollow /\ OneLegLive /\ RunsInOrder /\ SlotIsTrue)'
  <1> DEFINE n == Len(recs)
             m == Len(orders)
             o == m + 1
  <1>1. /\ WalkStore /\ Ranges
        /\ \A i \in 1 .. n : GoodRow(recs[i], m)
        /\ \A q \in 1 .. m : orders[q].want \in Nat
    BY StoreRanges DEF WalkInv
  <1>2. PICK plan, r : Placed(w, plan, r)
    BY <1>1, PlaceFacts
  <1>3. /\ w \in Nat /\ plan \in Seq(Leg) /\ Total(plan) <= w
        /\ r \in Trades /\ r.order = o /\ ~Settled(r) /\ r.atoms <= w
        /\ orders' = Append(orders, [want |-> w, plan |-> plan])
        /\ recs' = Append(recs, r)
    BY <1>2 DEF Placed, GoodRow
  <1>4. ASSUME NEW i \in 1 .. n PROVE ~(recs[i].walk /\ Driven(recs[i]))
    BY <1>1 DEF PlaceOrder, Ranges
  <1>5. /\ n \in Nat /\ m \in Nat /\ DOMAIN recs = 1 .. n /\ recs \in Seq(Trades)
        /\ DOMAIN orders = 1 .. m /\ orders \in Seq(Orders)
    BY <1>1 DEF Ranges
  <1>6. /\ DOMAIN recs' = 1 .. n + 1 /\ recs' \in Seq(Trades)
        /\ recs'[n + 1] = r /\ \A j \in 1 .. n : recs'[j] = recs[j]
    BY <1>3, <1>5
  <1>7. /\ DOMAIN orders' = 1 .. o
        /\ orders'[o].want = w /\ orders'[o].plan = plan
        /\ \A q \in 1 .. m : orders'[q] = orders[q]
    BY <1>3, <1>5
  <1>8. /\ \A i \in 1 .. n : recs[i].order \in 1 .. m
        /\ \A i \in 1 .. n : recs[i].order # o
    <2>1. \A i \in 1 .. n : recs[i].order \in 1 .. m
      BY <1>1 DEF GoodRow
    <2>2. \A q \in 1 .. m : q # o
      BY <1>5
    <2> HIDE DEF o, m, n
    <2> QED BY <2>1, <2>2
  <1> HIDE DEF n
  <1>9. \A q : /\ Asked(recs', q) = Asked(recs, q) + (IF r.order = q THEN r.atoms ELSE 0)
               /\ Filled(recs, q) <= Filled(recs', q)
               /\ Asked(recs, q) \in Nat /\ Filled(recs, q) \in Nat
               /\ Filled(recs', q) \in Nat /\ Filled(recs', q) <= Asked(recs', q)
    <2> SUFFICES ASSUME NEW q
                 PROVE  /\ Asked(recs', q) = Asked(recs, q) + (IF r.order = q THEN r.atoms ELSE 0)
                        /\ Filled(recs, q) <= Filled(recs', q)
                        /\ Asked(recs, q) \in Nat /\ Filled(recs, q) \in Nat
                        /\ Filled(recs', q) \in Nat /\ Filled(recs', q) <= Asked(recs', q)
      OBVIOUS
    <2>1. /\ Asked(recs', q) = Asked(recs, q) + (IF r.order = q THEN r.atoms ELSE 0)
          /\ Filled(recs, q) <= Filled(recs', q)
      BY <1>3, <1>5, MoreSums
    <2>2. Asked(recs, q) \in Nat /\ Filled(recs, q) \in Nat
      BY <1>5, RecordSums
    <2>3. Filled(recs', q) \in Nat /\ Filled(recs', q) <= Asked(recs', q)
      BY <1>6, RecordSums
    <2> QED BY <2>1, <2>2, <2>3
  <1>10. Asked(recs', o) = r.atoms /\ r.atoms \in Nat
    <2>1. \A i \in 1 .. Len(recs) : recs[i].order # o
      BY <1>8 DEF n
    <2>2. Asked(recs, o) = 0
      BY <1>5, <2>1, RecordSums
    <2>3. r.atoms \in Nat
      BY <1>3 DEF Trades
    <2> QED BY <1>3, <1>9, <2>2, <2>3
  <1>11. \A q \in 1 .. m : Asked(recs', q) = Asked(recs, q)
    <2> SUFFICES ASSUME NEW q \in 1 .. m PROVE Asked(recs', q) = Asked(recs, q)
      OBVIOUS
    <2>1. r.order # q
      BY <1>3, <1>5
    <2>2. Asked(recs', q) = Asked(recs, q) + 0
      BY <1>9, <2>1
    <2> QED BY <1>9, <2>2
  <1>12. OrdersFit'
    <2> SUFFICES ASSUME NEW q \in 1 .. o
                 PROVE  /\ Asked(recs', q) <= orders'[q].want
                        /\ Total(orders'[q].plan) <= orders'[q].want
      BY <1>7 DEF OrdersFit
    <2>1. CASE q = o
      BY <1>3, <1>7, <1>10, <2>1
    <2>2. CASE q \in 1 .. m
      <3>1. Asked(recs, q) <= orders[q].want /\ Total(orders[q].plan) <= orders[q].want
        BY <1>5, <2>2 DEF WalkInv, OrdersFit
      <3> QED BY <1>7, <1>11, <2>2, <3>1
    <2> QED BY <1>5, <2>1, <2>2
  <1>13. OneLegLive'
    <2> SUFFICES ASSUME NEW i \in 1 .. n + 1, NEW j \in 1 .. n + 1,
                        recs'[i].order = recs'[j].order, Open(recs'[i]), Open(recs'[j])
                 PROVE  i = j
      BY <1>6 DEF OneLegLive
    <2>1. CASE i \in 1 .. n /\ j \in 1 .. n
      <3>1. /\ recs[i].order = recs[j].order /\ Open(recs[i]) /\ Open(recs[j])
            /\ i \in DOMAIN recs /\ j \in DOMAIN recs
        BY <1>5, <1>6, <2>1
      <3> QED BY <3>1 DEF WalkInv, OneLegLive
    <2>2. CASE i = n + 1 \/ j = n + 1
      BY <1>3, <1>5, <1>6, <1>8, <2>2
    <2> QED BY <1>5, <2>1, <2>2
  <1>14. CASE r.walk
    <2>1. /\ Len(plan) > 1 /\ r.atoms = plan[1].atoms
          /\ walk' = [state |-> "running", order |-> o, legs |-> plan,
                      legIndex |-> 1, filled |-> 0]
      BY <1>2, <1>14 DEF Placed
    <2>2. /\ HasWalkInFlight' /\ walk'.state # "done" /\ walk'.order = o
          /\ walk'.legs = plan /\ walk'.legIndex = 1 /\ walk'.filled = 0
      BY <2>1 DEF HasWalkInFlight
    <2>3. DriversFollow'
      BY <1>3, <1>4, <1>5, <1>6, <2>2 DEF DriversFollow
    <2>4. /\ SumTo(LegAtoms(plan), 0) = 0 /\ SumTo(LegAtoms(plan), 1) = plan[1].atoms
      <3>1. 1 \in 0 .. Len(plan)
        BY <1>3, <2>1
      <3> QED BY <1>3, <3>1, LegWithinPlan
    <2>5. RunsInOrder'
      <3>1. PICK l \in DOMAIN recs' : l = n + 1
        BY <1>5, <1>6
      <3>2. \A i \in DOMAIN recs' : recs'[i].order = o => i = l
        BY <1>5, <1>6, <1>8, <3>1
      <3>3. LegUnderWay(l)'
        BY <1>3, <1>6, <1>14, <2>1, <2>2, <3>1, <3>2 DEF LegUnderWay
      <3>4. PlanUpTo(walk.legIndex)' = SumTo(LegAtoms(plan), 1)
        BY <2>2 DEF PlanUpTo
      <3>5. (PlanUpTo(walk.legIndex - 1))' = SumTo(LegAtoms(plan), 0)
        <4>1. walk'.legIndex - 1 = 0
          BY <2>2
        <4> QED BY <2>2, <4>1 DEF PlanUpTo
      <3> QED BY <1>10, <2>1, <2>2, <2>4, <3>3, <3>4, <3>5 DEF RunsInOrder
    <2>6. SlotIsTrue'
      BY <1>7, <1>9, <2>2 DEF SlotIsTrue
    <2> QED BY <1>12, <1>13, <2>3, <2>5, <2>6
  <1>15. CASE ~r.walk
    <2>1. walk' = walk
      BY <1>2, <1>15 DEF Placed
    <2>2. DriversFollow'
      <3> SUFFICES ASSUME NEW i \in 1 .. n + 1 PROVE ~(recs'[i].walk /\ Driven(recs'[i]))
        BY <1>6 DEF DriversFollow
      <3>1. CASE i \in 1 .. n
        <4>1. recs'[i] = recs[i]
          BY <1>6, <3>1
        <4> QED BY <1>4, <3>1, <4>1
      <3>2. CASE i = n + 1
        <4>1. recs'[i] = r
          BY <1>6, <3>2
        <4> QED BY <1>15, <4>1
      <3> QED BY <1>5, <3>1, <3>2
    <2>3. walk # NoWalk => walk.order \in 1 .. m /\ walk.filled \in Nat
      BY <1>1, StoreIs DEF GoodWalk, Walks
    <2>4. RunsInOrder'
      <3> SUFFICES ASSUME HasWalkInFlight
                   PROVE  /\ \E l \in DOMAIN recs' : LegUnderWay(l)'
                          /\ Asked(recs', walk.order) = PlanUpTo(walk.legIndex)
                          /\ walk.filled = PlanUpTo(walk.legIndex - 1)
        BY <2>1 DEF RunsInOrder, PlanUpTo, HasWalkInFlight
      <3>1. walk.order \in 1 .. m
        BY <1>1, RunningWalk
      <3>2. PICK l \in 1 .. n : LegUnderWay(l)
        BY <1>5 DEF WalkInv, RunsInOrder
      <3>3. LegUnderWay(l)'
        <4>1. \A i \in 1 .. n + 1 : recs'[i].order = walk.order => i \in 1 .. n
          BY <1>3, <1>5, <1>6, <3>1
        <4> HIDE DEF o, m
        <4> QED BY <1>5, <1>6, <2>1, <3>2, <4>1 DEF LegUnderWay
      <3>4. l \in DOMAIN recs'
        BY <1>5, <1>6
      <3> QED BY <1>11, <3>1, <3>3, <3>4 DEF WalkInv, RunsInOrder
    <2>5. SlotIsTrue'
      <3> SUFFICES ASSUME walk # NoWalk
                   PROVE  /\ walk.legs = orders'[walk.order].plan
                          /\ walk.filled <= Filled(recs', walk.order)
                          /\ walk.state = "done" =>
                                /\ Asked(recs', walk.order) = Total(orders'[walk.order].plan)
                                /\ Filled(recs', walk.order) = Total(orders'[walk.order].plan)
        BY <2>1 DEF SlotIsTrue
      <3>1. walk.order \in 1 .. m /\ walk.filled \in Nat
        BY <2>3
      <3>2. orders'[walk.order] = orders[walk.order]
        BY <1>7, <3>1
      <3> QED BY <1>9, <1>11, <3>1, <3>2 DEF WalkInv, SlotIsTrue
    <2> QED BY <1>12, <1>13, <2>2, <2>4, <2>5
  <1> QED BY <1>14, <1>15

LEMMA ClearKeeps ==
    ASSUME WalkInv, ClearWalk
    PROVE  (OrdersFit /\ DriversFollow /\ OneLegLive /\ RunsInOrder /\ SlotIsTrue)'
  <1>1. /\ walk.state = "stopped" /\ walk' = NoWalk
        /\ orders' = orders /\ recs' = recs
    BY DEF ClearWalk
  <1>2. ~HasWalkInFlight /\ ~HasWalkInFlight'
    BY <1>1 DEF HasWalkInFlight, NoWalk
  <1>3. OrdersFit' /\ OneLegLive'
    BY <1>1 DEF WalkInv, OrdersFit, OneLegLive
  <1>4. DriversFollow' /\ RunsInOrder' /\ SlotIsTrue'
    BY <1>1, <1>2 DEF WalkInv, DriversFollow, RunsInOrder, SlotIsTrue
  <1> QED BY <1>3, <1>4

LEMMA WalkInvStep ==
    ASSUME BookWalkAssumption, ~TwoWalks, WalkInv, [WalkNext]_walkVars
    PROVE  WalkInv'
  <1>1. WalkStore'
    BY StoreStep DEF WalkInv
  <1>2. CASE \E b \in Books, w \in Wants : PlaceOrder(b, w)
    BY <1>1, <1>2, PlaceKeeps DEF WalkInv
  <1>3. CASE Quiet
    BY <1>1, <1>3, QuietKeeps DEF WalkInv
  <1>4. CASE \E i \in DOMAIN recs : AdvanceWalk(i)
    <2>1. PICK i \in DOMAIN recs : AdvanceWalk(i)
      BY <1>4
    <2>2. MovesOn(i) \/ Completes(i)
      BY <2>1, AdvanceFacts DEF WalkInv
    <2> QED BY <1>1, <2>1, <2>2, MovesOnKeeps, CompletesKeeps DEF WalkInv
  <1>5. CASE ClearWalk
    BY <1>1, <1>5, ClearKeeps DEF WalkInv
  <1>6. CASE UNCHANGED walkVars
    <2>1. walk' = walk /\ orders' = orders /\ recs' = recs
      BY <1>6 DEF walkVars
    <2>2. (OrdersFit /\ DriversFollow /\ OneLegLive)'
      BY <2>1 DEF WalkInv, OrdersFit, DriversFollow, HasWalkInFlight, OneLegLive
    <2>3. RunsInOrder' /\ SlotIsTrue'
      BY <2>1 DEF WalkInv, RunsInOrder, HasWalkInFlight, LegUnderWay, PlanUpTo, SlotIsTrue
    <2> QED BY <1>1, <2>2, <2>3 DEF WalkInv
  <1> QED BY <1>2, <1>3, <1>4, <1>5, <1>6 DEF WalkNext, Quiet

LEMMA WalkInvInit == WalkInit => WalkInv
  <1> SUFFICES ASSUME WalkInit PROVE WalkInv
    OBVIOUS
  <1>1. WalkStore
    BY InitStore
  <1>2. walk = NoWalk /\ orders = <<>> /\ recs = <<>> /\ ~HasWalkInFlight
    BY DEF WalkInit, HasWalkInFlight, NoWalk
  <1> QED BY <1>1, <1>2 DEF WalkInv, OrdersFit, DriversFollow, OneLegLive, RunsInOrder,
                            SlotIsTrue

LEMMA WalkAlways == ASSUME ~TwoWalks PROVE WalkSpec => []WalkInv
  <1>1. WalkInv /\ [WalkNext]_walkVars => WalkInv'
    BY BookWalkAssumption, WalkInvStep
  <1> QED BY <1>1, WalkInvInit, PTL DEF WalkSpec

\* What is settled or may still settle is part of what was asked for.
LEMMA CommittedIsAsked ==
    ASSUME recs \in Seq(Trades), NEW o
    PROVE  Atoms(o, Committed) \in Nat /\ Atoms(o, Committed) <= Asked(recs, o)
  <1> DEFINE f == [i \in DOMAIN recs |->
                     IF recs[i].order = o /\ Committed(recs[i]) THEN recs[i].atoms ELSE 0]
             g == AskedIn(recs, o)
             n == Len(recs)
  <1>1. n \in Nat /\ DOMAIN recs = 1 .. n /\ Naturals(g, n)
    BY RecordSums
  <1>2. ASSUME NEW i \in 1 .. n PROVE f[i] \in Nat /\ f[i] <= g[i]
    <2>1. recs[i].atoms \in Nat
      BY RecordAt
    <2>2. f[i] = IF recs[i].order = o /\ Committed(recs[i]) THEN recs[i].atoms ELSE 0
      BY <1>1
    <2>3. g[i] = IF recs[i].order = o THEN recs[i].atoms ELSE 0
      BY <1>1 DEF AskedIn
    <2> QED BY <2>1, <2>2, <2>3
  <1> HIDE DEF f, g, n
  <1>3. Naturals(f, n)
    BY <1>2 DEF Naturals
  <1>4. SumTo(f, n) <= SumTo(g, n)
    BY <1>1, <1>2, <1>3, SumMonotone
  <1>5. SumTo(f, n) \in Nat
    BY <1>1, <1>3, SumStep
  <1> QED BY <1>4, <1>5 DEF Atoms, Asked, f, g, n

LEMMA InvIsHonest == WalkInv => WalkIsHonest
  <1> SUFFICES ASSUME WalkInv PROVE WalkIsHonest
    OBVIOUS
  <1>1. WalkTypeOK /\ OneLegLive
    BY DEF WalkInv, WalkStore
  <1>2. /\ Ranges
        /\ \A o \in 1 .. Len(orders) : orders[o].want \in Nat
    BY StoreRanges DEF WalkInv
  <1>3. NeverOverfills
    <2> SUFFICES ASSUME NEW o \in DOMAIN orders PROVE Atoms(o, Committed) <= orders[o].want
      BY DEF NeverOverfills
    <2> DEFINE c == Atoms(o, Committed)
    <2>1. c \in Nat /\ c <= Asked(recs, o)
      BY <1>2, CommittedIsAsked DEF Ranges
    <2>2. Asked(recs, o) <= orders[o].want
      BY DEF WalkInv, OrdersFit
    <2>3. Asked(recs, o) \in Nat /\ orders[o].want \in Nat
      BY <1>2, RecordSums DEF Ranges
    <2> QED BY <2>1, <2>2, <2>3
  <1>4. FilledIsReal
    <2>1. Atoms(walk.order, Settled) = Filled(recs, walk.order)
      BY DEF Atoms, Filled, FilledIn
    <2> QED BY <2>1 DEF FilledIsReal, WalkInv, SlotIsTrue
  <1> QED BY <1>1, <1>3, <1>4 DEF WalkIsHonest

\* The store of trades and the walk's slot hold what the code writes into them.
THEOREM WalkTypeCorrect == WalkSpec => []WalkTypeOK
  <1>1. WalkInit => WalkStore
    BY InitStore
  <1>2. WalkStore /\ [WalkNext]_walkVars => WalkStore'
    BY BookWalkAssumption, StoreStep
  <1>3. WalkStore => WalkTypeOK
    BY DEF WalkStore
  <1> QED BY <1>1, <1>2, <1>3, PTL DEF WalkSpec

\* A walk takes no more than was asked, one leg at a time, and says it filled only
\* what settled, if a person waits for it before trading on.
THEOREM WalkHonest == ASSUME ~TwoWalks PROVE WalkSpec => []WalkIsHonest
  <1>1. WalkSpec => []WalkInv
    BY WalkAlways
  <1>2. WalkInv => WalkIsHonest
    BY InvIsHonest
  <1> QED BY <1>1, <1>2, PTL

\* A failed leg is the last of its order: nothing that comes later starts another.
THEOREM WalkStopsAtFailure == ASSUME ~TwoWalks PROVE WalkSpec => NothingAfterAFailure
  <1> DEFINE Keeps == \A o \in DOMAIN orders : EndedShort(o) => Started(o)' = Started(o)
  <1>1. ASSUME WalkInv, [WalkNext]_walkVars PROVE Keeps \/ UNCHANGED walkVars
    <2>1. /\ WalkStore /\ Ranges
          /\ \A i \in 1 .. Len(recs) : GoodRow(recs[i], Len(orders))
      BY <1>1, StoreRanges DEF WalkInv
    <2>2. /\ DOMAIN recs = 1 .. Len(recs) /\ Len(recs) \in Nat /\ recs \in Seq(Trades)
          /\ DOMAIN orders = 1 .. Len(orders) /\ Len(orders) \in Nat
      BY <2>1 DEF Ranges
    <2>3. CASE \E b \in Books, w \in Wants : PlaceOrder(b, w)
      <3>1. PICK b \in Books, w \in Wants : PlaceOrder(b, w)
        BY <2>3
      <3>2. PICK plan, r : Placed(w, plan, r)
        BY <2>1, <3>1, BookWalkAssumption, PlaceFacts
      <3>3. r \in Trades /\ r.order = Len(orders) + 1 /\ recs' = Append(recs, r)
        BY <3>2 DEF Placed, GoodRow
      <3>4. /\ DOMAIN recs' = 1 .. Len(recs) + 1 /\ recs'[Len(recs) + 1] = r
            /\ \A j \in 1 .. Len(recs) : recs'[j] = recs[j]
        BY <2>2, <3>3
      <3>5. ASSUME NEW o \in 1 .. Len(orders) PROVE Started(o)' = Started(o)
        <4>1. r.order # o
          BY <2>2, <3>3
        <4> QED BY <2>2, <3>4, <4>1 DEF Started
      <3> QED BY <2>2, <3>5
    <2>4. CASE Quiet
      <3>1. SameLegs(recs, recs') /\ recs' \in Seq(Trades)
        BY <2>1, <2>4, QuietSteps
      <3>2. DOMAIN recs' = 1 .. Len(recs)
        BY <3>1 DEF SameLegs
      <3> QED BY <2>2, <3>1, <3>2 DEF Started, SameLegs
    <2>5. CASE \E i \in DOMAIN recs : AdvanceWalk(i)
      <3>1. PICK i \in DOMAIN recs : AdvanceWalk(i)
        BY <2>5
      <3>2. MovesOn(i) \/ Completes(i)
        BY <2>1, <3>1, AdvanceFacts
      <3>3. Idled(i) \in Seq(Trades) /\ SameLegs(recs, Idled(i))
        BY <1>1, <3>1, AdvanceSums
      <3>4. \A j \in 1 .. Len(recs) : recs[j].order = walk.order => Settled(recs[j])
        BY <1>1, <3>1, AdvanceState
      <3>5. ~EndedShort(walk.order)
        BY <2>2, <3>4 DEF EndedShort
      <3>6. ASSUME NEW o \in DOMAIN orders, EndedShort(o) PROVE Started(o)' = Started(o)
        <4>1. o # walk.order
          BY <3>5, <3>6
        <4>2. CASE Completes(i)
          <5>1. recs' = Idled(i)
            BY <4>2 DEF Completes
          <5>2. DOMAIN recs' = 1 .. Len(recs)
            BY <3>3, <5>1 DEF SameLegs
          <5> QED BY <2>2, <3>3, <5>1, <5>2 DEF Started, SameLegs
        <4>3. CASE MovesOn(i)
          <5> DEFINE rs == Idled(i)
                     r == NextRow
          <5>1. recs' = Append(rs, r) /\ r \in Trades /\ r.order = walk.order
            BY <4>3 DEF MovesOn, GoodRow
          <5>2. rs \in Seq(Trades) /\ SameLegs(recs, rs) /\ Len(rs) = Len(recs)
            BY <3>3 DEF SameLegs
          <5> HIDE DEF rs, r
          <5>3. /\ DOMAIN recs' = 1 .. Len(recs) + 1 /\ recs'[Len(recs) + 1] = r
                /\ \A j \in 1 .. Len(recs) : recs'[j] = rs[j]
            <6>1. Len(rs) \in Nat
              BY <2>2, <5>2
            <6>2. /\ DOMAIN recs' = 1 .. Len(rs) + 1 /\ recs'[Len(rs) + 1] = r
                  /\ \A j \in 1 .. Len(rs) : recs'[j] = rs[j]
              BY <5>1, <5>2, <6>1
            <6> QED BY <5>2, <6>2
          <5> QED BY <2>2, <4>1, <5>1, <5>2, <5>3 DEF Started, SameLegs
        <4> QED BY <3>2, <4>2, <4>3
      <3> QED BY <3>6
    <2>6. CASE ClearWalk \/ UNCHANGED walkVars
      <3>1. recs' = recs
        BY <2>6 DEF ClearWalk, walkVars
      <3> QED BY <3>1 DEF Started
    <2> QED BY <1>1, <2>3, <2>4, <2>5, <2>6 DEF WalkNext, Quiet
  <1>2. WalkInv /\ [WalkNext]_walkVars => [Keeps]_walkVars
    BY <1>1
  <1> QED BY <1>2, WalkAlways, PTL DEF WalkSpec, NothingAfterAFailure

-----------------------------------------------------------------------------
(* The terms                                                                *)

LEMMA DivIs ==
    ASSUME NEW a \in Int, NEW b \in Nat \ {0}
    PROVE  /\ a \div b \in Int
           /\ b * (a \div b) <= a
           /\ a < b * (a \div b) + b
           /\ a >= 0 => a \div b >= 0
           /\ a < 0 => a \div b < 0
  OBVIOUS

LEMMA CeilDivIs ==
    ASSUME NEW a \in Nat, NEW b \in Nat \ {0}
    PROVE  /\ CeilDiv(a, b) \in Nat
           /\ a <= b * CeilDiv(a, b)
           /\ b * (CeilDiv(a, b) - 1) < a
  <1> DEFINE q == (a + b - 1) \div b
  <1>1. a + b - 1 \in Int /\ a + b - 1 >= 0
    OBVIOUS
  <1>2. q \in Int /\ b * q <= a + b - 1 /\ a + b - 1 < b * q + b /\ q >= 0
    BY <1>1, DivIs
  <1> HIDE DEF q
  <1>3. b * (q - 1) = b * q - b
    BY <1>2
  <1>4. a <= b * q /\ b * (q - 1) < a
    BY <1>2, <1>3
  <1> QED BY <1>2, <1>4 DEF CeilDiv, q

\* A rounded-up quotient is below a bound exactly when the exact one is.
LEMMA CeilDivBelow ==
    ASSUME NEW a \in Nat, NEW b \in Nat \ {0}, NEW c \in Int
    PROVE  CeilDiv(a, b) <= c <=> a <= b * c
  <1> DEFINE q == CeilDiv(a, b)
  <1>1. q \in Nat /\ a <= b * q /\ b * (q - 1) < a
    BY CeilDivIs
  <1> HIDE DEF q
  <1>2. ASSUME q <= c PROVE a <= b * c
    <2>1. b * q <= b * c
      BY <1>1, <1>2
    <2> QED BY <1>1, <2>1
  <1>3. ASSUME a <= b * c PROVE q <= c
    <2>1. b * (q - 1) < b * c
      BY <1>1, <1>3
    <2>2. q - 1 < c
      BY <1>1, <2>1
    <2> QED BY <1>1, <2>2
  <1> QED BY <1>2, <1>3 DEF q

LEMMA DivAbove ==
    ASSUME NEW a \in Int, NEW b \in Nat \ {0}, NEW c \in Int
    PROVE  c <= a \div b <=> b * c <= a
  <1> DEFINE q == a \div b
  <1>1. q \in Int /\ b * q <= a /\ a < b * q + b
    BY DivIs
  <1> HIDE DEF q
  <1>2. ASSUME c <= q PROVE b * c <= a
    <2>1. b * c <= b * q
      BY <1>1, <1>2
    <2> QED BY <1>1, <2>1
  <1>3. ASSUME b * c <= a PROVE c <= q
    <2>1. b * c < b * (q + 1)
      BY <1>1, <1>3
    <2>2. c < q + 1
      BY <1>1, <2>1
    <2> QED BY <1>1, <2>2
  <1> QED BY <1>2, <1>3 DEF q

LEMMA AssetFees ==
    ASSUME NEW rate \in Nat
    PROVE  /\ AssetSpendFee(rate) \in Nat \ {0}
           /\ AssetFee(LEG_SPEND_FEE_FLOOR, rate) \in Nat \ {0}
           /\ AssetSpendFee(rate) <= AssetFee(LEG_SPEND_FEE_FLOOR, rate)
  <1>1. /\ LEG_SPEND_FEE_FLOOR \in Nat \ {0} /\ EXCHANGE_RATE_SCALE \in Nat \ {0}
        /\ SeqSpendFee \in Nat /\ SeqSpendFee <= LEG_SPEND_FEE_FLOOR
    BY TakeAssumption
  <1>2. CASE rate = 0
    BY <1>1, <1>2 DEF AssetSpendFee, AssetFee
  <1>3. CASE rate # 0
    <2> DEFINE a == SeqSpendFee * EXCHANGE_RATE_SCALE
               b == LEG_SPEND_FEE_FLOOR * EXCHANGE_RATE_SCALE
    <2>1. a \in Nat /\ b \in Nat /\ a <= b
      BY <1>1
    <2>2. rate \in Nat \ {0}
      BY <1>3
    <2> HIDE DEF a, b
    <2>3. /\ CeilDiv(a, rate) \in Nat /\ CeilDiv(b, rate) \in Nat
          /\ b <= rate * CeilDiv(b, rate)
      BY <2>1, <2>2, CeilDivIs
    <2>4. a <= rate * CeilDiv(b, rate) /\ CeilDiv(b, rate) \in Int
      BY <2>1, <2>2, <2>3
    <2>5. CeilDiv(a, rate) <= CeilDiv(b, rate)
      BY <2>1, <2>2, <2>4, CeilDivBelow
    <2>6. /\ AssetSpendFee(rate) = Larger(1, CeilDiv(a, rate))
          /\ AssetFee(LEG_SPEND_FEE_FLOOR, rate) = Larger(1, CeilDiv(b, rate))
      BY <1>3 DEF AssetSpendFee, AssetFee, a, b
    <2> QED BY <2>3, <2>5, <2>6 DEF Larger
  <1> QED BY <1>2, <1>3

\* A signed offer, and what a side that takes a slice of it is left with.
SignedOffers == [seq : Nat \ {0}, btc : Nat \ {0}]
MakerTerms == [seq : Int, btc : Int, fee : Int]
Spendable(r, rate) ==
    /\ BtcLeft(r.btc) >= BTC_DUST_LIMIT
    /\ AssetFeePaid(r.asset, rate) = AssetSpendFee(rate)
    /\ AssetFeePaid(r.asset, rate) < r.asset

LEMMA GuardedIsSpendable ==
    ASSUME NEW asset \in Nat, NEW btc \in Nat, NEW rate \in Nat,
           btc >= MinSafeBtcLeg, asset >= MinSafeAssetLeg(rate)
    PROVE  Spendable(Granted(asset, btc), rate)
  <1> DEFINE f == AssetFee(LEG_SPEND_FEE_FLOOR, rate)
             s == AssetSpendFee(rate)
  <1>1. f \in Nat \ {0} /\ s \in Nat \ {0} /\ s <= f
    BY AssetFees
  <1>2. asset >= 1 + 2 * f
    BY DEF MinSafeAssetLeg
  <1>3. /\ BtcLeft(btc) >= BTC_DUST_LIMIT
    BY TakeAssumption DEF MinSafeBtcLeg, BtcLeft
  <1> HIDE DEF f, s
  <1>4. f <= asset \div 2 /\ asset \div 2 \in Int
    BY <1>1, <1>2
  <1>5. AssetFeePaid(asset, rate) = s
    BY <1>1, <1>4 DEF AssetFeePaid, Smaller, Larger, s
  <1>6. s < asset
    BY <1>1, <1>2
  <1> QED BY <1>3, <1>5, <1>6 DEF Spendable, Granted, s

\* A buyer pays the signed ratio rounded up, for its slice or for the whole offer,
\* whatever terms the maker sends, and what it takes can be spent on both chains.
THEOREM BuyIsSound ==
    ASSUME NEW o \in SignedOffers, NEW asked \in Nat, NEW t \in MakerTerms,
           NEW rate \in Nat, NEW r, r = ForwardTake(o, asked, t, rate)
    PROVE  /\ r \in [ok : BOOLEAN, asset : Nat, btc : Nat]
           /\ r.ok => /\ r.asset \in 1 .. o.seq
                      /\ r.btc * o.seq >= o.btc * r.asset
                      /\ (r.btc - 1) * o.seq < o.btc * r.asset
                      /\ r.asset < o.seq => Spendable(r, rate)
  <1>0. o.seq \in Nat \ {0} /\ o.btc \in Nat \ {0} /\ t.seq \in Int /\ t.btc \in Int
    BY DEF SignedOffers, MakerTerms
  <1> DEFINE want == IF asked > 0 /\ asked < o.seq THEN asked ELSE o.seq
             fund == ProportionalBtcCeil(t.btc, want, t.seq)
             passes == /\ t.seq = want
                       /\ t.btc = ProportionalBtcCeil(o.btc, want, o.seq)
                       /\ fund > 0
                       /\ ~SubDust(want, GuardedWhole(o, t), fund, rate)
                       /\ t.fee <= fund \div FeeShare + FeeBase
  <1>1. r = IF passes THEN Granted(want, fund) ELSE Refused
    BY DEF ForwardTake
  <1>2. want \in 1 .. o.seq /\ want \in Nat \ {0}
    BY <1>0
  <1> HIDE DEF want, passes
  <1>3. CASE ~passes
    <2>1. r = Refused
      BY <1>1, <1>3
    <2> QED BY <2>1 DEF Refused
  <1>4. CASE passes
    <2>1. fund = t.btc
      BY <1>0, <1>2, <1>4 DEF passes, ProportionalBtcCeil
    <2>2. CASE want = o.seq
      <3>1. fund = o.btc
        BY <1>0, <1>4, <2>1, <2>2 DEF passes, ProportionalBtcCeil
      <3> HIDE DEF fund
      <3>2. r = Granted(o.seq, o.btc)
        BY <1>1, <1>4, <2>2, <3>1
      <3>3. (o.btc - 1) * o.seq < o.btc * o.seq
        BY <1>0
      <3> QED BY <1>0, <1>2, <3>2, <3>3 DEF Granted
    <2>3. CASE want < o.seq
      <3> DEFINE whole == o.btc * want
      <3>1. fund = CeilDiv(whole, o.seq)
        BY <1>0, <1>2, <1>4, <2>1, <2>3 DEF passes, ProportionalBtcCeil
      <3>2. ~(fund < MinSafeBtcLeg \/ want < MinSafeAssetLeg(rate))
        BY <1>4, <2>3 DEF passes, SubDust, GuardedWhole
      <3>3. whole \in Nat
        BY <1>0, <1>2
      <3> HIDE DEF fund
      <3> HIDE DEF whole
      <3>4. /\ fund \in Nat /\ whole <= o.seq * fund /\ o.seq * (fund - 1) < whole
        BY <1>0, <3>1, <3>3, CeilDivIs
      <3>5. MinSafeBtcLeg \in Nat /\ MinSafeAssetLeg(rate) \in Nat
        BY AssetFees, TakeAssumption DEF MinSafeBtcLeg, MinSafeAssetLeg
      <3>6. Spendable(Granted(want, fund), rate)
        BY <1>2, <3>2, <3>4, <3>5, GuardedIsSpendable
      <3>7. r = Granted(want, fund)
        BY <1>1, <1>4
      <3>8. /\ r.ok = TRUE /\ r.asset = want /\ r.btc = fund
            /\ r \in [ok : BOOLEAN, asset : Nat, btc : Nat]
        BY <1>2, <3>4, <3>7 DEF Granted
      <3>9. o.seq * fund = fund * o.seq /\ o.seq * (fund - 1) = (fund - 1) * o.seq
        BY <1>0, <3>4
      <3> QED BY <1>2, <3>4, <3>6, <3>7, <3>8, <3>9 DEF whole
    <2> QED BY <1>0, <1>2, <2>2, <2>3
  <1> QED BY <1>3, <1>4

\* A seller of a slice receives the signed ratio rounded down, and can spend it.
THEOREM SellIsSound ==
    ASSUME NEW o \in SignedOffers, NEW asked \in Nat, NEW rate \in Nat,
           NEW r, r = ReverseTake(o, asked, rate)
    PROVE  /\ r \in [ok : BOOLEAN, asset : Nat, btc : Nat]
           /\ r.ok => /\ r.asset \in 1 .. o.seq
                      /\ r.btc * o.seq <= o.btc * r.asset
                      /\ (r.btc + 1) * o.seq > o.btc * r.asset
                      /\ r.asset < o.seq => Spendable(r, rate)
  <1>0. o.seq \in Nat \ {0} /\ o.btc \in Nat \ {0}
    BY DEF SignedOffers
  <1> DEFINE btc == ProportionalBtcFloor(o.btc, asked, o.seq)
             passes == /\ asked > 0 /\ asked <= o.seq /\ btc > 0
                       /\ ~SubDust(asked, o.seq, btc, rate)
  <1>1. r = IF passes THEN Granted(asked, btc) ELSE Refused
    BY DEF ReverseTake
  <1> HIDE DEF passes
  <1>2. CASE ~passes
    <2>1. r = Refused
      BY <1>1, <1>2
    <2> QED BY <2>1 DEF Refused
  <1>3. CASE passes
    <2>1. asked \in 1 .. o.seq
      BY <1>0, <1>3 DEF passes
    <2>2. CASE asked = o.seq
      <3>1. btc = o.btc
        BY <1>0, <2>2 DEF ProportionalBtcFloor
      <3> HIDE DEF btc
      <3>2. r = Granted(o.seq, o.btc)
        BY <1>1, <1>3, <2>2, <3>1
      <3>3. (o.btc + 1) * o.seq > o.btc * o.seq
        BY <1>0
      <3> QED BY <1>0, <2>1, <3>2, <3>3 DEF Granted
    <2>3. CASE asked < o.seq
      <3> DEFINE whole == o.btc * asked
      <3>1. btc = whole \div o.seq
        BY <1>0, <2>1, <2>3 DEF ProportionalBtcFloor
      <3>2. ~(btc < MinSafeBtcLeg \/ asked < MinSafeAssetLeg(rate))
        BY <1>3, <2>3 DEF passes, SubDust
      <3>3. whole \in Int /\ whole >= 0
        BY <1>0, <2>1
      <3> HIDE DEF btc
      <3> HIDE DEF whole
      <3>4. /\ btc \in Int /\ btc >= 0 /\ o.seq * btc <= whole /\ whole < o.seq * btc + o.seq
        BY <1>0, <3>1, <3>3, DivIs
      <3>5. MinSafeBtcLeg \in Nat /\ MinSafeAssetLeg(rate) \in Nat
        BY AssetFees, TakeAssumption DEF MinSafeBtcLeg, MinSafeAssetLeg
      <3>6. Spendable(Granted(asked, btc), rate)
        BY <2>1, <3>2, <3>4, <3>5, GuardedIsSpendable
      <3>7. r = Granted(asked, btc)
        BY <1>1, <1>3
      <3>8. /\ r.ok = TRUE /\ r.asset = asked /\ r.btc = btc
            /\ r \in [ok : BOOLEAN, asset : Nat, btc : Nat]
        BY <2>1, <3>4, <3>7 DEF Granted
      <3>9. o.seq * btc = btc * o.seq /\ o.seq * btc + o.seq = (btc + 1) * o.seq
        BY <1>0, <3>4
      <3> QED BY <2>1, <3>4, <3>6, <3>7, <3>8, <3>9 DEF whole
    <2> QED BY <1>0, <2>1, <2>2, <2>3
  <1> QED BY <1>2, <1>3

\* An entry of a book, and the amounts of it that `pay` buys.
Entries == [num : Nat \ {0}, den : Nat \ {0}, max : Nat \ {0}, min : Nat \ {0}, lot : Nat]
Bought(e, pay) ==
    {r \in 1 .. e.max : /\ r >= e.min /\ (r = e.max \/ e.max - r >= e.lot)
                        /\ CeilDiv(r * e.num, e.den) <= pay}

\* sizeEntry gives the most of an entry that `pay` buys, and refuses only when it
\* buys none.
THEOREM SizeIsSound ==
    ASSUME NEW e \in Entries, NEW pay \in Nat, NEW a, a = SizeEntry(e, pay)
    PROVE  /\ a \in [ok : BOOLEAN, asset : Nat, btc : Nat]
           /\ a.ok => a.asset > 0
           /\ IF Bought(e, pay) = {} THEN ~a.ok
              ELSE /\ a.ok /\ a.asset = Max(Bought(e, pay))
                   /\ a.btc = CeilDiv(a.asset * e.num, e.den)
  <1> DEFINE q  == (pay * e.den) \div e.num
             r0 == Smaller(q, e.max)
             r  == LotLeft(e, r0)
             passes == pay > 0 /\ r > 0 /\ r >= e.min
  <1>0. /\ e.num \in Nat \ {0} /\ e.den \in Nat \ {0} /\ e.max \in Nat \ {0}
        /\ e.min \in Nat \ {0} /\ e.lot \in Nat
    BY DEF Entries
  <1>1. pay * e.den \in Nat
    BY <1>0
  <1>2. q \in Int /\ q >= 0
    <2> DEFINE w == pay * e.den
    <2>1. w \in Int /\ w >= 0
      BY <1>1
    <2> HIDE DEF w
    <2>2. w \div e.num \in Int /\ w \div e.num >= 0
      BY <1>0, <2>1, DivIs
    <2> QED BY <2>2 DEF w
  <1>3. pay = 0 => q = 0
    BY <1>0
  <1>4. \A x \in 1 .. e.max : CeilDiv(x * e.num, e.den) <= pay <=> x <= q
    <2> TAKE x \in 1 .. e.max
    <2>1. x \in Nat /\ x * e.num \in Nat
      BY <1>0
    <2>2. CeilDiv(x * e.num, e.den) <= pay <=> x * e.num <= e.den * pay
      BY <1>0, <2>1, CeilDivBelow
    <2>3. x <= q <=> e.num * x <= pay * e.den
      BY <1>0, <1>1, <2>1, DivAbove
    <2>4. e.num * x = x * e.num /\ pay * e.den = e.den * pay
      BY <1>0, <2>1
    <2> QED BY <2>2, <2>3, <2>4
  <1>5. a = IF passes THEN Granted(r, CeilDiv(r * e.num, e.den)) ELSE Refused
    BY DEF SizeEntry
  <1> HIDE DEF q
  <1>6. r0 \in Int /\ r0 <= q /\ r0 <= e.max /\ (r0 = q \/ r0 = e.max)
    BY <1>0, <1>2 DEF Smaller
  <1>7. /\ r \in Int /\ r <= r0
        /\ r = e.max \/ e.max - r >= e.lot
        /\ r = r0 \/ (r0 < e.max /\ r = e.max - e.lot)
    BY <1>0, <1>6 DEF LotLeft
  <1> HIDE DEF r0, r
  <1>8. passes => r \in Bought(e, pay)
    BY <1>0, <1>4, <1>6, <1>7 DEF Bought
  <1>9. \A x \in Bought(e, pay) : x \in Nat /\ x <= r /\ passes
    <2> TAKE x \in Bought(e, pay)
    <2>1. /\ x \in 1 .. e.max /\ x >= e.min /\ (x = e.max \/ e.max - x >= e.lot)
          /\ x <= q
      BY <1>4 DEF Bought
    <2>2. x <= r
      BY <1>0, <1>2, <1>6, <1>7, <2>1
    <2>3. pay > 0
      BY <1>0, <1>3, <2>1
    <2> QED BY <1>0, <1>7, <2>1, <2>2, <2>3
  <1> HIDE DEF passes
  <1>10. CASE ~passes
    <2>1. a = Refused /\ Bought(e, pay) = {}
      BY <1>5, <1>9, <1>10
    <2> QED BY <2>1 DEF Refused
  <1>11. CASE passes
    <2>1. r \in Bought(e, pay) /\ \A x \in Bought(e, pay) : x \in Nat /\ r >= x
      BY <1>8, <1>9, <1>11
    <2>2. Max(Bought(e, pay)) = r
      <3>1. Max(Bought(e, pay)) \in Bought(e, pay)
            /\ \A y \in Bought(e, pay) : Max(Bought(e, pay)) >= y
        BY <2>1 DEF Max
      <3> QED BY <2>1, <3>1
    <2>3. r \in Nat /\ r > 0
      BY <1>7, <1>11 DEF passes
    <2>4. r * e.num \in Nat
      BY <1>0, <2>3
    <2>5. CeilDiv(r * e.num, e.den) \in Nat
      BY <1>0, <2>4, CeilDivIs
    <2>6. a = Granted(r, CeilDiv(r * e.num, e.den))
      BY <1>5, <1>11
    <2> QED BY <2>1, <2>2, <2>3, <2>5, <2>6 DEF Granted
  <1> QED BY <1>10, <1>11

\* A hold, and the two block times one chain's blocks are converted by.
Holds == [cltv : Nat, tip : Nat, lock : Nat, margin : Nat]

\* The bound on a hold's delay is the gate itself: it lets pass exactly the holds
\* within the bound, and a hold as long as the bound still leaves the margin.
THEOREM CapIsSound ==
    ASSUME NEW h \in Holds, NEW slow \in Nat \ {0}, NEW fast \in Nat \ {0}
    PROVE  LET cap == MaxSafeCltv(h, slow, fast)
               ok  == HoldCltvSafe(h, slow, fast)
           IN  /\ ok \in BOOLEAN /\ cap \in Nat
               /\ ok <=> Claimable(h) > 0 /\ h.cltv <= cap
               /\ ok => SettleDeadline(h, cap, slow, fast) + h.margin < h.lock
  <1> DEFINE c == h.lock - h.tip - h.margin - 1
             room == c * fast
             most == room \div slow
             cap == MaxSafeCltv(h, slow, fast)
  <1>0. h.cltv \in Nat /\ h.tip \in Nat /\ h.lock \in Nat /\ h.margin \in Nat
    BY DEF Holds
  <1>1. c \in Int
    BY <1>0
  <1>2. \A x \in Nat :
           SettleDeadline(h, x, slow, fast) + h.margin < h.lock <=> slow * x <= room
    <2> TAKE x \in Nat
    <2>1. x * slow \in Nat
      OBVIOUS
    <2>2. CeilDiv(x * slow, fast) \in Nat
      BY <2>1, CeilDivIs
    <2>3. SettleDeadline(h, x, slow, fast) + h.margin < h.lock
             <=> CeilDiv(x * slow, fast) <= c
      BY <1>0, <2>2 DEF SettleDeadline
    <2> HIDE DEF c
    <2>4. CeilDiv(x * slow, fast) <= c <=> x * slow <= fast * c
      BY <1>1, <2>1, CeilDivBelow
    <2>5. x * slow = slow * x /\ fast * c = c * fast
      BY <1>1
    <2> QED BY <2>3, <2>4, <2>5
  <1>3. cap = Larger(0, most) /\ (Claimable(h) > 0 <=> c >= 0)
    <2>1. Claimable(h) - 1 = c /\ (Claimable(h) > 0 <=> c >= 0)
      BY <1>0 DEF Claimable
    <2> QED BY <2>1 DEF MaxSafeCltv
  <1> HIDE DEF c, cap
  <1>4. room \in Int /\ (c >= 0 => room >= 0) /\ (c < 0 => room < 0)
    BY <1>1
  <1> HIDE DEF room
  <1>5. most \in Int /\ (room >= 0 => most >= 0) /\ (room < 0 => most < 0)
    BY <1>4, DivIs
  <1>6. \A x \in Nat : slow * x <= room <=> x <= most
    BY <1>4, DivAbove
  <1> HIDE DEF most
  <1>7. cap \in Nat /\ (c >= 0 => cap = most)
    BY <1>3, <1>4, <1>5 DEF Larger
  <1>8. HoldCltvSafe(h, slow, fast) <=> h.cltv <= most
    BY <1>0, <1>2, <1>6 DEF HoldCltvSafe
  <1>9. h.cltv <= most <=> c >= 0 /\ h.cltv <= cap
    BY <1>0, <1>1, <1>4, <1>5, <1>7
  <1>10. c >= 0 => SettleDeadline(h, cap, slow, fast) + h.margin < h.lock
    <2>1. ASSUME c >= 0 PROVE cap <= most /\ cap \in Nat
      BY <1>5, <1>7, <2>1
    <2> QED BY <1>2, <1>6, <2>1
  <1>11. HoldCltvSafe(h, slow, fast) \in BOOLEAN
    BY DEF HoldCltvSafe
  <1> QED BY <1>3, <1>7, <1>8, <1>9, <1>10, <1>11 DEF cap

\* A refund of the bridge, with a floor above zero.
Refunds == [amount : Nat, floor : Nat \ {0}, ceil : Nat]

\* What one refund may pay, and what a step of its escalation does.
FeeInReach(f, fee) == fee \in Nat /\ fee <= RefundCeil(f)
Escalates(f, fee, next) == next > fee \/ fee = RefundCeil(f)

\* The ceiling of a refund's fee is a number, and leaves dust to be paid out.
LEMMA RefundCeilIs ==
    ASSUME NEW f \in Refunds
    PROVE  /\ RefundCeil(f) \in Nat /\ RefundCeil(f) <= f.ceil
           /\ f.amount > BTC_DUST_LIMIT => RefundCeil(f) <= f.amount - BTC_DUST_LIMIT
  <1>1. f.amount \in Nat /\ f.ceil \in Nat /\ BTC_DUST_LIMIT \in Nat
    BY TakeAssumption DEF Refunds
  <1> QED BY <1>1 DEF RefundCeil, Smaller

\* A fee fits the amount and the ceiling whatever the estimate; the first one is
\* not zero unless nothing may be spent.
LEMMA SizedFee ==
    ASSUME NEW f \in Refunds, NEW estimate \in Nat, NEW last \in Nat
    PROVE  LET fee == SizeRefundFee(f, estimate, last)
           IN  /\ FeeInReach(f, fee)
               /\ fee > 0 \/ RefundCeil(f) = 0
               /\ last > 0 => fee > last \/ fee = RefundCeil(f)
  <1> DEFINE b == BumpFloor(last)
             c == RefundCeil(f)
  <1>1. b \in Nat /\ (last > 0 => b > last)
    <2>1. last * 3 \in Nat
      OBVIOUS
    <2>2. CeilDiv(last * 3, 2) \in Nat /\ last * 3 <= 2 * CeilDiv(last * 3, 2)
      BY <2>1, CeilDivIs
    <2> QED BY <2>2 DEF BumpFloor
  <1>2. c \in Nat /\ f.floor \in Nat \ {0}
    BY RefundCeilIs DEF Refunds
  <1> HIDE DEF b, c
  <1>3. SizeRefundFee(f, estimate, last) = Smaller(Larger(Larger(estimate, b), f.floor), c)
    BY DEF SizeRefundFee, b, c
  <1> QED BY <1>1, <1>2, <1>3 DEF FeeInReach, Smaller, Larger, c

\* A replacement pays more than the broadcast it replaces, as long as more may be
\* spent.
LEMMA BumpedFee ==
    ASSUME NEW f \in Refunds, NEW estimate \in Nat, NEW last, FeeInReach(f, last),
           last > 0 \/ RefundCeil(f) = 0
    PROVE  LET fee == Bumped(f, estimate, last)
           IN  /\ FeeInReach(f, fee) /\ (fee > 0 \/ RefundCeil(f) = 0)
               /\ Escalates(f, last, fee)
  <1> DEFINE s == SizeRefundFee(f, estimate, last)
             c == RefundCeil(f)
  <1>1. last \in Nat /\ last <= c /\ c \in Nat
    BY RefundCeilIs DEF FeeInReach
  <1>2. /\ s \in Nat /\ s <= c
        /\ last > 0 => s > last \/ s = c
    BY <1>1, SizedFee DEF FeeInReach
  <1>3. Bumped(f, estimate, last) = IF s > last THEN s ELSE last
    BY DEF Bumped
  <1> HIDE DEF s
  <1> QED BY <1>1, <1>2, <1>3 DEF FeeInReach, Escalates

\* A refund and its two replacements.
Fees(f, estimates) ==
    LET first  == SizeRefundFee(f, estimates[1], 0)
        second == Bumped(f, estimates[2], first)
    IN  <<first, second, Bumped(f, estimates[3], second)>>

\* No refund of the bridge burns its output, and every replacement pays more until
\* nothing more may be spent.
THEOREM RefundIsSound ==
    ASSUME NEW f \in Refunds, NEW estimates \in [1 .. 3 -> Nat],
           NEW fees, fees = Fees(f, estimates)
    PROVE  /\ fees \in Seq(Nat)
           /\ \A i \in 1 .. 3 :
                 /\ fees[i] <= f.ceil
                 /\ f.amount > BTC_DUST_LIMIT => f.amount - fees[i] >= BTC_DUST_LIMIT
           /\ \A i \in 1 .. 2 : Escalates(f, fees[i], fees[i + 1])
  <1> DEFINE a == SizeRefundFee(f, estimates[1], 0)
             b == Bumped(f, estimates[2], a)
             d == Bumped(f, estimates[3], b)
  <1>0. estimates[1] \in Nat /\ estimates[2] \in Nat /\ estimates[3] \in Nat /\ 0 \in Nat
    OBVIOUS
  <1>1. FeeInReach(f, a) /\ (a > 0 \/ RefundCeil(f) = 0)
    BY <1>0, SizedFee
  <1> HIDE DEF a
  <1>2. FeeInReach(f, b) /\ (b > 0 \/ RefundCeil(f) = 0) /\ Escalates(f, a, b)
    BY <1>0, <1>1, BumpedFee
  <1> HIDE DEF b
  <1>3. FeeInReach(f, d) /\ Escalates(f, b, d)
    BY <1>0, <1>2, BumpedFee
  <1> HIDE DEF d
  <1>4. fees = <<a, b, d>>
    BY DEF Fees, a, b, d
  <1>5. a \in Nat /\ b \in Nat /\ d \in Nat
    BY <1>1, <1>2, <1>3 DEF FeeInReach
  <1>6. \A i \in 1 .. 3 : FeeInReach(f, fees[i])
    <2> TAKE i \in 1 .. 3
    <2>1. i = 1 \/ i = 2 \/ i = 3
      OBVIOUS
    <2>2. fees[1] = a /\ fees[2] = b /\ fees[3] = d
      BY <1>4
    <2> QED BY <1>1, <1>2, <1>3, <2>1, <2>2
  <1>7. \A i \in 1 .. 2 : Escalates(f, fees[i], fees[i + 1])
    <2> TAKE i \in 1 .. 2
    <2>1. i = 1 \/ i = 2
      OBVIOUS
    <2>2. fees[1] = a /\ fees[1 + 1] = b /\ fees[2] = b /\ fees[2 + 1] = d
      BY <1>4
    <2> QED BY <1>2, <1>3, <2>1, <2>2
  <1>8. f.amount \in Nat /\ f.ceil \in Nat /\ BTC_DUST_LIMIT \in Nat
    BY TakeAssumption DEF Refunds
  <1>9. \A i \in 1 .. 3 :
           /\ fees[i] <= f.ceil
           /\ f.amount > BTC_DUST_LIMIT => f.amount - fees[i] >= BTC_DUST_LIMIT
    BY <1>6, <1>8, RefundCeilIs DEF FeeInReach
  <1> QED BY <1>4, <1>5, <1>7, <1>9

\* The readings since the rate was last taken that are all far from it.
FeedStates == [rate : Nat, jumps : Nat]
JumpsHeld(st, readings, n) ==
    /\ st.jumps <= n
    /\ \A j \in n - st.jumps + 1 .. n : readings[j] # 0 /\ Far(st.rate, readings[j])

\* One reading: the rate it leaves, and when that is far from the one before.
LEMMA SteadyRateIs ==
    ASSUME NEW st \in FeedStates, NEW r \in Nat
    PROVE  LET to == SteadyRate(st, r)
           IN  /\ to \in FeedStates
               /\ \/ to = [rate |-> r, jumps |-> 0]
                  \/ /\ to = [rate |-> st.rate, jumps |-> st.jumps + 1]
                     /\ r # 0 /\ Far(st.rate, r)
               /\ st.rate # 0 /\ to.rate # 0 /\ Far(st.rate, to.rate) =>
                     to.rate = r /\ st.jumps + 1 >= JUMP_READS
  <1>1. /\ FarFactor \in Nat \ {0} /\ JUMP_READS \in Nat \ {0}
        /\ st.rate \in Nat /\ st.jumps \in Nat
        /\ st = [rate |-> st.rate, jumps |-> st.jumps]
    BY QuotesAssumption DEF FeedStates
  <1>2. st.rate # 0 => ~Far(st.rate, st.rate)
    <2> DEFINE x == st.rate
    <2>1. FarFactor * x >= x
      BY <1>1
    <2> QED BY <1>1, <2>1 DEF Far
  <1> DEFINE to == SteadyRate(st, r)
  <1>3. CASE st.rate = 0 \/ r = 0
    <2>1. to = [rate |-> r, jumps |-> 0]
      BY <1>3 DEF SteadyRate
    <2> HIDE DEF to
    <2>2. ~(st.rate # 0 /\ to.rate # 0)
      BY <1>3, <2>1
    <2> QED BY <1>1, <1>3, <2>1, <2>2 DEF FeedStates, to
  <1>4. CASE st.rate # 0 /\ r # 0 /\ ~Far(st.rate, r)
    <2>1. to = [rate |-> r, jumps |-> 0]
      BY <1>4 DEF SteadyRate
    <2> HIDE DEF to
    <2> QED BY <1>1, <1>4, <2>1 DEF FeedStates, to
  <1>5. CASE st.rate # 0 /\ r # 0 /\ Far(st.rate, r)
    <2>1. to = IF st.jumps + 1 < JUMP_READS THEN [st EXCEPT !.jumps = @ + 1]
               ELSE [rate |-> r, jumps |-> 0]
      BY <1>5 DEF SteadyRate
    <2> HIDE DEF to
    <2>2. CASE st.jumps + 1 < JUMP_READS
      <3>1. to = [rate |-> st.rate, jumps |-> st.jumps + 1]
        BY <1>1, <2>1, <2>2
      <3> QED BY <1>1, <1>2, <1>5, <3>1 DEF FeedStates, to
    <2>3. CASE ~(st.jumps + 1 < JUMP_READS)
      <3>1. to = [rate |-> r, jumps |-> 0] /\ st.jumps + 1 >= JUMP_READS
        BY <1>1, <2>1, <2>3
      <3> QED BY <1>1, <3>1 DEF FeedStates, to
    <2> QED BY <2>2, <2>3
  <1> QED BY <1>3, <1>4, <1>5

\* The rates of a feed are those of states that hold only far readings.
LEMMA FeedIs ==
    ASSUME NEW n \in Nat, NEW readings \in [1 .. n -> Nat]
    PROVE  \E g \in [0 .. n -> FeedStates] :
              /\ Quoted(readings, n) = [i \in 0 .. n |-> g[i].rate]
              /\ g[0] = NoRate
              /\ \A i \in 1 .. n : g[i] = SteadyRate(g[i - 1], readings[i])
              /\ \A i \in 0 .. n : JumpsHeld(g[i], readings, i)
  <1> DEFINE F == [p \in (1 .. n) \X FeedStates |-> SteadyRate(p[2], readings[p[1]])]
             Rec(s) == s = [i \in 0 .. n |-> IF i = 0 THEN NoRate
                                             ELSE SteadyRate(s[i - 1], readings[i])]
             s == CHOOSE s : Rec(s)
  <1>1. \A i \in 1 .. n, d \in FeedStates : F[<<i, d>>] = SteadyRate(d, readings[i])
    OBVIOUS
  <1> HIDE DEF F
  <1>2. NoRate \in FeedStates
    BY DEF NoRate, FeedStates
  <1>3. \A i \in 1 .. n, d \in FeedStates : SteadyRate(d, readings[i]) \in FeedStates
    BY SteadyRateIs
  <1>4. StaysIn(FeedStates, F, n)
    BY <1>1, <1>3 DEF StaysIn
  <1>5. PICK g \in [0 .. n -> FeedStates] : Solves(g, NoRate, F, n)
    BY <1>2, <1>4, RecursionHolds
  <1>6. g[0] = NoRate /\ \A i \in 1 .. n : g[i] = SteadyRate(g[i - 1], readings[i])
    <2>1. ASSUME NEW i \in 1 .. n PROVE g[i] = SteadyRate(g[i - 1], readings[i])
      <3>1. g[i] = F[<<i, g[i - 1]>>]
        BY <1>5 DEF Solves
      <3>2. i - 1 \in 0 .. n
        OBVIOUS
      <3>3. g[i - 1] \in FeedStates
        BY <3>2
      <3> QED BY <1>1, <3>1, <3>3
    <2> QED BY <1>5, <2>1 DEF Solves
  <1>7. Rec(g)
    BY <1>6
  <1>8. Rec(s)
    BY <1>7, Zenon
  <1>9. Quoted(readings, n) = [i \in 0 .. n |-> s[i].rate]
    BY Zenon DEF Quoted
  <1> HIDE DEF s
  <1>10. s[0] = NoRate /\ \A i \in 1 .. n : s[i] = SteadyRate(s[i - 1], readings[i])
    BY <1>8
  <1> HIDE DEF Rec
  <1> DEFINE S == {k \in Nat : k <= n =>
                      /\ s[k] = g[k] /\ JumpsHeld(g[k], readings, k)}
  <1>11. 0 \in S
    <2>1. JumpsHeld(NoRate, readings, 0)
      <3>1. NoRate.jumps = 0
        BY DEF NoRate
      <3>2. 0 - 0 + 1 .. 0 = {}
        OBVIOUS
      <3> QED BY <3>1, <3>2 DEF JumpsHeld
    <2> QED BY <1>6, <1>10, <2>1
  <1>12. ASSUME NEW k \in Nat, k \in S PROVE k + 1 \in S
    <2> SUFFICES ASSUME k + 1 <= n
                 PROVE  s[k + 1] = g[k + 1] /\ JumpsHeld(g[k + 1], readings, k + 1)
      OBVIOUS
    <2>1. /\ s[k] = g[k] /\ JumpsHeld(g[k], readings, k)
          /\ k + 1 \in 1 .. n /\ k \in 0 .. n /\ (k + 1) - 1 = k
      BY <1>12
    <2> HIDE DEF S
    <2>2. /\ s[k + 1] = SteadyRate(g[k], readings[k + 1])
          /\ g[k + 1] = SteadyRate(g[k], readings[k + 1])
      BY <1>6, <1>10, <2>1
    <2>3. g[k] \in FeedStates /\ readings[k + 1] \in Nat
      BY <2>1
    <2>4. \/ g[k + 1] = [rate |-> readings[k + 1], jumps |-> 0]
          \/ /\ g[k + 1] = [rate |-> g[k].rate, jumps |-> g[k].jumps + 1]
             /\ readings[k + 1] # 0 /\ Far(g[k].rate, readings[k + 1])
      BY <2>2, <2>3, SteadyRateIs
    <2>5. CASE g[k + 1] = [rate |-> readings[k + 1], jumps |-> 0]
      <3>1. g[k + 1].jumps = 0
        BY <2>5
      <3>2. (k + 1) - 0 + 1 .. k + 1 = {}
        OBVIOUS
      <3>3. JumpsHeld(g[k + 1], readings, k + 1)
        BY <3>1, <3>2 DEF JumpsHeld
      <3> QED BY <2>2, <3>3
    <2>6. CASE /\ g[k + 1] = [rate |-> g[k].rate, jumps |-> g[k].jumps + 1]
               /\ readings[k + 1] # 0 /\ Far(g[k].rate, readings[k + 1])
      <3>1. g[k + 1].rate = g[k].rate /\ g[k + 1].jumps = g[k].jumps + 1
        BY <2>6
      <3>2. g[k].jumps \in Nat /\ g[k].jumps <= k
        BY <2>1, <2>3 DEF JumpsHeld, FeedStates
      <3>3. ASSUME NEW j \in (k + 1) - g[k + 1].jumps + 1 .. k + 1
            PROVE  readings[j] # 0 /\ Far(g[k + 1].rate, readings[j])
        <4>1. j = k + 1 \/ j \in k - g[k].jumps + 1 .. k
          BY <3>1, <3>2
        <4> QED BY <2>1, <2>6, <3>1, <4>1 DEF JumpsHeld
      <3>4. JumpsHeld(g[k + 1], readings, k + 1)
        BY <3>1, <3>2, <3>3 DEF JumpsHeld
      <3> QED BY <2>2, <3>4
    <2> QED BY <2>4, <2>5, <2>6
  <1> HIDE DEF S
  <1>13. Nat \subseteq S
    BY <1>11, <1>12, Induction
  <1>14. \A i \in 0 .. n : s[i] = g[i] /\ JumpsHeld(g[i], readings, i)
    BY <1>13 DEF S
  <1>15. Quoted(readings, n) = [i \in 0 .. n |-> g[i].rate]
    BY <1>9, <1>14
  <1> QED BY <1>6, <1>14, <1>15

\* A quoted rate far from the one just before it, and the readings it takes.
JumpsAt(rates, i) == rates[i] # 0 /\ rates[i - 1] # 0 /\ Far(rates[i - 1], rates[i])
AfterReadings(rates, readings, i) ==
    /\ i >= JUMP_READS /\ rates[i] = readings[i]
    /\ \A j \in i - JUMP_READS + 1 .. i :
          readings[j] # 0 /\ Far(rates[i - 1], readings[j])

\* A feed of any length quotes a rate far from the one just before only as the last
\* of JUMP_READS readings in a row that were all far from it.
THEOREM JumpNeedsReadings ==
    ASSUME NEW n \in Nat, NEW readings \in [1 .. n -> Nat],
           NEW rates, rates = Quoted(readings, n), NEW i \in 1 .. n, JumpsAt(rates, i)
    PROVE  AfterReadings(rates, readings, i)
  <1>1. PICK g \in [0 .. n -> FeedStates] :
              /\ Quoted(readings, n) = [k \in 0 .. n |-> g[k].rate]
              /\ \A k \in 1 .. n : g[k] = SteadyRate(g[k - 1], readings[k])
              /\ \A k \in 0 .. n : JumpsHeld(g[k], readings, k)
    BY FeedIs
  <1> DEFINE p == i - 1
  <1>2. p \in 0 .. n /\ i \in 0 .. n /\ p + 1 = i /\ i \in Nat /\ JUMP_READS \in Nat \ {0}
    BY QuotesAssumption
  <1>3. rates[p] = g[p].rate /\ rates[i] = g[i].rate
    BY <1>1, <1>2
  <1>4. g[i] = SteadyRate(g[p], readings[i]) /\ JumpsHeld(g[p], readings, p)
    BY <1>1, <1>2
  <1>5. g[p] \in FeedStates /\ readings[i] \in Nat
    BY <1>2
  <1>6. /\ g[i].rate = readings[i] /\ g[p].jumps + 1 >= JUMP_READS
        /\ \/ g[i] = [rate |-> readings[i], jumps |-> 0]
           \/ readings[i] # 0 /\ Far(g[p].rate, readings[i])
    BY <1>3, <1>4, <1>5, SteadyRateIs DEF JumpsAt
  <1>7. g[p].jumps \in Nat /\ g[p].jumps <= p
    BY <1>4, <1>5 DEF JumpsHeld, FeedStates
  <1>8. readings[i] # 0 /\ Far(g[p].rate, readings[i])
    BY <1>3, <1>6 DEF JumpsAt
  <1>9. ASSUME NEW j \in i - JUMP_READS + 1 .. i
        PROVE  readings[j] # 0 /\ Far(rates[p], readings[j])
    <2>1. j = i \/ j \in p - g[p].jumps + 1 .. p
      BY <1>2, <1>6, <1>7
    <2> QED BY <1>3, <1>4, <1>8, <2>1 DEF JumpsHeld
  <1>10. i >= JUMP_READS
    BY <1>2, <1>6, <1>7
  <1> QED BY <1>3, <1>6, <1>9, <1>10 DEF AfterReadings

\* What is quoted was read.
LEMMA QuotedIsRead ==
    ASSUME NEW R, R \subseteq Nat, 0 \in R, NEW n \in Nat, NEW readings \in [1 .. n -> R]
    PROVE  \A i \in 0 .. n : Quoted(readings, n)[i] \in R
  <1>1. readings \in [1 .. n -> Nat]
    OBVIOUS
  <1>2. PICK g \in [0 .. n -> FeedStates] :
              /\ Quoted(readings, n) = [i \in 0 .. n |-> g[i].rate]
              /\ g[0] = NoRate
              /\ \A i \in 1 .. n : g[i] = SteadyRate(g[i - 1], readings[i])
    BY <1>1, FeedIs
  <1> DEFINE S == {k \in Nat : k <= n => g[k].rate \in R}
  <1>3. 0 \in S
    BY <1>2 DEF NoRate
  <1>4. ASSUME NEW k \in Nat, k \in S PROVE k + 1 \in S
    <2> SUFFICES ASSUME k + 1 <= n PROVE g[k + 1].rate \in R
      OBVIOUS
    <2>1. /\ g[k].rate \in R /\ k \in 0 .. n /\ k + 1 \in 1 .. n /\ (k + 1) - 1 = k
      BY <1>4
    <2> HIDE DEF S
    <2>2. g[k] \in FeedStates /\ readings[k + 1] \in R /\ readings[k + 1] \in Nat
      BY <2>1
    <2>3. g[k + 1] = SteadyRate(g[k], readings[k + 1])
      BY <1>2, <2>1
    <2>4. \/ g[k + 1] = [rate |-> readings[k + 1], jumps |-> 0]
          \/ g[k + 1] = [rate |-> g[k].rate, jumps |-> g[k].jumps + 1]
      BY <2>2, <2>3, SteadyRateIs
    <2> QED BY <2>1, <2>2, <2>4
  <1> HIDE DEF S
  <1>5. Nat \subseteq S
    BY <1>3, <1>4, Induction
  <1>6. \A i \in 0 .. n : g[i].rate \in R
    BY <1>5 DEF S
  <1> QED BY <1>2, <1>6

-----------------------------------------------------------------------------
(* Sums over finite sets                                                    *)

\* SumOf takes the elements in the order CHOOSE gives them; that no other order
\* gives another sum is what the lemmas below are for.
Pick(T) == CHOOSE x \in T : TRUE
SumsAt(g, f, T) == g[T] = IF T = {} THEN 0 ELSE f[Pick(T)] + g[T \ {Pick(T)}]
SumLaw(g, f, S) == g \in [SUBSET S -> Int] /\ \A T \in SUBSET S : SumsAt(g, f, T)
Numbers(f, S) == \A x \in S : f[x] \in Int

\* The element CHOOSE takes is one of the set.
LEMMA PickIn == ASSUME NEW T, T # {} PROVE Pick(T) \in T
  BY DEF Pick

\* With one element less, a set is smaller by one.
LEMMA SizeSmaller ==
    ASSUME NEW S, IsFiniteSet(S), NEW T \in SUBSET S, NEW x \in T
    PROVE  /\ IsFiniteSet(T) /\ Cardinality(T) \in Nat \ {0}
           /\ T \ {x} \in SUBSET S /\ Cardinality(T \ {x}) = Cardinality(T) - 1
  <1>1. IsFiniteSet(T)
    BY FS_Subset
  <1>2. Cardinality(T) \in Nat /\ Cardinality(T \ {x}) = Cardinality(T) - 1
    BY <1>1, FS_CardinalityType, FS_RemoveElement
  <1>3. Cardinality(T \ {x}) \in Nat
    BY <1>1, FS_RemoveElement, FS_CardinalityType
  <1> QED BY <1>1, <1>2, <1>3

\* The recursion of a sum has a solution over every finite set of numbers.
LEMMA SumSolution ==
    ASSUME NEW S, IsFiniteSet(S), NEW f, Numbers(f, S)
    PROVE  \E g : SumLaw(g, f, S)
  <1> DEFINE Upto(g, n) == \A T \in SUBSET S : Cardinality(T) <= n => SumsAt(g, f, T)
             N == {n \in Nat : \E g \in [SUBSET S -> Int] : Upto(g, n)}
  <1>0. \A T \in SUBSET S : IsFiniteSet(T) /\ Cardinality(T) \in Nat
    BY FS_Subset, FS_CardinalityType
  <1>1. 0 \in N
    <2> DEFINE g == [T \in SUBSET S |-> 0]
    <2>1. ASSUME NEW T \in SUBSET S, Cardinality(T) <= 0 PROVE SumsAt(g, f, T)
      <3>1. T = {}
        BY <1>0, <2>1, FS_EmptySet
      <3> QED BY <3>1 DEF SumsAt
    <2>2. Upto(g, 0) /\ g \in [SUBSET S -> Int]
      BY <2>1
    <2> HIDE DEF g, Upto
    <2> QED BY <2>2
  <1>2. ASSUME NEW n \in Nat, n \in N PROVE n + 1 \in N
    <2>1. PICK g \in [SUBSET S -> Int] : Upto(g, n)
      BY <1>2
    <2> DEFINE h == [T \in SUBSET S |->
                        IF T = {} THEN 0 ELSE f[Pick(T)] + g[T \ {Pick(T)}]]
    <2>2. h \in [SUBSET S -> Int]
      <3>1. ASSUME NEW T \in SUBSET S, T # {} PROVE f[Pick(T)] + g[T \ {Pick(T)}] \in Int
        <4>1. f[Pick(T)] \in Int
          BY <3>1, PickIn DEF Numbers
        <4>2. g[T \ {Pick(T)}] \in Int
          OBVIOUS
        <4> QED BY <4>1, <4>2
      <3> QED BY <3>1
    <2>3. \A T \in SUBSET S : Cardinality(T) <= n => h[T] = g[T]
      BY <2>1 DEF SumsAt
    <2>4. ASSUME NEW T \in SUBSET S, Cardinality(T) <= n + 1 PROVE SumsAt(h, f, T)
      <3>1. CASE T = {}
        BY <3>1 DEF SumsAt
      <3>2. CASE T # {}
        <4> DEFINE U == T \ {Pick(T)}
        <4>1. U \in SUBSET S /\ Cardinality(U) <= n
          BY <1>0, <2>4, <3>2, PickIn, SizeSmaller
        <4>2. h[U] = g[U] /\ h[T] = f[Pick(T)] + g[U]
          BY <2>3, <3>2, <4>1
        <4> HIDE DEF h
        <4> QED BY <3>2, <4>2 DEF SumsAt
      <3> QED BY <3>1, <3>2
    <2> HIDE DEF h
    <2>5. Upto(h, n + 1)
      BY <2>4
    <2> HIDE DEF Upto
    <2> QED BY <2>2, <2>5
  <1> HIDE DEF N
  <1>3. Cardinality(S) \in N
    BY <1>0, <1>1, <1>2, Induction
  <1>4. PICK g \in [SUBSET S -> Int] : Upto(g, Cardinality(S))
    BY <1>3 DEF N
  <1>5. \A T \in SUBSET S : Cardinality(T) <= Cardinality(S)
    BY FS_Subset
  <1> QED BY <1>4, <1>5 DEF SumLaw

\* Any element may be the first.
LEMMA SumAnyFirst ==
    ASSUME NEW S, IsFiniteSet(S), NEW f, Numbers(f, S), NEW g, SumLaw(g, f, S),
           NEW T \in SUBSET S, NEW x \in T
    PROVE  g[T] = f[x] + g[T \ {x}]
  <1> DEFINE Any(U) == \A y \in U : g[U] = f[y] + g[U \ {y}]
             N == {n \in Nat : \A U \in SUBSET S : Cardinality(U) <= n => Any(U)}
  <1>0. \A U \in SUBSET S : IsFiniteSet(U) /\ Cardinality(U) \in Nat
    BY FS_Subset, FS_CardinalityType
  <1>a. \A U \in SUBSET S : g[U] \in Int
    BY DEF SumLaw
  <1>b. \A y \in S : f[y] \in Int
    BY DEF Numbers
  <1>1. 0 \in N
    <2>1. \A U \in SUBSET S : Cardinality(U) <= 0 => U = {}
      BY <1>0, FS_EmptySet
    <2> QED BY <2>1
  <1>2. ASSUME NEW n \in Nat, n \in N PROVE n + 1 \in N
    <2> SUFFICES ASSUME NEW U \in SUBSET S, Cardinality(U) <= n + 1, NEW y \in U
                 PROVE  g[U] = f[y] + g[U \ {y}]
      OBVIOUS
    <2> DEFINE p == Pick(U)
               V == U \ {y}
               W == U \ {p}
               X == (U \ {p}) \ {y}
    <2>1. p \in U /\ g[U] = f[p] + g[W]
      BY PickIn DEF SumLaw, SumsAt
    <2> HIDE DEF p
    <2>2. CASE y = p
      BY <2>1, <2>2
    <2>3. CASE y # p
      <3>1. /\ V \in SUBSET S /\ Cardinality(V) <= n
            /\ W \in SUBSET S /\ Cardinality(W) <= n
            /\ X \in SUBSET S
        BY <1>0, <2>1, SizeSmaller
      <3>2. y \in W /\ p \in V /\ V \ {p} = X /\ W \ {y} = X
        BY <2>1, <2>3
      <3>3. g[W] = f[y] + g[X] /\ g[V] = f[p] + g[X]
        BY <1>2, <3>1, <3>2
      <3>4. g[X] \in Int /\ f[y] \in Int /\ f[p] \in Int
        BY <1>a, <1>b, <2>1, <3>1
      <3> QED BY <2>1, <3>3, <3>4
    <2> QED BY <2>2, <2>3
  <1> HIDE DEF N
  <1>3. Cardinality(T) \in N
    BY <1>0, <1>1, <1>2, Induction
  <1> QED BY <1>0, <1>3 DEF N

\* Two solutions agree where their functions do.
LEMMA SumsAgree ==
    ASSUME NEW R, IsFiniteSet(R), NEW f, NEW g, NEW e, NEW h,
           \A T \in SUBSET R : SumsAt(g, f, T) /\ SumsAt(h, e, T),
           \A x \in R : e[x] = f[x]
    PROVE  \A T \in SUBSET R : g[T] = h[T]
  <1> DEFINE N == {n \in Nat : \A U \in SUBSET R : Cardinality(U) <= n => g[U] = h[U]}
  <1>0. \A U \in SUBSET R : IsFiniteSet(U) /\ Cardinality(U) \in Nat
    BY FS_Subset, FS_CardinalityType
  <1>1. 0 \in N
    <2>1. \A U \in SUBSET R : Cardinality(U) <= 0 => U = {}
      BY <1>0, FS_EmptySet
    <2>2. g[{}] = 0 /\ h[{}] = 0
      BY DEF SumsAt
    <2> QED BY <2>1, <2>2
  <1>2. ASSUME NEW n \in Nat, n \in N PROVE n + 1 \in N
    <2> SUFFICES ASSUME NEW U \in SUBSET R, Cardinality(U) <= n + 1
                 PROVE  g[U] = h[U]
      OBVIOUS
    <2>1. CASE U = {}
      BY <2>1 DEF SumsAt
    <2>2. CASE U # {}
      <3> DEFINE p == Pick(U)
                 V == U \ {p}
      <3>1. p \in U
        BY <2>2, PickIn
      <3>2. g[U] = f[p] + g[V] /\ h[U] = e[p] + h[V]
        BY <2>2 DEF SumsAt
      <3> HIDE DEF p
      <3>3. V \in SUBSET R /\ Cardinality(V) <= n
        BY <1>0, <3>1, SizeSmaller
      <3>4. g[V] = h[V]
        BY <1>2, <3>3
      <3> QED BY <3>1, <3>2, <3>4
    <2> QED BY <2>1, <2>2
  <1> HIDE DEF N
  <1>3. \A T \in SUBSET R : Cardinality(T) \in N
    BY <1>0, <1>1, <1>2, Induction
  <1> QED BY <1>0, <1>3 DEF N

\* A sum is that of a solution of its recursion.
LEMMA SumOfIs ==
    ASSUME NEW f, IsFiniteSet(DOMAIN f), Numbers(f, DOMAIN f)
    PROVE  \E g : SumLaw(g, f, DOMAIN f) /\ SumOf(f) = g[DOMAIN f]
  <1> DEFINE S == DOMAIN f
             Rec(g) == g = [T \in SUBSET S |->
                               IF T = {} THEN 0
                               ELSE f[CHOOSE x \in T : TRUE] + g[T \ {CHOOSE x \in T : TRUE}]]
             s == CHOOSE g : Rec(g)
  <1>1. PICK g : SumLaw(g, f, S)
    BY SumSolution
  <1>2. Rec(g)
    BY <1>1 DEF SumLaw, SumsAt, Pick
  <1>3. Rec(s)
    BY <1>2, Zenon
  <1>4. SumOf(f) = s[S]
    BY Zenon DEF SumOf, MapThenSumSet, MapThenFoldSet
  <1> HIDE DEF s
  <1>5. \A T \in SUBSET S : SumsAt(s, f, T)
    BY <1>3 DEF SumsAt, Pick
  <1>6. SumLaw(s, f, S)
    <2>4. \A T \in SUBSET S : s[T] = g[T]
      <3>1. \A T \in SUBSET S : SumsAt(g, f, T)
        BY <1>1 DEF SumLaw
      <3> HIDE DEF S
      <3>2. IsFiniteSet(S)
        BY DEF S
      <3> QED BY <1>5, <3>1, <3>2, SumsAgree
    <2>5. \A T \in SUBSET S : s[T] \in Int
      BY <1>1, <2>4 DEF SumLaw
    <2>6. s \in [SUBSET S -> Int]
      BY <1>3, <2>5
    <2> HIDE DEF S
    <2> QED BY <1>5, <2>6 DEF SumLaw
  <1> QED BY <1>4, <1>6

\* The laws of a sum: nothing, one element out, and a number.
Without(f, x) == [y \in DOMAIN f \ {x} |-> f[y]]
\* Nothing adds up to 0.
LEMMA SumEmpty ==
    ASSUME NEW f, DOMAIN f = {}
    PROVE  SumOf(f) = 0
  <1>1. IsFiniteSet(DOMAIN f) /\ Numbers(f, DOMAIN f)
    BY FS_EmptySet DEF Numbers
  <1>2. PICK g : SumLaw(g, f, DOMAIN f) /\ SumOf(f) = g[DOMAIN f]
    BY <1>1, SumOfIs
  <1> QED BY <1>2 DEF SumLaw, SumsAt

\* Any element may be taken out of a sum.
LEMMA SumOut ==
    ASSUME NEW f, IsFiniteSet(DOMAIN f), Numbers(f, DOMAIN f), NEW x \in DOMAIN f
    PROVE  /\ IsFiniteSet(DOMAIN Without(f, x))
           /\ Numbers(Without(f, x), DOMAIN Without(f, x))
           /\ SumOf(Without(f, x)) \in Int
           /\ SumOf(f) = f[x] + SumOf(Without(f, x))
  <1> DEFINE S == DOMAIN f
             e == Without(f, x)
             R == S \ {x}
  <1>1. /\ DOMAIN e = R /\ \A y \in R : e[y] = f[y]
        /\ IsFiniteSet(R) /\ Numbers(e, R)
    BY FS_RemoveElement DEF Without, Numbers
  <1>2. PICK g : SumLaw(g, f, S) /\ SumOf(f) = g[S]
    BY SumOfIs
  <1> HIDE DEF e
  <1>3. PICK h : SumLaw(h, e, R) /\ SumOf(e) = h[R]
    BY <1>1, SumOfIs
  <1>4. g[S] = f[x] + g[R]
    BY <1>2, SumAnyFirst
  <1>5. g[R] = h[R]
    <2>1. \A T \in SUBSET R : SumsAt(g, f, T) /\ SumsAt(h, e, T)
      BY <1>1, <1>2, <1>3 DEF SumLaw
    <2> HIDE DEF R
    <2> QED BY <1>1, <2>1, SumsAgree
  <1>6. h[R] \in Int
    BY <1>3 DEF SumLaw
  <1> QED BY <1>1, <1>2, <1>3, <1>4, <1>5, <1>6 DEF e

\* A sum of numbers is one.
LEMMA SumNumber ==
    ASSUME NEW f, IsFiniteSet(DOMAIN f), Numbers(f, DOMAIN f)
    PROVE  SumOf(f) \in Int
  <1>1. PICK g : SumLaw(g, f, DOMAIN f) /\ SumOf(f) = g[DOMAIN f]
    BY SumOfIs
  <1> QED BY <1>1 DEF SumLaw

\* The sum of the first k values of f.
First(f, k) == SumOf([j \in 0 .. k - 1 |-> f[j]])

\* The sum of the first values, one value further.
LEMMA FirstStep ==
    ASSUME NEW f, NEW n \in Nat, \A j \in 0 .. n - 1 : f[j] \in Int,
           NEW k \in Nat, k < n
    PROVE  First(f, k + 1) = First(f, k) + f[k] /\ First(f, k) \in Int
  <1> DEFINE a == [j \in 0 .. (k + 1) - 1 |-> f[j]]
             b == [j \in 0 .. k - 1 |-> f[j]]
  <1>1. 0 .. (k + 1) - 1 = 0 .. k /\ (0 .. k) \ {k} = 0 .. k - 1 /\ k \in 0 .. k
    OBVIOUS
  <1>2. IsFiniteSet(0 .. k)
    BY FS_Interval
  <1>3. DOMAIN a = 0 .. k /\ \A j \in 0 .. k : a[j] = f[j] /\ f[j] \in Int
    BY <1>1
  <1>4. Without(a, k) = b
    <2>1. Without(a, k) = [j \in (DOMAIN a) \ {k} |-> a[j]]
      BY DEF Without
    <2> HIDE DEF a
    <2>2. [j \in (DOMAIN a) \ {k} |-> a[j]] = [j \in 0 .. k - 1 |-> f[j]]
      BY <1>1, <1>3
    <2> QED BY <2>1, <2>2
  <1> HIDE DEF a, b
  <1>5. Numbers(a, DOMAIN a)
    BY <1>3 DEF Numbers
  <1>6. SumOf(a) = a[k] + SumOf(Without(a, k)) /\ SumOf(Without(a, k)) \in Int
    BY <1>1, <1>2, <1>3, <1>5, SumOut
  <1>7. SumOf(a) = SumOf(b) + f[k] /\ SumOf(b) \in Int
    BY <1>1, <1>3, <1>4, <1>6
  <1> QED BY <1>7 DEF First, a, b

\* The first 0 values add up to 0.
LEMMA FirstNone == ASSUME NEW f PROVE First(f, 0) = 0
  <1>1. DOMAIN [j \in 0 .. 0 - 1 |-> f[j]] = {}
    OBVIOUS
  <1> QED BY <1>1, SumEmpty DEF First

\* A sum of naturals is one, and each is within it.
LEMMA FirstNat ==
    ASSUME NEW f, NEW n \in Nat, \A j \in 0 .. n - 1 : f[j] \in Nat
    PROVE  /\ \A k \in 0 .. n : First(f, k) \in Nat
           /\ \A k \in 0 .. n : \A i \in 0 .. k - 1 : First(f, k) >= First(f, i + 1)
  <1>0. \A j \in 0 .. n - 1 : f[j] \in Int
    OBVIOUS
  <1> DEFINE Good(k) == /\ First(f, k) \in Nat
                        /\ \A i \in 0 .. k - 1 : First(f, k) >= First(f, i + 1)
             N == {k \in Nat : k <= n => Good(k)}
  <1>1. 0 \in N
    <2>1. 0 .. 0 - 1 = {}
      OBVIOUS
    <2> QED BY <2>1, FirstNone
  <1>2. ASSUME NEW k \in Nat, k \in N PROVE k + 1 \in N
    <2> SUFFICES ASSUME k + 1 <= n PROVE Good(k + 1)
      OBVIOUS
    <2>1. First(f, k + 1) = First(f, k) + f[k] /\ f[k] \in Nat
      BY <1>0, FirstStep
    <2>2. Good(k)
      BY <1>2
    <2>3. First(f, k + 1) \in Nat /\ First(f, k + 1) >= First(f, k)
      BY <2>1, <2>2
    <2>4. ASSUME NEW i \in 0 .. (k + 1) - 1 PROVE First(f, k + 1) >= First(f, i + 1)
      <3>1. CASE i = k
        BY <2>3, <3>1
      <3>2. CASE i # k
        <4>1. i \in 0 .. k - 1 /\ i + 1 \in Nat /\ i + 1 <= k
          BY <3>2
        <4>2. First(f, k) >= First(f, i + 1)
          BY <2>2, <4>1
        <4>3. First(f, i + 1) \in Int
          <5>1. i + 1 < n
            BY <4>1
          <5> QED BY <1>0, <4>1, <5>1, FirstStep
        <4> QED BY <2>2, <2>3, <4>2, <4>3
      <3> QED BY <3>1, <3>2
    <2> QED BY <2>3, <2>4
  <1> HIDE DEF N
  <1>3. Nat \subseteq N
    BY <1>1, <1>2, Induction
  <1> QED BY <1>3 DEF N

\* Functions that agree have the same sums.
LEMMA FirstSame ==
    ASSUME NEW f, NEW g, NEW k \in Nat, \A j \in 0 .. k - 1 : f[j] = g[j]
    PROVE  First(f, k) = First(g, k)
  <1>1. [j \in 0 .. k - 1 |-> f[j]] = [j \in 0 .. k - 1 |-> g[j]]
    OBVIOUS
  <1> QED BY <1>1, Zenon DEF First

\* A power of a growth is not zero.
LEMMA PowerIs ==
    ASSUME NEW g \in Nat \ {0}, NEW k \in Nat
    PROVE  Power(g, k) \in Nat \ {0}
  <1> DEFINE D == Nat \ {0}
             F == [p \in (1 .. k) \X D |-> g * p[2]]
             Rec(p) == p = [i \in 0 .. k |-> IF i = 0 THEN 1 ELSE g * p[i - 1]]
             s == CHOOSE p : Rec(p)
  <1>1. \A i \in 1 .. k, d \in D : F[<<i, d>>] = g * d /\ g * d \in D
    OBVIOUS
  <1> HIDE DEF F
  <1>2. StaysIn(D, F, k)
    BY <1>1 DEF StaysIn
  <1>3. PICK p \in [0 .. k -> D] : Solves(p, 1, F, k)
    <2>1. 1 \in D
      OBVIOUS
    <2> QED BY <1>2, <2>1, RecursionHolds
  <1>4. Rec(p)
    <2>1. ASSUME NEW i \in 1 .. k PROVE p[i] = g * p[i - 1]
      <3>1. p[i] = F[<<i, p[i - 1]>>]
        BY <1>3 DEF Solves
      <3>2. i - 1 \in 0 .. k
        OBVIOUS
      <3>3. p[i - 1] \in D
        BY <1>3, <3>2
      <3> QED BY <1>1, <3>1, <3>3
    <2> QED BY <1>3, <2>1 DEF Solves
  <1>5. Rec(s)
    BY <1>4, Zenon
  <1>6. Power(g, k) = s[k]
    BY Zenon DEF Power
  <1> HIDE DEF s
  <1>7. s[0] = 1 /\ \A i \in 1 .. k : s[i] = g * s[i - 1]
    BY <1>5
  <1> HIDE DEF Rec
  <1> DEFINE S == {i \in Nat : i <= k => s[i] \in D}
  <1>8. 0 \in S
    BY <1>7
  <1>9. ASSUME NEW i \in Nat, i \in S PROVE i + 1 \in S
    <2> SUFFICES ASSUME i + 1 <= k PROVE s[i + 1] \in D
      OBVIOUS
    <2>1. s[i] \in D /\ i + 1 \in 1 .. k /\ (i + 1) - 1 = i
      BY <1>9
    <2>2. s[i + 1] = g * s[i]
      BY <1>7, <2>1
    <2>3. s[i] \in Nat \ {0}
      BY <2>1
    <2> QED BY <2>2, <2>3
  <1> HIDE DEF S
  <1>10. Nat \subseteq S
    BY <1>8, <1>9, Induction
  <1> QED BY <1>6, <1>10 DEF S

\* The least of a set of naturals.
LEMMA MinOf ==
    ASSUME NEW S, S \subseteq Nat, S # {}
    PROVE  Min(S) \in S /\ \A y \in S : Min(S) <= y
  <1>1. \E x \in S : \A y \in S : x <= y
    BY LeastNatural
  <1> QED BY <1>1 DEF Min

\* The greatest of a bounded set of naturals.
LEMMA MaxOf ==
    ASSUME NEW n \in Nat, NEW S, S \subseteq 0 .. n, S # {}
    PROVE  Max(S) \in S /\ \A y \in S : Max(S) >= y
  <1> DEFINE T == {n - x : x \in S}
  <1>1. T \subseteq Nat /\ T # {}
    <2>1. ASSUME NEW x \in S PROVE n - x \in Nat
      <3>1. x \in 0 .. n
        OBVIOUS
      <3> QED BY <3>1
    <2> QED BY <2>1
  <1>2. PICK t \in T : \A u \in T : t <= u
    BY <1>1, LeastNatural
  <1>3. PICK x \in S : t = n - x
    BY <1>2
  <1>4. ASSUME NEW y \in S PROVE x >= y
    <2>1. n - y \in T
      OBVIOUS
    <2>2. n - x <= n - y
      BY <1>2, <1>3, <2>1
    <2> QED BY <2>2
  <1> QED BY <1>3, <1>4 DEF Max

\* The greater of two.
LEMMA MaxPair == ASSUME NEW a \in Int, NEW b \in Int PROVE Max({a, b}) = Larger(a, b)
  <1>1. CASE a >= b
    <2>1. Max({a, b}) \in {a, b} /\ \A y \in {a, b} : Max({a, b}) >= y
      BY <1>1 DEF Max
    <2> QED BY <1>1, <2>1 DEF Larger
  <1>2. CASE b > a
    <2>1. Max({a, b}) \in {a, b} /\ \A y \in {a, b} : Max({a, b}) >= y
      BY <1>2 DEF Max
    <2> QED BY <1>2, <2>1 DEF Larger
  <1> QED BY <1>1, <1>2

\* The smaller of two.
LEMMA MinPair == ASSUME NEW a \in Int, NEW b \in Int PROVE Min({a, b}) = Smaller(a, b)
  <1>1. CASE a <= b
    <2>1. Min({a, b}) \in {a, b} /\ \A y \in {a, b} : Min({a, b}) <= y
      BY <1>1 DEF Min
    <2> QED BY <1>1, <2>1 DEF Smaller
  <1>2. CASE b < a
    <2>1. Min({a, b}) \in {a, b} /\ \A y \in {a, b} : Min({a, b}) <= y
      BY <1>2 DEF Min
    <2> QED BY <1>2, <2>1 DEF Smaller
  <1> QED BY <1>1, <1>2

-----------------------------------------------------------------------------
(* The ladder                                                               *)

\* What a maker holds of an asset, the rate it gives it at, and its ladder.
Holdings ==
    [num : Nat \ {0}, den : Nat \ {0}, have : Nat, min : Nat \ {0},
     levels : Nat \ {0}, step : Nat, growth : Nat \ {0}, first : Nat]

\* The slices of a ladder: none below the least, together within the holding.
Ladder(sizes, n, h) ==
    /\ n \in Nat /\ sizes \in [0 .. n - 1 -> Nat]
    /\ \A k \in 0 .. n - 1 : sizes[k] >= h.min
    /\ First(sizes, n) <= h.have

\* The shares of a split add up to the holding.
LEMMA SplitIs ==
    ASSUME NEW h \in Holdings, NEW n \in Nat \ {0}
    PROVE  Split(h, n) \in [0 .. n - 1 -> Int] /\ First(Split(h, n), n) = h.have
  <1> DEFINE weight == [k \in 0 .. n - 1 |-> Power(h.growth, k)]
             total == SumOf(weight)
             Share(k) == (h.have * weight[k]) \div total
             share == [k \in Nat |-> Share(k)]
             rest == SumOf([j \in 0 .. n - 2 |-> Share(j)])
             m == n - 1
             z == Split(h, n)
  <1>0. h.have \in Nat /\ h.growth \in Nat \ {0}
    BY DEF Holdings
  <1>1. m \in Nat /\ n = m + 1 /\ 0 .. n - 2 = 0 .. m - 1 /\ m < n
    OBVIOUS
  <1>2. z = [k \in 0 .. n - 1 |-> IF k = n - 1 THEN h.have - rest ELSE Share(k)]
    BY Zenon DEF Split
  <1>3. \A k \in 0 .. n - 1 : weight[k] \in Nat \ {0}
    BY <1>0, PowerIs
  <1>4. total = First(weight, n)
    <2>1. [j \in 0 .. n - 1 |-> weight[j]] = weight
      OBVIOUS
    <2> HIDE DEF weight
    <2> QED BY <2>1 DEF First
  <1> HIDE DEF weight, z
  <1>5. total \in Nat \ {0}
    <2>1. \A j \in 0 .. n - 1 : weight[j] \in Nat
      BY <1>3
    <2>2. First(weight, n) = First(weight, m) + weight[m]
      <3>1. \A j \in 0 .. n - 1 : weight[j] \in Int
        BY <2>1
      <3>2. First(weight, m + 1) = First(weight, m) + weight[m]
        <4>1. n \in Nat /\ m \in Nat /\ m < n
          BY <1>1
        <4> QED BY <3>1, <4>1, FirstStep
      <3> QED BY <1>1, <3>2
    <2>3. First(weight, m) \in Nat
      BY <1>1, <2>1, FirstNat
    <2>4. weight[m] \in Nat \ {0}
      BY <1>1, <1>3
    <2> QED BY <1>4, <2>2, <2>3, <2>4
  <1> HIDE DEF total
  <1>6. \A k \in 0 .. n - 1 : Share(k) \in Nat
    <2> TAKE k \in 0 .. n - 1
    <2> DEFINE w == h.have * weight[k]
    <2>1. w \in Int /\ w >= 0
      BY <1>0, <1>3
    <2> HIDE DEF w
    <2>2. w \div total \in Int /\ w \div total >= 0
      BY <1>5, <2>1, DivIs
    <2> QED BY <2>2 DEF w
  <1>7. \A k \in 0 .. n - 1 : share[k] = Share(k)
    OBVIOUS
  <1>8. rest = First(share, m)
    <2>1. [j \in 0 .. n - 2 |-> Share(j)] = [j \in 0 .. m - 1 |-> share[j]]
      BY <1>1, <1>7
    <2> HIDE DEF share, Share, m
    <2> QED BY <2>1 DEF First
  <1> HIDE DEF share, Share, rest, m
  <1>9. rest \in Nat
    <2>1. \A j \in 0 .. m - 1 : share[j] \in Nat
      BY <1>1, <1>6, <1>7
    <2>2. m \in 0 .. m
      BY <1>1
    <2> QED BY <1>1, <1>8, <2>1, <2>2, FirstNat
  <1>10. /\ z \in [0 .. n - 1 -> Int] /\ z[m] = h.have - rest
         /\ \A j \in 0 .. m - 1 : z[j] = share[j]
    BY <1>0, <1>1, <1>2, <1>6, <1>7, <1>9
  <1>11. First(z, m) = rest
    BY <1>1, <1>8, <1>10, FirstSame
  <1>12. First(z, n) = First(z, m) + z[m]
    <2>1. \A j \in 0 .. n - 1 : z[j] \in Int
      BY <1>10
    <2>2. First(z, m + 1) = First(z, m) + z[m]
      BY <1>1, <2>1, FirstStep
    <2> QED BY <1>1, <2>2
  <1>13. First(z, n) = h.have
    BY <1>0, <1>9, <1>10, <1>11, <1>12
  <1> QED BY <1>10, <1>13 DEF z

\* Slices of fixed sizes make a ladder, however far the holding reaches.
LEMMA FixedIs ==
    ASSUME NEW h \in Holdings
    PROVE  \E n : Ladder(Fixed(h), n, h)
  <1> DEFINE G == [k \in Nat |-> Grown(h, k)]
             R == {k \in 0 .. h.levels - 1 : LeftOver(h, k) > 0 /\ FixedSize(h, k) >= h.min}
             F == Fixed(h)
  <1>0. /\ h.have \in Nat /\ h.min \in Nat \ {0} /\ h.levels \in Nat \ {0}
        /\ h.growth \in Nat \ {0} /\ h.first \in Nat
    BY DEF Holdings
  <1>1. ASSUME NEW k \in Nat PROVE G[k] = Grown(h, k) /\ G[k] \in Nat /\ G[k] >= h.min
    <2> DEFINE a == h.first * Power(h.growth, k)
    <2>1. a \in Nat
      BY <1>0, PowerIs
    <2> HIDE DEF a
    <2>2. Max({a, h.min}) = Larger(a, h.min)
      BY <1>0, <2>1, MaxPair
    <2>3. Grown(h, k) = Max({a, h.min})
      BY DEF Grown, a
    <2>4. Grown(h, k) \in Nat /\ Grown(h, k) >= h.min
      BY <1>0, <2>1, <2>2, <2>3 DEF Larger
    <2> QED BY <2>4
  <1>2. ASSUME NEW k \in Nat PROVE LeftOver(h, k) = h.have - First(G, k)
    <2>1. [j \in 0 .. k - 1 |-> Grown(h, j)] = [j \in 0 .. k - 1 |-> G[j]]
      BY <1>1
    <2> HIDE DEF G
    <2> QED BY <2>1 DEF LeftOver, First
  <1> HIDE DEF G
  <1>3. ASSUME NEW k \in Nat
        PROVE  /\ First(G, k) \in Nat /\ First(G, k + 1) = First(G, k) + G[k]
               /\ \A j \in 0 .. k - 1 : First(G, k) >= First(G, j + 1)
    <2>1. k + 1 \in Nat /\ k < k + 1 /\ k \in 0 .. k + 1
      OBVIOUS
    <2>2. \A j \in 0 .. (k + 1) - 1 : G[j] \in Nat
      BY <1>1
    <2>3. \A j \in 0 .. (k + 1) - 1 : G[j] \in Int
      BY <2>2
    <2>4. First(G, k + 1) = First(G, k) + G[k]
      BY <2>1, <2>3, FirstStep
    <2>5. /\ First(G, k) \in Nat
          /\ \A j \in 0 .. k - 1 : First(G, k) >= First(G, j + 1)
      BY <2>1, <2>2, FirstNat
    <2> QED BY <2>4, <2>5
  <1>4. ASSUME NEW k \in Nat
        PROVE  /\ LeftOver(h, k) \in Int /\ FixedSize(h, k) \in Int
               /\ FixedSize(h, k) <= LeftOver(h, k)
    <2>1. LeftOver(h, k) \in Int /\ Grown(h, k) \in Int
      <3>1. Grown(h, k) \in Int
        BY <1>1
      <3>2. LeftOver(h, k) = h.have - First(G, k) /\ First(G, k) \in Nat
        BY <1>2, <1>3
      <3> QED BY <1>0, <3>1, <3>2
    <2> QED BY <2>1 DEF FixedSize
  <1>5. ASSUME NEW k \in R, NEW j \in 0 .. k - 1
        PROVE  j \in R /\ FixedSize(h, j) = G[j]
    <2>1. /\ k \in Nat /\ k <= h.levels - 1 /\ LeftOver(h, k) > 0
          /\ j \in Nat /\ j \in 0 .. h.levels - 1 /\ j # h.levels - 1
      BY <1>0
    <2>2. First(G, k) >= First(G, j) + G[j] /\ First(G, j) \in Nat /\ First(G, k) \in Nat
      BY <1>3, <2>1
    <2>3. LeftOver(h, k) = h.have - First(G, k) /\ LeftOver(h, j) = h.have - First(G, j)
      BY <1>2, <2>1
    <2>4. G[j] = Grown(h, j) /\ G[j] \in Nat /\ G[j] >= h.min
      BY <1>1, <2>1
    <2>5. Grown(h, j) < LeftOver(h, j)
      BY <1>0, <2>1, <2>2, <2>3, <2>4
    <2>6. ~(Grown(h, j) > LeftOver(h, j))
      BY <1>4, <2>1, <2>4, <2>5
    <2>7. FixedSize(h, j) = G[j]
      BY <2>1, <2>4, <2>6 DEF FixedSize
    <2>8. LeftOver(h, j) > 0
      BY <1>0, <1>4, <2>1, <2>4, <2>5
    <2> QED BY <2>1, <2>4, <2>7, <2>8
  <1>6. F = [k \in R |-> FixedSize(h, k)]
    BY Zenon DEF Fixed
  <1> HIDE DEF F
  <1>7. CASE R = {}
    <2>1. F \in [0 .. 0 - 1 -> Nat] /\ 0 .. 0 - 1 = {}
      BY <1>6, <1>7
    <2>2. First(F, 0) <= h.have
      BY <1>0, FirstNone
    <2>3. Ladder(F, 0, h)
      BY <2>1, <2>2 DEF Ladder
    <2> QED BY <2>3 DEF F
  <1>8. CASE R # {}
    <2> DEFINE m == Max(R)
               n == m + 1
    <2>1. m \in R /\ \A j \in R : m >= j
      <3>1. h.levels - 1 \in Nat /\ R \subseteq 0 .. h.levels - 1
        BY <1>0
      <3> HIDE DEF R
      <3> QED BY <1>8, <3>1, MaxOf
    <2> HIDE DEF m
    <2>2. m \in Nat /\ R \subseteq Nat
      BY <1>0, <2>1
    <2>3. R = 0 .. m
      <3>1. ASSUME NEW j \in R PROVE j \in 0 .. m
        BY <2>1, <2>2
      <3>2. ASSUME NEW j \in 0 .. m PROVE j \in R
        <4>1. CASE j = m
          BY <2>1, <4>1
        <4>2. CASE j # m
          <5>1. j \in 0 .. m - 1
            BY <2>2, <4>2
          <5> QED BY <1>5, <2>1, <5>1
        <4> QED BY <4>1, <4>2
      <3> QED BY <3>1, <3>2
    <2>4. \A j \in R : FixedSize(h, j) \in Nat /\ FixedSize(h, j) >= h.min
      BY <1>0, <1>4, <2>2
    <2>5. n \in Nat /\ n - 1 = m
      BY <2>2
    <2>6. F \in [0 .. n - 1 -> Nat] /\ \A j \in 0 .. m : F[j] = FixedSize(h, j)
      BY <1>6, <2>3, <2>4, <2>5
    <2>7. First(F, n) = First(F, m) + F[m]
      <3>1. \A j \in 0 .. n - 1 : F[j] \in Int
        BY <2>6
      <3>2. m < n
        BY <2>2
      <3> QED BY <2>2, <2>5, <3>1, <3>2, FirstStep
    <2>8. First(F, m) = First(G, m)
      <3>1. \A j \in 0 .. m - 1 : F[j] = G[j]
        <4> TAKE j \in 0 .. m - 1
        <4>1. j \in 0 .. m
          BY <2>2
        <4> QED BY <1>5, <2>1, <2>6, <4>1
      <3> QED BY <2>2, <3>1, FirstSame
    <2>9. F[m] <= h.have - First(G, m) /\ First(G, m) \in Nat /\ F[m] \in Nat
      <3>1. F[m] = FixedSize(h, m) /\ FixedSize(h, m) \in Nat
        BY <2>1, <2>2, <2>4, <2>6
      <3>2. FixedSize(h, m) <= LeftOver(h, m)
        BY <1>4, <2>2
      <3>3. LeftOver(h, m) = h.have - First(G, m) /\ First(G, m) \in Nat
        BY <1>2, <1>3, <2>2
      <3> QED BY <3>1, <3>2, <3>3
    <2>10. First(F, n) <= h.have
      BY <1>0, <2>7, <2>8, <2>9
    <2>11. \A k \in 0 .. n - 1 : F[k] >= h.min
      BY <2>3, <2>4, <2>5, <2>6
    <2>12. Ladder(F, n, h)
      BY <2>5, <2>6, <2>10, <2>11 DEF Ladder
    <2> QED BY <2>12 DEF F
  <1> QED BY <1>7, <1>8

\* Whatever the holding and its configuration, its slices make a ladder.
LEMMA LadderIs ==
    ASSUME NEW h \in Holdings
    PROVE  \E n : Ladder(Sizes(h), n, h)
  <1>0. /\ h.have \in Nat /\ h.min \in Nat \ {0} /\ h.levels \in Nat \ {0}
        /\ h.first \in Nat
    BY DEF Holdings
  <1>1. CASE h.have < h.min
    <2> DEFINE F == [k \in {} |-> 0]
    <2>1. Sizes(h) = F
      BY <1>1 DEF Sizes
    <2>2. F \in [0 .. 0 - 1 -> Nat] /\ 0 .. 0 - 1 = {}
      OBVIOUS
    <2> HIDE DEF F
    <2>3. First(F, 0) <= h.have
      BY <1>0, FirstNone
    <2>4. Ladder(F, 0, h)
      BY <2>2, <2>3 DEF Ladder
    <2> QED BY <2>1, <2>4
  <1>2. CASE h.have >= h.min /\ h.first > 0
    <2>1. ~(h.have < h.min)
      BY <1>0, <1>2
    <2>2. Sizes(h) = Fixed(h)
      BY <1>2, <2>1 DEF Sizes
    <2> QED BY <2>2, FixedIs
  <1>3. CASE h.have >= h.min /\ ~(h.first > 0)
    <2> DEFINE Fits(n) == n = 1 \/ \A k \in 0 .. n - 1 : Split(h, n)[k] >= h.min
               T == {n \in 1 .. h.levels : Fits(n)}
               n == Max(T)
               z == Split(h, n)
    <2>1. ~(h.have < h.min)
      BY <1>0, <1>3
    <2>2. Sizes(h) = z
      BY <1>3, <2>1 DEF Sizes
    <2>3. n \in 1 .. h.levels /\ Fits(n)
      <3>1. 1 \in T /\ T \subseteq 0 .. h.levels
        BY <1>0
      <3> HIDE DEF T
      <3>2. n \in T
        BY <1>0, <3>1, MaxOf
      <3> HIDE DEF Fits, n
      <3> QED BY <3>2 DEF T
    <2> HIDE DEF n
    <2>4. n \in Nat \ {0}
      BY <1>0, <2>3
    <2>5. z \in [0 .. n - 1 -> Int] /\ First(z, n) = h.have
      BY <2>4, SplitIs
    <2>6. \A k \in 0 .. n - 1 : z[k] >= h.min
      <3>1. CASE n = 1
        <4> HIDE DEF z
        <4>1. First(z, 1) = First(z, 0) + z[0]
          <5>1. 0 \in Nat /\ 0 < n /\ 0 + 1 = 1 /\ \A j \in 0 .. n - 1 : z[j] \in Int
            BY <2>4, <2>5
          <5>2. First(z, 0 + 1) = First(z, 0) + z[0]
            BY <2>4, <5>1, FirstStep
          <5> QED BY <5>1, <5>2
        <4>2. z[0] = h.have
          <5>1. z[0] \in Int
            BY <2>4, <2>5
          <5> QED BY <2>5, <3>1, <4>1, <5>1, FirstNone
        <4>3. 0 .. n - 1 = {0}
          BY <3>1
        <4> QED BY <1>3, <4>2, <4>3
      <3>2. CASE n # 1
        BY <2>3, <3>2
      <3> QED BY <3>1, <3>2
    <2> HIDE DEF z
    <2>7. z \in [0 .. n - 1 -> Nat]
      <3>1. \A k \in 0 .. n - 1 : z[k] \in Nat
        BY <1>0, <2>5, <2>6
      <3> QED BY <2>5, <3>1
    <2>8. Ladder(z, n, h)
      BY <1>0, <2>4, <2>5, <2>6, <2>7 DEF Ladder
    <2> QED BY <2>2, <2>8
  <1> QED BY <1>0, <1>1, <1>2, <1>3

\* A depth is the sum of the first slices.
LEMMA DepthIs ==
    ASSUME NEW n \in Nat, NEW sizes \in [0 .. n - 1 -> Nat], NEW k \in 0 .. n
    PROVE  Depth(sizes, k) = First(sizes, k)
  <1>1. {j \in DOMAIN sizes : j < k} = 0 .. k - 1
    OBVIOUS
  <1>2. [j \in {j \in DOMAIN sizes : j < k} |-> sizes[j]] = [j \in 0 .. k - 1 |-> sizes[j]]
    BY <1>1
  <1> QED BY <1>2, Zenon DEF Depth, First

\* The ladder's division rounded up is that of the terms.
LEMMA DivUpIs == ASSUME NEW a, NEW b PROVE DivUp(a, b) = CeilDiv(a, b)
  BY DEF DivUp, CeilDiv

\* The rates of a ladder grow from the maker's own.
LEMMA RateIs ==
    ASSUME NEW h \in Holdings
    PROVE  /\ Scale(h) \in Nat \ {0} /\ RateDen(h) = h.den * Scale(h)
           /\ \A k \in Nat : /\ RateNum(h, k) \in Nat
                             /\ RateNum(h, k) >= h.num * Scale(h)
           /\ \A k, m \in Nat : k <= m => RateNum(h, k) <= RateNum(h, m)
  <1>0. /\ h.num \in Nat \ {0} /\ h.den \in Nat \ {0} /\ h.step \in Nat
        /\ BpsUnit \in Nat \ {0} /\ LeastNum \in Nat \ {0}
    BY QuotesAssumption DEF Holdings
  <1>1. Scale(h) \in Nat \ {0}
    <2>1. CeilDiv(LeastNum, h.num) \in Nat /\ LeastNum <= h.num * CeilDiv(LeastNum, h.num)
      BY <1>0, CeilDivIs
    <2>2. CeilDiv(LeastNum, h.num) \in Nat \ {0}
      BY <1>0, <2>1
    <2> QED BY <2>2, DivUpIs DEF Scale
  <1> DEFINE a == h.num * Scale(h)
             x(k) == a * (BpsUnit + h.step * k)
  <1>2. a \in Nat \ {0}
    BY <1>0, <1>1
  <1>3. \A k \in Nat : RateNum(h, k) = CeilDiv(x(k), BpsUnit)
    BY DivUpIs DEF RateNum
  <1> HIDE DEF a
  <1>4. ASSUME NEW k \in Nat PROVE x(k) \in Nat /\ x(k) >= BpsUnit * a
    <2>1. h.step * k \in Nat
      BY <1>0
    <2>2. a * (h.step * k) \in Nat /\ a * BpsUnit \in Nat
      BY <1>0, <1>2, <2>1
    <2>3. a * (BpsUnit + h.step * k) = a * BpsUnit + a * (h.step * k)
      BY <1>0, <1>2, <2>1
    <2>4. a * BpsUnit = BpsUnit * a
      BY <1>0, <1>2
    <2> QED BY <2>2, <2>3, <2>4
  <1>5. ASSUME NEW k \in Nat, NEW m \in Nat, k <= m PROVE x(k) <= x(m)
    <2>1. h.step * k \in Nat /\ h.step * m \in Nat /\ h.step * k <= h.step * m
      BY <1>0, <1>5
    <2> DEFINE b == BpsUnit + h.step * k
               c == BpsUnit + h.step * m
    <2>2. b \in Nat /\ c \in Nat /\ b <= c
      BY <1>0, <2>1
    <2> HIDE DEF b, c
    <2>3. a * b <= a * c
      BY <1>2, <2>2
    <2> QED BY <2>3 DEF b, c
  <1> HIDE DEF x
  <1>6. ASSUME NEW k \in Nat
        PROVE  RateNum(h, k) \in Nat /\ RateNum(h, k) >= a
    <2>1. RateNum(h, k) \in Nat /\ x(k) <= BpsUnit * RateNum(h, k)
      BY <1>0, <1>3, <1>4, CeilDivIs
    <2>2. BpsUnit * a <= BpsUnit * RateNum(h, k)
      <3>1. BpsUnit * a \in Nat /\ BpsUnit * RateNum(h, k) \in Nat
        BY <1>0, <1>2, <2>1
      <3> QED BY <1>4, <2>1, <3>1
    <2> QED BY <1>0, <1>2, <2>1, <2>2
  <1>7. ASSUME NEW k \in Nat, NEW m \in Nat, k <= m
        PROVE  RateNum(h, k) <= RateNum(h, m)
    <2>1. /\ x(k) \in Nat /\ x(m) \in Nat /\ x(k) <= x(m)
          /\ CeilDiv(x(m), BpsUnit) \in Nat /\ x(m) <= BpsUnit * CeilDiv(x(m), BpsUnit)
      BY <1>0, <1>4, <1>5, <1>7, CeilDivIs
    <2>2. x(k) <= BpsUnit * CeilDiv(x(m), BpsUnit) /\ CeilDiv(x(m), BpsUnit) \in Int
      <3>1. BpsUnit * CeilDiv(x(m), BpsUnit) \in Nat
        BY <1>0, <2>1
      <3> QED BY <2>1, <3>1
    <2>3. CeilDiv(x(k), BpsUnit) <= CeilDiv(x(m), BpsUnit)
      BY <1>0, <2>1, <2>2, CeilDivBelow
    <2> QED BY <1>3, <2>3
  <1> QED BY <1>1, <1>6, <1>7 DEF RateDen, a

\* The parts of a walk, and what each is worth.
Parts(sizes, n, give) == [k \in 0 .. n - 1 |-> Part(sizes, give, k)]
Worths(h, sizes, n, give) ==
    [k \in 0 .. n - 1 |-> Part(sizes, give, k) * RateNum(h, k)]

\* A walk takes of the first slices what was asked, or all they hold.
LEMMA PartsAdd ==
    ASSUME NEW n \in Nat, NEW sizes \in [0 .. n - 1 -> Nat], NEW give \in Nat
    PROVE  /\ \A k \in 0 .. n - 1 : Part(sizes, give, k) \in Nat
           /\ \A m \in 0 .. n : First(Parts(sizes, n, give), m)
                                  = Smaller(give, First(sizes, m))
  <1> DEFINE P == Parts(sizes, n, give)
             D(k) == First(sizes, k)
  <1>0. \A j \in 0 .. n - 1 : sizes[j] \in Nat /\ sizes[j] \in Int
    OBVIOUS
  <1>1. ASSUME NEW k \in Nat, k < n
        PROVE  /\ D(k) \in Nat /\ D(k + 1) = D(k) + sizes[k]
               /\ Part(sizes, give, k) = Larger(0, Smaller(sizes[k], give - D(k)))
    <2>1. D(k + 1) = D(k) + sizes[k]
      BY <1>0, <1>1, FirstStep
    <2>2. k \in 0 .. n /\ k \in 0 .. n - 1
      BY <1>1
    <2>3. D(k) \in Nat
      BY <1>0, <2>2, FirstNat
    <2>4. Depth(sizes, k) = D(k)
      BY <2>2, DepthIs
    <2> HIDE DEF D
    <2>5. sizes[k] \in Int /\ give - D(k) \in Int
      BY <1>0, <2>2, <2>3
    <2>6. Min({sizes[k], give - D(k)}) = Smaller(sizes[k], give - D(k))
      BY <2>5, MinPair
    <2>7. Smaller(sizes[k], give - D(k)) \in Int /\ 0 \in Int
      BY <2>5 DEF Smaller
    <2>8. Max({0, Smaller(sizes[k], give - D(k))}) = Larger(0, Smaller(sizes[k], give - D(k)))
      BY <2>7, MaxPair
    <2>9. Part(sizes, give, k) = Max({0, Min({sizes[k], give - D(k)})})
      BY <2>4 DEF Part
    <2> QED BY <2>1, <2>3, <2>6, <2>8, <2>9
  <1>2. \A k \in 0 .. n - 1 : Part(sizes, give, k) \in Nat
    <2> TAKE k \in 0 .. n - 1
    <2>1. k \in Nat /\ k < n /\ sizes[k] \in Nat
      OBVIOUS
    <2> HIDE DEF D
    <2>2. D(k) \in Nat /\ Part(sizes, give, k) = Larger(0, Smaller(sizes[k], give - D(k)))
      BY <1>1, <2>1
    <2> QED BY <2>1, <2>2 DEF Larger, Smaller
  <1>3. \A k \in 0 .. n - 1 : P[k] = Part(sizes, give, k) /\ P[k] \in Int
    BY <1>2 DEF Parts
  <1> HIDE DEF P
  <1> DEFINE N == {m \in Nat : m <= n => First(P, m) = Smaller(give, D(m))}
  <1>4. 0 \in N
    <2>1. First(P, 0) = 0 /\ D(0) = 0
      BY FirstNone
    <2> HIDE DEF D
    <2> QED BY <2>1 DEF Smaller
  <1>5. ASSUME NEW m \in Nat, m \in N PROVE m + 1 \in N
    <2> SUFFICES ASSUME m + 1 <= n PROVE First(P, m + 1) = Smaller(give, D(m + 1))
      OBVIOUS
    <2>1. m < n /\ m \in 0 .. n - 1
      OBVIOUS
    <2>2. First(P, m + 1) = First(P, m) + P[m]
      BY <1>3, <2>1, FirstStep
    <2>3. First(P, m) = Smaller(give, D(m))
      BY <1>5, <2>1
    <2> HIDE DEF N, D
    <2>4. /\ D(m) \in Nat /\ D(m + 1) = D(m) + sizes[m] /\ sizes[m] \in Nat
          /\ P[m] = Larger(0, Smaller(sizes[m], give - D(m)))
      BY <1>0, <1>1, <1>3, <2>1
    <2> QED BY <2>2, <2>3, <2>4 DEF Smaller, Larger
  <1> HIDE DEF N
  <1>6. Nat \subseteq N
    BY <1>4, <1>5, Induction
  <1> QED BY <1>2, <1>6 DEF N, P, D

\* No part of a walk is worth less than the maker's own rate says.
LEMMA WorthIs ==
    ASSUME NEW h \in Holdings, NEW n \in Nat, NEW sizes \in [0 .. n - 1 -> Nat],
           NEW give \in Nat
    PROVE  LET worth == First(Worths(h, sizes, n, give), n)
           IN  /\ worth \in Nat
               /\ worth >= (h.num * Scale(h)) * First(Parts(sizes, n, give), n)
  <1> DEFINE a == h.num * Scale(h)
             P == Parts(sizes, n, give)
             W == Worths(h, sizes, n, give)
  <1>1. a \in Nat
    <2>1. h.num \in Nat
      BY DEF Holdings
    <2> QED BY <2>1, RateIs
  <1> HIDE DEF a
  <1>2. \A k \in 0 .. n - 1 : RateNum(h, k) \in Nat /\ RateNum(h, k) >= a
    <2> TAKE k \in 0 .. n - 1
    <2>1. k \in Nat
      OBVIOUS
    <2> QED BY <2>1, RateIs DEF a
  <1>3. \A k \in 0 .. n - 1 : P[k] \in Nat /\ W[k] = P[k] * RateNum(h, k)
    BY PartsAdd DEF Parts, Worths
  <1> HIDE DEF P, W
  <1>4. \A k \in 0 .. n - 1 : W[k] \in Nat /\ W[k] >= a * P[k]
    <2> TAKE k \in 0 .. n - 1
    <2> DEFINE p == P[k]
               r == RateNum(h, k)
    <2>1. p \in Nat /\ r \in Nat /\ r >= a /\ W[k] = p * r
      BY <1>2, <1>3
    <2> HIDE DEF p, r
    <2>2. p * r \in Nat /\ p * r >= a * p
      BY <1>1, <2>1
    <2> QED BY <2>1, <2>2 DEF p
  <1> DEFINE N == {m \in Nat : m <= n => /\ First(W, m) \in Nat /\ First(P, m) \in Nat
                                         /\ First(W, m) >= a * First(P, m)}
  <1>5. 0 \in N
    <2>1. First(P, 0) = 0 /\ First(W, 0) = 0
      BY FirstNone
    <2> QED BY <1>1, <2>1
  <1>6. ASSUME NEW m \in Nat, m \in N PROVE m + 1 \in N
    <2> SUFFICES ASSUME m + 1 <= n
                 PROVE  /\ First(W, m + 1) \in Nat /\ First(P, m + 1) \in Nat
                        /\ First(W, m + 1) >= a * First(P, m + 1)
      OBVIOUS
    <2>1. m < n /\ m \in 0 .. n - 1
      OBVIOUS
    <2>2. First(P, m + 1) = First(P, m) + P[m]
      <3>1. \A j \in 0 .. n - 1 : P[j] \in Int
        BY <1>3
      <3> QED BY <2>1, <3>1, FirstStep
    <2>3. First(W, m + 1) = First(W, m) + W[m]
      <3>1. \A j \in 0 .. n - 1 : W[j] \in Int
        BY <1>4
      <3> QED BY <2>1, <3>1, FirstStep
    <2> DEFINE u == First(W, m)
               v == First(P, m)
               w == W[m]
               p == P[m]
    <2>4. u \in Nat /\ v \in Nat /\ u >= a * v /\ w \in Nat /\ p \in Nat /\ w >= a * p
      BY <1>3, <1>4, <1>6, <2>1
    <2> HIDE DEF N, u, v, w, p
    <2>5. a * (v + p) = a * v + a * p /\ a * v \in Nat /\ a * p \in Nat
      BY <1>1, <2>4
    <2>6. u + w \in Nat /\ v + p \in Nat /\ u + w >= a * (v + p)
      BY <2>4, <2>5
    <2> QED BY <2>2, <2>3, <2>6 DEF u, v, w, p
  <1> HIDE DEF N
  <1>7. Nat \subseteq N
    BY <1>5, <1>6, Induction
  <1>8. First(W, n) \in Nat /\ First(W, n) >= a * First(P, n)
    BY <1>7 DEF N
  <1> QED BY <1>8 DEF a, P, W

\* A published quote: a rate of the ladder, no more than the slices up to it hold,
\* and no more than the room pays for.
QuoteOf(q, h, room, sizes, n, k) ==
    /\ Ladder(sizes, n, h) /\ k \in 0 .. n - 1
    /\ q.num = RateNum(h, k) /\ q.den = RateDen(h) /\ q.min = h.min
    /\ q.max \in Int /\ q.min <= q.max /\ q.max <= First(sizes, k + 1)
    /\ q.max * q.num <= q.den * room

\* Every quote that is published, after the cut to the room, is of that form.
LEMMA QuoteIs ==
    ASSUME NEW h \in Holdings, NEW room \in Nat,
           NEW q \in CapQuotes(LadderQuotes(h), room)
    PROVE  \E n, k : QuoteOf(q, h, room, Sizes(h), n, k)
  <1> DEFINE sizes == Sizes(h)
             all == LadderQuotes(h)
             over == {p \in all : DivUp(p.max * p.num, p.den) > room}
             shrunk == {[p EXCEPT !.max = Fit(p, room)] : p \in over}
             den == RateDen(h)
  <1>0. h.num \in Nat \ {0} /\ h.den \in Nat \ {0} /\ h.min \in Nat \ {0}
    BY DEF Holdings
  <1>1. PICK n : Ladder(sizes, n, h)
    BY LadderIs
  <1>2. DOMAIN sizes = 0 .. n - 1 /\ n \in Nat /\ sizes \in [0 .. n - 1 -> Nat]
    BY <1>1 DEF Ladder
  <1> HIDE DEF sizes
  <1>3. den \in Nat \ {0}
    <2>1. den = h.den * Scale(h) /\ Scale(h) \in Nat \ {0}
      BY RateIs
    <2> QED BY <1>0, <2>1
  <1> HIDE DEF den
  <1>4. ASSUME NEW p \in all
        PROVE  \E k \in 0 .. n - 1 :
                  /\ p = [num |-> RateNum(h, k), den |-> den, min |-> h.min,
                          max |-> First(sizes, k + 1)]
                  /\ RateNum(h, k) \in Nat \ {0} /\ First(sizes, k + 1) \in Nat
                  /\ h.min <= First(sizes, k + 1)
    <2>1. PICK k \in DOMAIN sizes : p = QuoteAt(h, sizes, k)
      BY DEF LadderQuotes, sizes
    <2>2. k \in 0 .. n - 1 /\ k \in Nat /\ k + 1 \in 0 .. n /\ k < n
      BY <1>2, <2>1
    <2>3. Depth(sizes, k + 1) = First(sizes, k + 1)
      BY <1>2, <2>2, DepthIs
    <2>4. RateNum(h, k) \in Nat \ {0}
      <3>1. RateNum(h, k) \in Nat /\ RateNum(h, k) >= h.num * Scale(h) /\ Scale(h) \in Nat \ {0}
        BY <2>2, RateIs
      <3>2. h.num * Scale(h) \in Nat \ {0}
        BY <1>0, <3>1
      <3> QED BY <3>1, <3>2
    <2>5. /\ First(sizes, k + 1) \in Nat /\ First(sizes, k) \in Nat
          /\ First(sizes, k + 1) = First(sizes, k) + sizes[k]
      <3>1. \A j \in 0 .. n - 1 : sizes[j] \in Nat /\ sizes[j] \in Int
        BY <1>2
      <3>2. k \in 0 .. n
        BY <1>2, <2>2
      <3> QED BY <1>2, <2>2, <3>1, <3>2, FirstNat, FirstStep
    <2>6. sizes[k] >= h.min /\ sizes[k] \in Nat
      BY <1>1, <1>2, <2>2 DEF Ladder
    <2>7. h.min <= First(sizes, k + 1)
      BY <1>0, <2>5, <2>6
    <2> QED BY <2>1, <2>2, <2>3, <2>4, <2>5, <2>7 DEF QuoteAt, den
  <1>5. (q \in all /\ q \notin over) \/ (q \in shrunk /\ q.max >= q.min)
    <2>1. CapQuotes(all, room) = (all \ over) \union {p \in shrunk : p.max >= p.min}
      BY Zenon DEF CapQuotes
    <2> QED BY <2>1
  <1> HIDE DEF all
  <1>6. CASE q \in all /\ q \notin over
    <2>1. PICK k \in 0 .. n - 1 :
                  /\ q = [num |-> RateNum(h, k), den |-> den, min |-> h.min,
                          max |-> First(sizes, k + 1)]
                  /\ RateNum(h, k) \in Nat \ {0} /\ First(sizes, k + 1) \in Nat
                  /\ h.min <= First(sizes, k + 1)
      BY <1>4, <1>6
    <2>2. /\ q.num = RateNum(h, k) /\ q.den = den /\ q.min = h.min
          /\ q.max = First(sizes, k + 1)
      BY <2>1
    <2>3. q.max * q.num \in Nat
      BY <2>1, <2>2
    <2>4. ~(DivUp(q.max * q.num, den) > room)
      BY <1>6, <2>2
    <2>5. CeilDiv(q.max * q.num, den) \in Nat
      BY <1>3, <2>3, CeilDivIs
    <2>6. CeilDiv(q.max * q.num, den) <= room
      BY <2>4, <2>5, DivUpIs
    <2>7. q.max * q.num <= den * room
      BY <1>3, <2>3, <2>6, CeilDivBelow
    <2>8. QuoteOf(q, h, room, sizes, n, k)
      BY <1>0, <1>1, <2>1, <2>2, <2>7 DEF QuoteOf, den
    <2> QED BY <2>8 DEF sizes
  <1>7. CASE q \in shrunk /\ q.max >= q.min
    <2>1. PICK p \in over : q = [p EXCEPT !.max = Fit(p, room)]
      BY <1>7
    <2>2. PICK k \in 0 .. n - 1 :
                  /\ p = [num |-> RateNum(h, k), den |-> den, min |-> h.min,
                          max |-> First(sizes, k + 1)]
                  /\ RateNum(h, k) \in Nat \ {0} /\ First(sizes, k + 1) \in Nat
                  /\ h.min <= First(sizes, k + 1)
      BY <1>4, <2>1
    <2> DEFINE num == RateNum(h, k)
               d == First(sizes, k + 1)
               f == (room * den) \div num
    <2>3. /\ q.num = num /\ q.den = den /\ q.min = h.min /\ q.max = f
          /\ p.num = num /\ p.den = den /\ p.max = d
      BY <2>1, <2>2 DEF Fit
    <2>4. num \in Nat \ {0} /\ d \in Nat
      BY <2>2
    <2> HIDE DEF num, d
    <2>5. f \in Int /\ num * f <= room * den
      <3> DEFINE x == room * den
      <3>1. x \in Int
        BY <1>3
      <3> HIDE DEF x
      <3>2. x \div num \in Int /\ num * (x \div num) <= x
        BY <2>4, <3>1, DivIs
      <3> QED BY <3>2 DEF x
    <2> HIDE DEF f
    <2>6. d * num \in Nat /\ DivUp(d * num, den) > room
      BY <2>1, <2>3, <2>4
    <2>7. ~(d * num <= den * room)
      <3>1. CeilDiv(d * num, den) \in Nat
        BY <1>3, <2>6, CeilDivIs
      <3>2. ~(CeilDiv(d * num, den) <= room)
        BY <2>6, <3>1, DivUpIs
      <3> QED BY <1>3, <2>6, <3>2, CeilDivBelow
    <2>8. f <= d
      <3>1. room * den = den * room /\ den * room \in Int /\ num * f \in Int /\ d * num = num * d
        BY <1>3, <2>4, <2>5
      <3>2. num * f < num * d
        BY <2>4, <2>5, <2>6, <2>7, <3>1
      <3> QED BY <2>4, <2>5, <3>2
    <2>9. q.max * q.num <= q.den * room
      <3>1. f * num = num * f /\ den * room = room * den
        BY <1>3, <2>4, <2>5
      <3> QED BY <2>3, <2>5, <3>1
    <2>10. q.min <= q.max
      BY <1>0, <1>7, <2>3, <2>5
    <2>11. QuoteOf(q, h, room, sizes, n, k)
      BY <1>1, <2>2, <2>3, <2>5, <2>8, <2>9, <2>10 DEF QuoteOf, den, num, d
    <2> QED BY <2>11 DEF sizes
  <1> QED BY <1>5, <1>6, <1>7

\* A larger dividend has no smaller quotient, rounded up.
LEMMA CeilDivGrows ==
    ASSUME NEW a \in Nat, NEW c \in Nat, a <= c, NEW b \in Nat \ {0}
    PROVE  CeilDiv(a, b) <= CeilDiv(c, b)
  <1>1. CeilDiv(c, b) \in Nat /\ c <= b * CeilDiv(c, b)
    BY CeilDivIs
  <1>2. a <= b * CeilDiv(c, b)
    <2>1. b * CeilDiv(c, b) \in Nat
      BY <1>1
    <2> QED BY <1>1, <2>1
  <1> QED BY <1>1, <1>2, CeilDivBelow

\* What a walk of `give` up the ladder wants: no more than the rate of any slice
\* that is deep enough, and no less than the maker's own rate.
LEMMA WalkIs ==
    ASSUME NEW h \in Holdings, NEW n \in Nat, Ladder(Sizes(h), n, h),
           NEW k \in 0 .. n - 1, NEW give \in Nat \ {0},
           give <= First(Sizes(h), k + 1)
    PROVE  /\ WalkWant(h, give) \in Nat \ {0}
           /\ WalkWant(h, give) <= CeilDiv(give * RateNum(h, k), RateDen(h))
           /\ WalkWant(h, give) * h.den >= give * h.num
           /\ give <= h.have
  <1> DEFINE sizes == Sizes(h)
             ends == {j \in DOMAIN sizes : Depth(sizes, j + 1) >= give}
             worth == SumOf([j \in DOMAIN sizes |-> Part(sizes, give, j) * RateNum(h, j)])
             den == RateDen(h)
             e == Min(ends)
             wa == CeilDiv(worth, den)
             wb == CeilDiv(give * RateNum(h, e), den)
  <1>0. h.num \in Nat \ {0} /\ h.den \in Nat \ {0} /\ h.have \in Nat
    BY DEF Holdings
  <1>1. /\ n \in Nat /\ sizes \in [0 .. n - 1 -> Nat] /\ DOMAIN sizes = 0 .. n - 1
        /\ First(sizes, n) <= h.have
    BY DEF Ladder
  <1>2. WalkWant(h, give) = Min({DivUp(worth, den), DivUp(give * RateNum(h, e), den)})
    <2>1. k + 1 \in 0 .. n /\ k \in DOMAIN sizes
      BY <1>1
    <2>2. k \in ends
      BY <1>1, <2>1, DepthIs
    <2>3. ~(give <= 0 \/ ends = {})
      BY <2>2
    <2> HIDE DEF ends, worth, den, e
    <2> QED BY <2>3, Zenon DEF WalkWant, ends, worth, den, e, sizes
  <1>3. e \in 0 .. k
    <2>1. k + 1 \in 0 .. n /\ k \in DOMAIN sizes
      BY <1>1
    <2>2. k \in ends
      BY <1>1, <2>1, DepthIs
    <2>3. ends \subseteq Nat
      BY <1>1
    <2> HIDE DEF ends
    <2>4. ends # {}
      BY <2>2
    <2>5. e \in ends /\ \A y \in ends : e <= y
      BY <2>3, <2>4, MinOf
    <2> HIDE DEF e
    <2>6. e <= k /\ e \in Nat
      BY <2>2, <2>3, <2>5
    <2> QED BY <2>6
  <1> HIDE DEF e
  <1>4. worth = First(Worths(h, sizes, n, give), n)
    <2> DEFINE W == Worths(h, sizes, n, give)
    <2>1. [j \in DOMAIN sizes |-> Part(sizes, give, j) * RateNum(h, j)] = W
      BY <1>1, Zenon DEF Worths
    <2>2. W = [j \in 0 .. n - 1 |-> W[j]]
      BY DEF Worths
    <2> HIDE DEF W
    <2>3. worth = SumOf(W)
      BY <2>1
    <2> QED BY <2>2, <2>3 DEF First, W
  <1>5. give <= First(sizes, n) /\ First(sizes, n) \in Nat
    <2>1. \A j \in 0 .. n - 1 : sizes[j] \in Nat
      BY <1>1
    <2>2. n \in 0 .. n /\ k + 1 \in 0 .. n
      OBVIOUS
    <2>3. First(sizes, n) \in Nat /\ First(sizes, k + 1) \in Nat
      BY <2>1, <2>2, FirstNat
    <2>4. First(sizes, n) >= First(sizes, k + 1)
      BY <2>1, <2>2, FirstNat
    <2> QED BY <2>3, <2>4
  <1> DEFINE a == h.num * Scale(h)
  <1>6. Scale(h) \in Nat \ {0} /\ den = h.den * Scale(h)
    BY RateIs
  <1>7. a \in Nat \ {0} /\ den \in Nat \ {0}
    BY <1>0, <1>6
  <1>8. worth \in Nat /\ worth >= a * give
    <2>1. First(Parts(sizes, n, give), n) = Smaller(give, First(sizes, n))
      <3>1. n \in 0 .. n
        OBVIOUS
      <3> HIDE DEF sizes
      <3> QED BY <1>1, <3>1, PartsAdd
    <2>2. First(Parts(sizes, n, give), n) = give
      BY <1>5, <2>1 DEF Smaller
    <2> HIDE DEF sizes, worth
    <2>3. worth \in Nat /\ worth >= a * First(Parts(sizes, n, give), n)
      BY <1>1, <1>4, WorthIs
    <2> QED BY <2>2, <2>3
  <1> DEFINE re == RateNum(h, e)
             rk == RateNum(h, k)
  <1>9. re \in Nat /\ rk \in Nat /\ re >= a /\ re <= rk
    <2>1. e \in Nat /\ k \in Nat /\ e <= k
      BY <1>3
    <2> QED BY <2>1, RateIs
  <1>10. WalkWant(h, give) = Smaller(wa, wb) /\ wa \in Nat /\ wb \in Nat
    <2>1. give * RateNum(h, e) \in Nat
      BY <1>9
    <2> HIDE DEF worth, den
    <2>2. wa \in Nat /\ wb \in Nat
      BY <1>7, <1>8, <2>1, CeilDivIs
    <2>3. WalkWant(h, give) = Min({wa, wb})
      BY <1>2, DivUpIs
    <2> HIDE DEF wa, wb
    <2>4. wa \in Int /\ wb \in Int
      BY <2>2
    <2>5. Min({wa, wb}) = Smaller(wa, wb)
      BY <2>4, MinPair
    <2> QED BY <2>2, <2>3, <2>5
  <1>11. wa * den >= a * give /\ wb * den >= a * give
    <2> DEFINE y == give * re
    <2>1. y \in Nat /\ y >= a * give /\ a * give \in Nat
      BY <1>7, <1>9
    <2> HIDE DEF y, worth, den, a
    <2>2. worth <= den * wa
      BY <1>7, <1>8, CeilDivIs
    <2>3. y <= den * wb
      <3>1. wb = CeilDiv(y, den)
        BY DEF y
      <3> HIDE DEF wb
      <3> QED BY <1>7, <2>1, <3>1, CeilDivIs
    <2> HIDE DEF wa, wb
    <2>4. wa * den = den * wa /\ wb * den = den * wb /\ den * wa \in Nat /\ den * wb \in Nat
      BY <1>7, <1>10
    <2> QED BY <1>8, <2>1, <2>2, <2>3, <2>4
  <1>12. wb <= CeilDiv(give * rk, den)
    <2>1. give * re \in Nat /\ give * rk \in Nat /\ give * re <= give * rk
      BY <1>9
    <2> HIDE DEF den
    <2>2. CeilDiv(give * re, den) <= CeilDiv(give * rk, den)
      BY <1>7, <2>1, CeilDivGrows
    <2> QED BY <2>2
  <1> DEFINE w == WalkWant(h, give)
  <1>13. w \in Nat /\ w * den >= a * give /\ w <= wb
    <2> HIDE DEF wa, wb, w, a, den
    <2> QED BY <1>10, <1>11 DEF Smaller, w
  <1>14. w <= CeilDiv(give * rk, den)
    <2>1. CeilDiv(give * rk, den) \in Nat
      <3>1. give * rk \in Nat
        BY <1>9
      <3> HIDE DEF den
      <3> QED BY <1>7, <3>1, CeilDivIs
    <2> HIDE DEF wb, w
    <2> QED BY <1>10, <1>12, <1>13, <2>1
  <1> HIDE DEF w
  <1>15. w * h.den >= give * h.num
    <2> DEFINE s == Scale(h)
               u == w * h.den
               v == give * h.num
    <2>1. u \in Nat /\ v \in Nat /\ s \in Nat \ {0}
      BY <1>0, <1>6, <1>13
    <2>2. w * den = s * u
      BY <1>0, <1>6, <1>13
    <2>3. a * give = s * v
      BY <1>0, <1>6
    <2> HIDE DEF s, u, v, a, den
    <2>4. s * u >= s * v
      BY <1>13, <2>2, <2>3
    <2>5. u >= v
      BY <2>1, <2>4
    <2> QED BY <2>5 DEF u, v
  <1>16. w # 0
    <2>1. give * h.num > 0
      BY <1>0
    <2> SUFFICES ASSUME w = 0 PROVE FALSE
      OBVIOUS
    <2>2. w * h.den = 0
      BY <1>0
    <2> QED BY <1>0, <1>15, <2>1, <2>2
  <1>17. give <= h.have
    BY <1>0, <1>1, <1>5
  <1> QED BY <1>13, <1>14, <1>15, <1>16, <1>17 DEF w, den, sizes

\* A firm offer within the holding and the room, at the quote's price at most and
\* the maker's own rate at least.
FirmHonours(h, room, give, num, den) ==
    LET want == Firm(h, room, give)
    IN  /\ 0 < want /\ want <= DivUp(give * num, den)
        /\ want <= room /\ give <= h.have
        /\ want * h.den >= give * h.num

\* What is published is sold: for every holding, ladder and room, every amount a
\* published quote carries gets such an offer from /v1/firm.
THEOREM FirmIsSound ==
    ASSUME NEW h \in Holdings, NEW room \in Nat,
           NEW q \in CapQuotes(LadderQuotes(h), room)
    PROVE  /\ 0 < q.min /\ q.min <= q.max /\ q.num > 0 /\ q.den > 0
           /\ \A give \in q.min .. q.max : FirmHonours(h, room, give, q.num, q.den)
  <1>0. h.num \in Nat \ {0} /\ h.den \in Nat \ {0} /\ h.min \in Nat \ {0}
    BY DEF Holdings
  <1>1. PICK n, k : QuoteOf(q, h, room, Sizes(h), n, k)
    BY QuoteIs
  <1>2. /\ Ladder(Sizes(h), n, h) /\ k \in 0 .. n - 1 /\ n \in Nat /\ k \in Nat
        /\ q.num = RateNum(h, k) /\ q.den = RateDen(h) /\ q.min = h.min
        /\ q.max \in Int /\ q.min <= q.max /\ q.max <= First(Sizes(h), k + 1)
        /\ q.max * q.num <= q.den * room
    BY <1>1 DEF QuoteOf, Ladder
  <1>3. q.num \in Nat \ {0} /\ q.den \in Nat \ {0}
    <2>1. Scale(h) \in Nat \ {0} /\ RateDen(h) = h.den * Scale(h)
      BY RateIs
    <2>2. RateNum(h, k) \in Nat /\ RateNum(h, k) >= h.num * Scale(h)
      BY <1>2, RateIs
    <2>3. h.num * Scale(h) \in Nat \ {0} /\ h.den * Scale(h) \in Nat \ {0}
      BY <1>0, <2>1
    <2> QED BY <1>2, <2>1, <2>2, <2>3
  <1> DEFINE least == q.min
             most == q.max
             num == q.num
             den == q.den
  <1>4. /\ least \in Nat \ {0} /\ most \in Int /\ least <= most /\ least = h.min
        /\ num \in Nat \ {0} /\ den \in Nat \ {0} /\ most * num <= den * room
        /\ num = RateNum(h, k) /\ den = RateDen(h) /\ most <= First(Sizes(h), k + 1)
    BY <1>0, <1>2, <1>3
  <1> HIDE DEF least, most, num, den
  <1>5. ASSUME NEW give \in least .. most PROVE FirmHonours(h, room, give, num, den)
    <2> DEFINE w == WalkWant(h, give)
    <2>1. give \in Nat \ {0} /\ give >= h.min /\ give <= most
      BY <1>4
    <2>2. give <= First(Sizes(h), k + 1)
      <3>1. First(Sizes(h), k + 1) \in Nat
        <4>1. Sizes(h) \in [0 .. n - 1 -> Nat] /\ k + 1 \in 0 .. n
          BY <1>2 DEF Ladder
        <4>2. \A j \in 0 .. n - 1 : Sizes(h)[j] \in Nat
          BY <4>1
        <4> QED BY <1>2, <4>1, <4>2, FirstNat
      <3> QED BY <1>4, <2>1, <3>1
    <2>3. /\ w \in Nat \ {0} /\ w <= CeilDiv(give * num, den)
          /\ w * h.den >= give * h.num /\ give <= h.have
      BY <1>2, <1>4, <2>1, <2>2, WalkIs
    <2> HIDE DEF w
    <2>4. give * num \in Nat /\ give * num <= den * room
      <3>1. give * num <= most * num /\ most * num \in Int /\ den * room \in Int
        BY <1>4, <2>1
      <3> QED BY <1>4, <2>1, <3>1
    <2>5. CeilDiv(give * num, den) \in Nat /\ CeilDiv(give * num, den) <= room
      BY <1>4, <2>4, CeilDivIs, CeilDivBelow
    <2>6. w <= room
      BY <2>3, <2>5
    <2>7. Firm(h, room, give) = w
      <3>1. ~(w > room)
        BY <2>3, <2>6
      <3> QED BY <2>1, <3>1, Zenon DEF Firm, w
    <2>8. DivUp(give * num, den) = CeilDiv(give * num, den)
      BY DivUpIs
    <2> QED BY <2>3, <2>6, <2>7, <2>8 DEF FirmHonours
  <1>6. 0 < least /\ least <= most /\ num > 0 /\ den > 0
    BY <1>4
  <1> QED BY <1>5, <1>6 DEF least, most, num, den

-----------------------------------------------------------------------------
(* What one merge takes                                                     *)

\* Orders of a finite set, and what comes before an element.
Ordered(r, P) ==
    /\ \A i \in P : <<i, i>> \notin r
    /\ \A i, j \in P : i = j \/ <<i, j>> \in r \/ <<j, i>> \in r
    /\ \A i, j, k \in P : <<i, j>> \in r /\ <<j, k>> \in r => <<i, k>> \in r
Behind(r, P, i) == {j \in P : <<j, i>> \in r}
Lowest(r, P, n) == {i \in P : Cardinality(Behind(r, P, i)) < n}

\* A finite ordered set has a greatest element.
LEMMA GreatestIn ==
    ASSUME NEW r, NEW P, IsFiniteSet(P), P # {}, Ordered(r, P)
    PROVE  \E g \in P : \A i \in P : i = g \/ <<i, g>> \in r
  <1> DEFINE Has(Q) == \E g \in Q : \A i \in Q : i = g \/ <<i, g>> \in r
             N == {n \in Nat : \A Q \in SUBSET P : Cardinality(Q) <= n => Q = {} \/ Has(Q)}
  <1>0. \A Q \in SUBSET P : IsFiniteSet(Q) /\ Cardinality(Q) \in Nat
    BY FS_Subset, FS_CardinalityType
  <1>1. 0 \in N
    <2>1. \A Q \in SUBSET P : Cardinality(Q) <= 0 => Q = {}
      BY <1>0, FS_EmptySet
    <2> QED BY <2>1
  <1>2. ASSUME NEW n \in Nat, n \in N PROVE n + 1 \in N
    <2> SUFFICES ASSUME NEW Q \in SUBSET P, Cardinality(Q) <= n + 1, NEW x \in Q
                 PROVE  Has(Q)
      OBVIOUS
    <2> DEFINE U == Q \ {x}
    <2>1. U \in SUBSET P /\ Cardinality(U) <= n
      BY <1>0, SizeSmaller
    <2>2. U = {} \/ Has(U)
      BY <1>2, <2>1
    <2>3. CASE U = {}
      BY <2>3
    <2>4. CASE Has(U)
      <3>1. PICK g \in U : \A i \in U : i = g \/ <<i, g>> \in r
        BY <2>4
      <3>2. g \in Q /\ g \in P /\ x \in P /\ \A i \in Q : i = x \/ i \in U
        OBVIOUS
      <3>3. g = x \/ <<g, x>> \in r \/ <<x, g>> \in r
        BY <3>2 DEF Ordered
      <3>4. CASE <<g, x>> \in r
        <4>1. \A i \in Q : i = x \/ <<i, x>> \in r
          BY <3>1, <3>2, <3>4 DEF Ordered
        <4> QED BY <4>1
      <3>5. CASE g = x \/ <<x, g>> \in r
        <4>1. \A i \in Q : i = g \/ <<i, g>> \in r
          BY <3>1, <3>2, <3>5
        <4> QED BY <3>2, <4>1
      <3> QED BY <3>3, <3>4, <3>5
    <2> QED BY <2>2, <2>3, <2>4
  <1> HIDE DEF N
  <1>3. Cardinality(P) \in N
    BY <1>0, <1>1, <1>2, Induction
  <1> QED BY <1>0, <1>3 DEF N

\* Of any n there are exactly n lowest.
LEMMA LowestIs ==
    ASSUME NEW r, NEW P, IsFiniteSet(P), Ordered(r, P), NEW n \in 0 .. Cardinality(P)
    PROVE  Cardinality(Lowest(r, P, n)) = n
  <1> DEFINE Fine(Q) == \A m \in 0 .. Cardinality(Q) : Cardinality(Lowest(r, Q, m)) = m
             N == {c \in Nat : \A Q \in SUBSET P : Cardinality(Q) = c => Fine(Q)}
  <1>0. \A Q \in SUBSET P : IsFiniteSet(Q) /\ Cardinality(Q) \in Nat
    BY FS_Subset, FS_CardinalityType
  <1>1. 0 \in N
    <2> SUFFICES ASSUME NEW Q \in SUBSET P, Cardinality(Q) = 0, NEW m \in 0 .. 0
                 PROVE  Cardinality(Lowest(r, Q, m)) = m
      BY Zenon
    <2>1. Q = {} /\ m = 0
      BY <1>0, FS_EmptySet
    <2>2. Lowest(r, Q, m) = {}
      BY <2>1 DEF Lowest
    <2> QED BY <2>1, <2>2, FS_EmptySet
  <1>2. ASSUME NEW c \in Nat, c \in N PROVE c + 1 \in N
    <2>0. c + 1 \in Nat
      OBVIOUS
    <2> SUFFICES ASSUME NEW Q \in SUBSET P, Cardinality(Q) = c + 1,
                        NEW m \in 0 .. c + 1
                 PROVE  Cardinality(Lowest(r, Q, m)) = m
      BY <2>0, Zenon
    <2>1. Ordered(r, Q) /\ Q # {} /\ IsFiniteSet(Q)
      <3>1. Q # {}
        BY FS_EmptySet
      <3> QED BY <1>0, <3>1 DEF Ordered
    <2>2. PICK g \in Q : \A i \in Q : i = g \/ <<i, g>> \in r
      BY <2>1, GreatestIn
    <2> DEFINE U == Q \ {g}
    <2>3. U \in SUBSET P /\ Cardinality(U) = c /\ IsFiniteSet(U)
      BY <1>0, SizeSmaller
    <2>4. \A i \in U : Behind(r, Q, i) = Behind(r, U, i)
      <3>1. \A i \in U : <<g, i>> \notin r
        BY <2>1, <2>2 DEF Ordered
      <3> QED BY <3>1 DEF Behind
    <2>5. Behind(r, Q, g) = U
      BY <2>1, <2>2 DEF Behind, Ordered
    <2>6. CASE m <= c
      <3>1. Lowest(r, Q, m) = Lowest(r, U, m)
        BY <2>3, <2>4, <2>5, <2>6 DEF Lowest
      <3>2. m \in 0 .. Cardinality(U)
        BY <2>3, <2>6
      <3> HIDE DEF U
      <3>3. Fine(U)
        BY <1>2, <2>3
      <3>4. Cardinality(Lowest(r, U, m)) = m
        BY <3>2, <3>3
      <3> QED BY <3>1, <3>4
    <2>7. CASE m = c + 1
      <3>1. ASSUME NEW i \in Q PROVE Cardinality(Behind(r, Q, i)) < c + 1
        <4> DEFINE V == Q \ {i}
        <4>1. Cardinality(V) = c /\ IsFiniteSet(V)
          BY <1>0, SizeSmaller
        <4>2. Behind(r, Q, i) \subseteq V
          BY <2>1 DEF Behind, Ordered
        <4> HIDE DEF V
        <4>3. Cardinality(Behind(r, Q, i)) <= c /\ IsFiniteSet(Behind(r, Q, i))
          BY <4>1, <4>2, FS_Subset
        <4>4. Cardinality(Behind(r, Q, i)) \in Nat
          BY <4>3, FS_CardinalityType
        <4> QED BY <4>3, <4>4
      <3>2. Lowest(r, Q, m) = Q
        BY <2>7, <3>1 DEF Lowest
      <3> QED BY <2>7, <3>2
    <2> QED BY <2>6, <2>7
  <1> HIDE DEF N
  <1>3. Cardinality(P) \in N
    BY <1>0, <1>1, <1>2, Induction
  <1>4. Fine(P)
    BY <1>3 DEF N
  <1> QED BY <1>4

\* What a set of coins holds.
Worth(coins, S) == SumOf([i \in S |-> coins[i].value])
Valued(coins, S) == \A i \in S : coins[i].value \in Nat

\* What a set of coins holds, one coin out.
LEMMA WorthOut ==
    ASSUME NEW coins, NEW S, IsFiniteSet(S), Valued(coins, S), NEW x \in S
    PROVE  /\ Worth(coins, S) = coins[x].value + Worth(coins, S \ {x})
           /\ Worth(coins, S \ {x}) \in Int
  <1> DEFINE f == [i \in S |-> coins[i].value]
             e == [i \in S \ {x} |-> coins[i].value]
  <1>1. DOMAIN f = S /\ \A i \in S : f[i] = coins[i].value
    OBVIOUS
  <1>2. Without(f, x) = e
    <2>1. Without(f, x) = [y \in S \ {x} |-> f[y]]
      BY Zenon, <1>1 DEF Without
    <2> HIDE DEF f
    <2> QED BY <1>1, <2>1
  <1>3. Numbers(f, DOMAIN f)
    BY DEF Numbers, Valued
  <1> HIDE DEF f, e
  <1>4. SumOf(f) = f[x] + SumOf(Without(f, x)) /\ SumOf(Without(f, x)) \in Int
    BY <1>1, <1>3, SumOut
  <1>5. SumOf(f) = coins[x].value + SumOf(e) /\ SumOf(e) \in Int
    BY <1>1, <1>2, <1>4
  <1> QED BY <1>5 DEF Worth, e, f

\* More coins hold no less.
LEMMA WorthGrows ==
    ASSUME NEW coins, NEW S, IsFiniteSet(S), Valued(coins, S), NEW T \in SUBSET S
    PROVE  /\ Worth(coins, T) \in Nat /\ Worth(coins, S) \in Nat
           /\ Worth(coins, T) <= Worth(coins, S)
  <1> DEFINE W(Q) == Worth(coins, Q)
             Fine(Q) == W(Q) \in Nat /\ \A U \in SUBSET Q : W(U) <= W(Q)
             N == {n \in Nat : \A Q \in SUBSET S : Cardinality(Q) <= n => Fine(Q)}
  <1>0. \A Q \in SUBSET S : IsFiniteSet(Q) /\ Cardinality(Q) \in Nat
    BY FS_Subset, FS_CardinalityType
  <1>1. 0 \in N
    <2>1. \A Q \in SUBSET S : Cardinality(Q) <= 0 => Q = {}
      BY <1>0, FS_EmptySet
    <2>2. W({}) = 0
      <3>1. DOMAIN [i \in {} |-> coins[i].value] = {}
        OBVIOUS
      <3> QED BY <3>1, SumEmpty DEF Worth
    <2> HIDE DEF W
    <2> QED BY <2>1, <2>2
  <1>2. ASSUME NEW n \in Nat, n \in N PROVE n + 1 \in N
    <2> SUFFICES ASSUME NEW Q \in SUBSET S, Cardinality(Q) <= n + 1 PROVE Fine(Q)
      OBVIOUS
    <2>1. ASSUME NEW x \in Q
          PROVE  /\ Q \ {x} \in SUBSET S /\ Cardinality(Q \ {x}) <= n
                 /\ coins[x].value \in Nat /\ W(Q) = coins[x].value + W(Q \ {x})
      <3>1. IsFiniteSet(Q) /\ Valued(coins, Q) /\ coins[x].value \in Nat
        BY <1>0 DEF Valued
      <3>2. W(Q) = coins[x].value + W(Q \ {x})
        BY <3>1, WorthOut
      <3>3. Q \ {x} \in SUBSET S /\ Cardinality(Q \ {x}) <= n
        BY <1>0, SizeSmaller
      <3> QED BY <3>1, <3>2, <3>3
    <2> HIDE DEF W
    <2>2. ASSUME NEW x \in Q
          PROVE  W(Q) \in Nat /\ W(Q \ {x}) <= W(Q) /\ Fine(Q \ {x})
      <3>1. Fine(Q \ {x})
        BY <1>2, <2>1
      <3>2. W(Q \ {x}) \in Nat
        BY <3>1
      <3>3. W(Q) \in Nat /\ W(Q \ {x}) <= W(Q)
        <4> DEFINE u == W(Q \ {x})
                   v == coins[x].value
        <4>1. v \in Nat /\ u \in Nat /\ W(Q) = v + u
          BY <2>1, <3>2
        <4> HIDE DEF u, v
        <4>2. W(Q) \in Nat /\ u <= W(Q)
          BY <4>1
        <4> QED BY <4>2 DEF u
      <3> QED BY <3>1, <3>3
    <2>3. W(Q) \in Nat
      <3>1. CASE Q = {}
        <4>1. Cardinality(Q) <= n
          BY <3>1, FS_EmptySet
        <4> QED BY <1>2, <4>1
      <3>2. CASE Q # {}
        BY <2>2, <3>2
      <3> QED BY <3>1, <3>2
    <2>4. ASSUME NEW U \in SUBSET Q PROVE W(U) <= W(Q)
      <3>1. CASE U = Q
        BY <2>3, <3>1
      <3>2. CASE U # Q
        <4>1. PICK x \in Q : x \notin U
          BY <3>2
        <4>2. U \in SUBSET (Q \ {x})
          BY <4>1
        <4> DEFINE V == Q \ {x}
        <4>3. W(V) \in Nat /\ W(V) <= W(Q) /\ \A Z \in SUBSET V : W(Z) <= W(V)
          BY <2>2
        <4>4. V \in SUBSET S /\ Cardinality(V) <= n
          BY <2>1
        <4>5. U \in SUBSET S /\ Cardinality(U) <= n
          <5>1. IsFiniteSet(V) /\ Cardinality(V) \in Nat
            BY <1>0, <4>4
          <5>2. IsFiniteSet(U) /\ Cardinality(U) <= Cardinality(V)
            <6> HIDE DEF V
            <6>1. U \subseteq V
              BY <4>2 DEF V
            <6> QED BY <5>1, <6>1, FS_Subset
          <5>3. Cardinality(U) \in Nat
            BY <5>2, FS_CardinalityType
          <5> QED BY <4>4, <5>1, <5>2, <5>3
        <4>6. W(U) \in Nat
          BY <1>2, <4>5
        <4> QED BY <2>3, <4>2, <4>3, <4>6
      <3> QED BY <3>1, <3>2
    <2> QED BY <2>3, <2>4
  <1> HIDE DEF N
  <1>3. Cardinality(S) \in N /\ Cardinality(T) \in N
    BY <1>0, <1>1, <1>2, Induction
  <1>4. Fine(S) /\ Fine(T)
    BY <1>0, <1>3 DEF N
  <1> QED BY <1>4

\* The coins of one asset, numbered, with their values; and their order.
Purse(coins) ==
    /\ IsFiniteSet(DOMAIN coins) /\ DOMAIN coins \subseteq Nat
    /\ Valued(coins, DOMAIN coins)
Order(coins, byValue) ==
    UNION {{<<i, j>> : i \in {k \in DOMAIN coins : Precedes(coins, byValue, k, j)}}
              : j \in DOMAIN coins}

\* The order of keys, as Precedes compares them.
Lex(a, b, c, x, y, z) ==
    \/ a < x
    \/ a = x /\ b < y
    \/ a = x /\ b = y /\ c < z
NotBoard(coins, i) == IF coins[i].kind = "board" THEN 0 ELSE 1

\* Coins are compared by value first, or boards first.
LEMMA PrecedesIs ==
    ASSUME NEW coins, NEW i, NEW j
    PROVE  /\ Precedes(coins, TRUE, i, j)
                <=> Lex(coins[i].value, NotBoard(coins, i), i,
                        coins[j].value, NotBoard(coins, j), j)
           /\ Precedes(coins, FALSE, i, j)
                <=> Lex(NotBoard(coins, i), coins[i].value, i,
                        NotBoard(coins, j), coins[j].value, j)
  BY DEF Precedes, Lex, NotBoard

\* Two different keys compare one way or the other ...
LEMMA LexIs ==
    ASSUME NEW a \in Int, NEW b \in Int, NEW c \in Int,
           NEW x \in Int, NEW y \in Int, NEW z \in Int
    PROVE  c = z \/ Lex(a, b, c, x, y, z) \/ Lex(x, y, z, a, b, c)
  BY DEF Lex

\* ... no key with itself ...
LEMMA LexNot ==
    ASSUME NEW a \in Int, NEW b \in Int, NEW c \in Int
    PROVE  ~Lex(a, b, c, a, b, c)
  BY DEF Lex

\* ... and the comparison is transitive.
LEMMA LexChain ==
    ASSUME NEW a \in Int, NEW b \in Int, NEW c \in Int,
           NEW x \in Int, NEW y \in Int, NEW z \in Int,
           NEW u \in Int, NEW v \in Int, NEW w \in Int,
           Lex(a, b, c, x, y, z), Lex(x, y, z, u, v, w)
    PROVE  Lex(a, b, c, u, v, w)
  BY DEF Lex

\* A pair is in the order when its first coin precedes its second.
LEMMA OrderPairs ==
    ASSUME NEW coins, NEW byValue, NEW i \in DOMAIN coins, NEW j \in DOMAIN coins
    PROVE  <<i, j>> \in Order(coins, byValue) <=> Precedes(coins, byValue, i, j)
  BY DEF Order

\* Either comparison orders the coins.
LEMMA OrderIs ==
    ASSUME NEW coins, Purse(coins), NEW byValue \in BOOLEAN
    PROVE  /\ Ordered(Order(coins, byValue), DOMAIN coins)
           /\ \A i, j \in DOMAIN coins :
                <<i, j>> \in Order(coins, byValue) <=> Precedes(coins, byValue, i, j)
  <1> DEFINE D == DOMAIN coins
             r == Order(coins, byValue)
             P(i, j) == Precedes(coins, byValue, i, j)
  <1>1. \A i, j \in D : <<i, j>> \in r <=> P(i, j)
    BY OrderPairs, Zenon
  <1>2. \A i \in D : i \in Int /\ coins[i].value \in Int /\ NotBoard(coins, i) \in Int
    BY DEF Purse, Valued, NotBoard
  <1>3. ASSUME NEW i \in D, NEW j \in D
        PROVE  ~P(i, i) /\ (i = j \/ P(i, j) \/ P(j, i))
    <2>1. CASE byValue = TRUE
      <3>1. ~Precedes(coins, TRUE, i, i)
        <4>1. ~Lex(coins[i].value, NotBoard(coins, i), i, coins[i].value, NotBoard(coins, i), i)
          BY <1>2, LexNot
        <4> QED BY <4>1, PrecedesIs
      <3>2. i = j \/ Precedes(coins, TRUE, i, j) \/ Precedes(coins, TRUE, j, i)
        BY <1>2, PrecedesIs, LexIs
      <3> QED BY <2>1, <3>1, <3>2
    <2>2. CASE byValue = FALSE
      <3>1. ~Precedes(coins, FALSE, i, i)
        <4>1. ~Lex(NotBoard(coins, i), coins[i].value, i, NotBoard(coins, i), coins[i].value, i)
          BY <1>2, LexNot
        <4> QED BY <4>1, PrecedesIs
      <3>2. i = j \/ Precedes(coins, FALSE, i, j) \/ Precedes(coins, FALSE, j, i)
        BY <1>2, PrecedesIs, LexIs
      <3> QED BY <2>2, <3>1, <3>2
    <2> QED BY <2>1, <2>2
  <1>4. ASSUME NEW i \in D, NEW j \in D, NEW k \in D, P(i, j), P(j, k)
        PROVE  P(i, k)
    <2>1. CASE byValue = TRUE
      <3>1. Precedes(coins, TRUE, i, j) /\ Precedes(coins, TRUE, j, k)
        BY <1>4, <2>1
      <3>2. Precedes(coins, TRUE, i, k)
        <4>1. Lex(coins[i].value, NotBoard(coins, i), i, coins[j].value, NotBoard(coins, j), j)
          BY <3>1, PrecedesIs
        <4>2. Lex(coins[j].value, NotBoard(coins, j), j, coins[k].value, NotBoard(coins, k), k)
          BY <3>1, PrecedesIs
        <4>3. Lex(coins[i].value, NotBoard(coins, i), i, coins[k].value, NotBoard(coins, k), k)
          BY <1>2, <4>1, <4>2, LexChain
        <4> QED BY <4>3, PrecedesIs
      <3> QED BY <2>1, <3>2
    <2>2. CASE byValue = FALSE
      <3>1. Precedes(coins, FALSE, i, j) /\ Precedes(coins, FALSE, j, k)
        BY <1>4, <2>2
      <3>2. Precedes(coins, FALSE, i, k)
        <4>1. Lex(NotBoard(coins, i), coins[i].value, i, NotBoard(coins, j), coins[j].value, j)
          BY <3>1, PrecedesIs
        <4>2. Lex(NotBoard(coins, j), coins[j].value, j, NotBoard(coins, k), coins[k].value, k)
          BY <3>1, PrecedesIs
        <4>3. Lex(NotBoard(coins, i), coins[i].value, i, NotBoard(coins, k), coins[k].value, k)
          BY <1>2, <4>1, <4>2, LexChain
        <4> QED BY <4>3, PrecedesIs
      <3> QED BY <2>2, <3>2
    <2> QED BY <2>1, <2>2
  <1> HIDE DEF P, r
  <1>5. Ordered(r, D)
    BY <1>1, <1>3, <1>4 DEF Ordered
  <1> QED BY <1>1, <1>5 DEF P, r

\* An order of a set orders its subsets.
LEMMA OrderWithin ==
    ASSUME NEW r, NEW P, Ordered(r, P), NEW Q \in SUBSET P
    PROVE  Ordered(r, Q)
  BY DEF Ordered

\* The target of a merge is below the count that starts one.
LEMMA TargetIs ==
    ASSUME NEW coins, NEW cap \in Nat \ {0}
    PROVE  /\ MergeTarget(coins, cap) \in Int
           /\ Full(coins, cap) => MergeTarget(coins, cap) < 2 * cap
           /\ ~Full(coins, cap) => MergeTarget(coins, cap) <= cap
  <1>1. cap \div 4 \in Int /\ (3 * cap) \div 4 \in Int /\ 4 * ((3 * cap) \div 4) <= 3 * cap
    <2>1. cap \in Int /\ 3 * cap \in Int /\ 4 \in Nat \ {0}
      OBVIOUS
    <2> QED BY <2>1, DivIs
  <1>2. Max({1, cap \div 4}) = Larger(1, cap \div 4)
    BY <1>1, MaxPair
  <1>3. Larger(1, cap \div 4) \in Int /\ Larger(1, cap \div 4) >= 1
    BY <1>1 DEF Larger
  <1>4. CASE Full(coins, cap)
    <2>1. MergeTarget(coins, cap) = 2 * cap - Larger(1, cap \div 4)
      BY <1>2, <1>4 DEF MergeTarget
    <2> QED BY <1>3, <1>4, <2>1
  <1>5. CASE ~Full(coins, cap)
    <2>1. MergeTarget(coins, cap) = (3 * cap) \div 4
      BY <1>5 DEF MergeTarget
    <2> QED BY <1>1, <1>5, <2>1
  <1> QED BY <1>4, <1>5

\* The coins up to one of them, by value.
PoolUpTo(coins, all, i) == {j \in all : j = i \/ Precedes(coins, TRUE, j, i)}

\* What may move, and of that what may go into one merge.
LEMMA PoolIs ==
    ASSUME NEW coins, NEW cap, NEW small, NEW most
    PROVE  LET all == Mergeable(coins, cap, small)
               pool == Pool(coins, cap, small, most)
           IN  /\ all \subseteq DOMAIN coins /\ pool \subseteq all
               /\ most = 0 => pool = all
               /\ most # 0 => pool = {i \in all : Worth(coins, PoolUpTo(coins, all, i)) <= most}
               /\ \A i \in all : coins[i].free /\ coins[i].kind # "transfer"
  <1> DEFINE all == Mergeable(coins, cap, small)
             pool == Pool(coins, cap, small, most)
  <1>1. all \subseteq DOMAIN coins /\ \A i \in all : coins[i].free /\ coins[i].kind # "transfer"
    BY DEF Mergeable
  <1> HIDE DEF all
  <1>2. CASE most = 0
    <2>1. pool = all
      BY <1>2 DEF Pool, all
    <2> HIDE DEF pool
    <2> QED BY <1>1, <1>2, <2>1 DEF pool, all
  <1>3. CASE most # 0
    <2>1. pool = {i \in all : Worth(coins, PoolUpTo(coins, all, i)) <= most}
      BY <1>3, Zenon DEF Pool, all, Worth, PoolUpTo
    <2> HIDE DEF pool
    <2> QED BY <1>1, <1>3, <2>1 DEF pool, all
  <1> QED BY <1>2, <1>3

\* The pool is finite, and ordered as the merge orders it.
LEMMA PoolOrdered ==
    ASSUME NEW coins, Purse(coins), NEW cap, NEW small, NEW most, NEW byValue \in BOOLEAN
    PROVE  LET all == Mergeable(coins, cap, small)
               pool == Pool(coins, cap, small, most)
               r == Order(coins, byValue)
           IN  /\ IsFiniteSet(all) /\ Valued(coins, all) /\ Ordered(r, all)
               /\ IsFiniteSet(pool) /\ Valued(coins, pool) /\ Ordered(r, pool)
               /\ Cardinality(pool) \in Nat
               /\ \A i, j \in all : <<i, j>> \in r <=> Precedes(coins, byValue, i, j)
  <1> DEFINE all == Mergeable(coins, cap, small)
             pool == Pool(coins, cap, small, most)
             r == Order(coins, byValue)
             D == DOMAIN coins
  <1>1. all \subseteq D /\ pool \subseteq all
    BY PoolIs
  <1>2. IsFiniteSet(D) /\ Valued(coins, D)
    BY DEF Purse
  <1>3. Ordered(r, D) /\ \A i, j \in D : <<i, j>> \in r <=> Precedes(coins, byValue, i, j)
    BY OrderIs
  <1> HIDE DEF all, pool, r, D
  <1>4. IsFiniteSet(all) /\ IsFiniteSet(pool)
    BY <1>1, <1>2, FS_Subset
  <1>5. Cardinality(pool) \in Nat
    BY <1>4, FS_CardinalityType
  <1>6. Valued(coins, all) /\ Valued(coins, pool)
    BY <1>1, <1>2 DEF Valued
  <1>7. Ordered(r, all) /\ Ordered(r, pool)
    BY <1>1, <1>3, OrderWithin
  <1>8. \A i, j \in all : <<i, j>> \in r <=> Precedes(coins, byValue, i, j)
    BY <1>1, <1>3, Zenon
  <1> QED BY <1>4, <1>5, <1>6, <1>7, <1>8, Zenon DEF all, pool, r

\* No part of the pool holds more than one merge may.
LEMMA AtMost ==
    ASSUME NEW coins, Purse(coins), NEW cap, NEW small, NEW most \in Nat \ {0},
           NEW S, S \subseteq Pool(coins, cap, small, most), S # {}
    PROVE  Worth(coins, S) <= most
  <1> DEFINE all == Mergeable(coins, cap, small)
             pool == Pool(coins, cap, small, most)
             r == Order(coins, TRUE)
             U(i) == PoolUpTo(coins, all, i)
  <1>1. /\ IsFiniteSet(all) /\ Valued(coins, all) /\ IsFiniteSet(pool) /\ Ordered(r, pool)
        /\ \A i, j \in all : <<i, j>> \in r <=> Precedes(coins, TRUE, i, j)
    BY PoolOrdered
  <1>2. pool \subseteq all /\ pool = {i \in all : Worth(coins, U(i)) <= most}
    BY PoolIs
  <1>3. S \subseteq pool
    OBVIOUS
  <1> HIDE DEF all, pool, r
  <1>4. PICK g \in S : \A i \in S : i = g \/ <<i, g>> \in r
    <2>1. IsFiniteSet(S)
      BY <1>1, <1>3, FS_Subset
    <2>2. Ordered(r, S)
      BY <1>1, <1>3, OrderWithin
    <2> QED BY <2>1, <2>2, GreatestIn
  <1>5. S \subseteq U(g) /\ U(g) \subseteq all
    <2>1. \A i \in S : i = g \/ Precedes(coins, TRUE, i, g)
      BY <1>1, <1>2, <1>3, <1>4
    <2> QED BY <1>2, <1>3, <2>1 DEF PoolUpTo
  <1>6. Worth(coins, U(g)) <= most
    BY <1>2, <1>3, <1>4
  <1> HIDE DEF U
  <1>7. IsFiniteSet(U(g)) /\ Valued(coins, U(g))
    <2>1. IsFiniteSet(U(g))
      BY <1>1, <1>5, FS_Subset
    <2> QED BY <1>1, <1>5, <2>1 DEF Valued
  <1>8. /\ Worth(coins, S) \in Nat /\ Worth(coins, U(g)) \in Nat
        /\ Worth(coins, S) <= Worth(coins, U(g))
    BY <1>5, <1>7, WorthGrows
  <1> QED BY <1>6, <1>8

\* With the whole pool taken, no other coin that may move fits.
LEMMA NoMore ==
    ASSUME NEW coins, Purse(coins), NEW cap, NEW small, NEW most \in Nat,
           NEW i \in Mergeable(coins, cap, small) \ Pool(coins, cap, small, most)
    PROVE  /\ most # 0
           /\ Worth(coins, Pool(coins, cap, small, most) \union {i}) > most
  <1> DEFINE all == Mergeable(coins, cap, small)
             pool == Pool(coins, cap, small, most)
             r == Order(coins, TRUE)
             U(j) == PoolUpTo(coins, all, j)
             out == all \ pool
  <1>1. /\ IsFiniteSet(all) /\ Valued(coins, all) /\ Ordered(r, all)
        /\ \A j, k \in all : <<j, k>> \in r <=> Precedes(coins, TRUE, j, k)
    BY PoolOrdered
  <1>2. most # 0
    <2>1. most = 0 => pool = all
      BY PoolIs
    <2> QED BY <2>1
  <1>3. pool \subseteq all /\ pool = {j \in all : Worth(coins, U(j)) <= most}
    BY <1>2, PoolIs
  <1>4. i \in all /\ i \notin pool
    OBVIOUS
  <1> HIDE DEF all, pool, r
  <1>5. IsFiniteSet(out) /\ Ordered(r, out) /\ out # {}
    <2>1. out \subseteq all /\ out # {}
      BY <1>4
    <2> HIDE DEF out
    <2>2. IsFiniteSet(out)
      BY <1>1, <2>1, FS_Subset
    <2>3. Ordered(r, out)
      BY <1>1, <2>1, OrderWithin
    <2> QED BY <2>1, <2>2, <2>3
  <1>6. PICK k \in out : \A j \in out : <<j, k>> \notin r
    <2> HIDE DEF out
    <2>1. 1 \in 0 .. Cardinality(out)
      <3>1. Cardinality(out) \in Nat /\ Cardinality(out) # 0
        BY <1>5, FS_CardinalityType, FS_EmptySet
      <3> QED BY <3>1
    <2>2. Cardinality(Lowest(r, out, 1)) = 1
      BY <1>5, <2>1, LowestIs
    <2>3. Lowest(r, out, 1) # {}
      BY <2>2, FS_EmptySet
    <2>4. PICK k \in out : Cardinality(Behind(r, out, k)) < 1
      BY <2>3 DEF Lowest
    <2>5. IsFiniteSet(Behind(r, out, k))
      <3>1. Behind(r, out, k) \subseteq out
        BY DEF Behind
      <3> QED BY <1>5, <3>1, FS_Subset
    <2>6. Behind(r, out, k) = {}
      <3>1. Cardinality(Behind(r, out, k)) \in Nat
        BY <2>5, FS_CardinalityType
      <3>2. Cardinality(Behind(r, out, k)) = 0
        BY <2>4, <3>1
      <3> QED BY <2>5, <3>2, FS_EmptySet
    <2> QED BY <2>6 DEF Behind
  <1>7. k \in all /\ k \notin pool /\ i \in out
    BY <1>4
  <1> DEFINE V(j) == coins[j].value
             P == pool \union {k}
             Q == pool \union {i}
  <1>8. IsFiniteSet(P) /\ Valued(coins, P) /\ IsFiniteSet(Q) /\ Valued(coins, Q)
    <2>1. P \subseteq all /\ Q \subseteq all
      BY <1>3, <1>4, <1>7
    <2> HIDE DEF P, Q
    <2>2. IsFiniteSet(P) /\ IsFiniteSet(Q)
      BY <1>1, <2>1, FS_Subset
    <2> QED BY <1>1, <2>1, <2>2 DEF Valued
  <1>9. U(k) \subseteq P
    <2>1. ASSUME NEW j \in U(k) PROVE j \in P
      <3>1. j \in all /\ (j = k \/ Precedes(coins, TRUE, j, k))
        BY <2>1 DEF PoolUpTo
      <3>2. j = k \/ <<j, k>> \in r
        BY <1>1, <1>7, <3>1
      <3> QED BY <1>6, <3>1, <3>2
    <2> QED BY <2>1
  <1>10. ~(Worth(coins, U(k)) <= most)
    BY <1>3, <1>7
  <1>11. /\ Worth(coins, U(k)) \in Nat /\ Worth(coins, P) \in Nat
         /\ Worth(coins, U(k)) <= Worth(coins, P)
    <2> HIDE DEF P, U
    <2> QED BY <1>8, <1>9, WorthGrows
  <1>12. V(k) <= V(i) /\ V(k) \in Nat /\ V(i) \in Nat
    <2>1. V(k) \in Nat /\ V(i) \in Nat
      BY <1>1, <1>4, <1>7 DEF Valued
    <2>2. i = k \/ <<k, i>> \in r
      BY <1>1, <1>4, <1>6, <1>7 DEF Ordered
    <2>3. i = k \/ Precedes(coins, TRUE, k, i)
      BY <1>1, <1>4, <1>7, <2>2
    <2>4. i = k \/ Lex(coins[k].value, NotBoard(coins, k), k,
                       coins[i].value, NotBoard(coins, i), i)
      BY <2>3, PrecedesIs
    <2>5. V(k) <= V(i)
      BY <2>1, <2>4 DEF Lex
    <2> QED BY <2>1, <2>5
  <1>13. /\ Worth(coins, P) = V(k) + Worth(coins, pool) /\ Worth(coins, pool) \in Int
         /\ Worth(coins, Q) = V(i) + Worth(coins, pool)
    <2>1. P \ {k} = pool /\ Q \ {i} = pool /\ k \in P /\ i \in Q
      BY <1>4, <1>7
    <2> HIDE DEF P, Q
    <2>2. Worth(coins, P) = coins[k].value + Worth(coins, P \ {k}) /\ Worth(coins, P \ {k}) \in Int
      BY <1>8, <2>1, WorthOut
    <2>3. Worth(coins, Q) = coins[i].value + Worth(coins, Q \ {i})
      BY <1>8, <2>1, WorthOut
    <2> QED BY <2>1, <2>2, <2>3
  <1> HIDE DEF V, P
  <1>14. Worth(coins, Q) > most
    <2> HIDE DEF Q, U
    <2> QED BY <1>10, <1>11, <1>12, <1>13
  <1> QED BY <1>2, <1>14 DEF Q, pool

\* How a merge is made.
Taking(coins, cap, small, most, S, n) ==
    LET live == Cardinality(DOMAIN coins)
        room == live - MergeTarget(coins, cap) + 1
        pool == Pool(coins, cap, small, most)
    IN  /\ n \in Nat /\ n >= 2 /\ live \in Nat /\ live > cap
        /\ n <= MergePerPass /\ n <= room /\ n <= Cardinality(pool)
        /\ n = MergePerPass \/ n = room \/ n = Cardinality(pool)
        /\ S \subseteq pool /\ Cardinality(S) = n

\* A merge that is made takes a number of coins out of the pool, the least of three.
LEMMA MergeIs ==
    ASSUME NEW coins, Purse(coins), NEW cap \in Nat \ {0}, NEW small, NEW most \in Nat,
           CoinsToMerge(coins, cap, small, most) # {}
    PROVE  \E n : Taking(coins, cap, small, most, CoinsToMerge(coins, cap, small, most), n)
  <1> DEFINE live == Cardinality(DOMAIN coins)
             room == live - MergeTarget(coins, cap) + 1
             pool == Pool(coins, cap, small, most)
             n == Min({MergePerPass, room, Cardinality(pool)})
             by == most # 0
             r == Order(coins, by)
             S == CoinsToMerge(coins, cap, small, most)
  <1>0. MergePerPass \in Nat
    BY QuotesAssumption
  <1>1. S = IF live <= cap \/ n < 2 THEN {}
            ELSE {i \in pool : Cardinality({j \in pool : Precedes(coins, by, j, i)}) < n}
    BY Zenon DEF CoinsToMerge
  <1>2. ~(live <= cap) /\ ~(n < 2)
    BY <1>1
  <1>3. live \in Nat
    BY FS_CardinalityType DEF Purse
  <1>4. by \in BOOLEAN
    OBVIOUS
  <1> HIDE DEF by, n, S
  <1>5. /\ IsFiniteSet(pool) /\ Ordered(r, pool) /\ Cardinality(pool) \in Nat
        /\ \A i, j \in pool : <<i, j>> \in r <=> Precedes(coins, by, i, j)
    <2>1. pool \subseteq Mergeable(coins, cap, small)
      BY PoolIs
    <2>2. \A i, j \in Mergeable(coins, cap, small) :
              <<i, j>> \in r <=> Precedes(coins, by, i, j)
      BY <1>4, PoolOrdered
    <2>3. IsFiniteSet(pool) /\ Ordered(r, pool) /\ Cardinality(pool) \in Nat
      BY <1>4, PoolOrdered
    <2> HIDE DEF pool, r
    <2>4. \A i, j \in pool : <<i, j>> \in r <=> Precedes(coins, by, i, j)
      BY <2>1, <2>2, Zenon
    <2> QED BY <2>3, <2>4, Zenon
  <1>6. room \in Nat
    <2>1. /\ MergeTarget(coins, cap) \in Int
          /\ Full(coins, cap) => MergeTarget(coins, cap) < 2 * cap
          /\ ~Full(coins, cap) => MergeTarget(coins, cap) <= cap
      BY TargetIs
    <2>2. Full(coins, cap) => live >= 2 * cap
      BY DEF Full
    <2> HIDE DEF live
    <2> QED BY <1>2, <1>3, <2>1, <2>2
  <1> HIDE DEF live, room, pool, r
  <1>7. /\ n \in {MergePerPass, room, Cardinality(pool)}
        /\ \A y \in {MergePerPass, room, Cardinality(pool)} : n <= y
    <2> DEFINE T == {MergePerPass, room, Cardinality(pool)}
    <2>1. T \subseteq Nat /\ T # {}
      BY <1>0, <1>5, <1>6
    <2> HIDE DEF T
    <2>2. Min(T) \in T /\ \A y \in T : Min(T) <= y
      BY <2>1, MinOf
    <2> QED BY <2>2 DEF T, n
  <1>8. n \in Nat
    BY <1>0, <1>5, <1>6, <1>7
  <1>9. S = Lowest(r, pool, n)
    <2>1. S = {i \in pool : Cardinality({j \in pool : Precedes(coins, by, j, i)}) < n}
      BY <1>1, <1>2, Zenon
    <2>2. \A i \in pool : {j \in pool : Precedes(coins, by, j, i)} = Behind(r, pool, i)
      <3> TAKE i \in pool
      <3>1. \A j \in pool : Precedes(coins, by, j, i) <=> <<j, i>> \in r
        BY <1>5, Zenon
      <3> QED BY <3>1, Zenon DEF Behind
    <2> QED BY <2>1, <2>2 DEF Lowest
  <1>10. S \subseteq pool /\ Cardinality(S) = n
    <2>1. n \in 0 .. Cardinality(pool)
      BY <1>5, <1>7, <1>8
    <2>2. Cardinality(Lowest(r, pool, n)) = n
      BY <1>5, <2>1, LowestIs
    <2> QED BY <1>9, <2>2 DEF Lowest
  <1>11. n >= 2 /\ live > cap
    BY <1>2, <1>3, <1>8
  <1>12. Taking(coins, cap, small, most, S, n)
    BY <1>3, <1>7, <1>8, <1>10, <1>11 DEF Taking, live, room, pool
  <1> QED BY <1>12, Zenon DEF S

\* What one pass of merging keeps to: what may move, the bounds of one merge, the
\* target, and no coin left out that would fit.
Movable(coins, S) == \A i \in S : coins[i].free /\ coins[i].kind # "transfer"
NoneFits(coins, all, S, most) ==
    \A i \in all \ S : most # 0 /\ Worth(coins, S \union {i}) > most
MergeKept(coins, live, cap, small, most, S) ==
    LET left == live - Cardinality(S) + 1
    IN  /\ S # {} =>
            /\ live > cap /\ Cardinality(S) \in 2 .. MergePerPass
            /\ Movable(coins, S)
            /\ most # 0 => Worth(coins, S) <= most
            /\ left >= MergeTarget(coins, cap)
        /\ S # {} /\ left > MergeTarget(coins, cap) =>
            \/ Cardinality(S) = MergePerPass
            \/ NoneFits(coins, Mergeable(coins, cap, small), S, most)

\* Whatever the coins, the cap and the bound, coinsToMerge keeps to it.
THEOREM MergeIsSound ==
    ASSUME NEW coins, Purse(coins), NEW cap \in Nat \ {0}, NEW small, NEW most \in Nat
    PROVE  MergeKept(coins, Cardinality(DOMAIN coins), cap, small, most,
                     CoinsToMerge(coins, cap, small, most))
  <1> DEFINE live == Cardinality(DOMAIN coins)
             target == MergeTarget(coins, cap)
             all == Mergeable(coins, cap, small)
             pool == Pool(coins, cap, small, most)
             S == CoinsToMerge(coins, cap, small, most)
             left == live - Cardinality(S) + 1
  <1> SUFFICES MergeKept(coins, live, cap, small, most, S)
    OBVIOUS
  <1>1. CASE S = {}
    <2> HIDE DEF S
    <2> QED BY <1>1 DEF MergeKept
  <1>2. CASE S # {}
    <2>1. PICK n : Taking(coins, cap, small, most, S, n)
      BY <1>2, MergeIs
    <2>2. /\ n \in Nat /\ n >= 2 /\ live \in Nat /\ live > cap
          /\ n <= MergePerPass /\ n <= live - target + 1 /\ n <= Cardinality(pool)
          /\ n = MergePerPass \/ n = live - target + 1 \/ n = Cardinality(pool)
          /\ S \subseteq pool /\ Cardinality(S) = n
      BY <2>1 DEF Taking
    <2>3. target \in Int /\ MergePerPass \in Nat
      BY TargetIs, QuotesAssumption
    <2>4. Movable(coins, S)
      <3>1. pool \subseteq all /\ \A i \in all : coins[i].free /\ coins[i].kind # "transfer"
        BY PoolIs
      <3> HIDE DEF S, pool, all
      <3> QED BY <2>2, <3>1, Zenon DEF Movable
    <2>5. most # 0 => Worth(coins, S) <= most
      <3> HIDE DEF S
      <3> QED BY <1>2, <2>2, AtMost
    <2>6. IsFiniteSet(pool)
      BY PoolOrdered
    <2>7. ASSUME left > target, Cardinality(S) # MergePerPass,
                 NEW i \in all \ S
          PROVE  most # 0 /\ Worth(coins, S \union {i}) > most
      <3>1. n = Cardinality(pool)
        <4> HIDE DEF S, pool, live, target
        <4> QED BY <2>2, <2>3, <2>7
      <3>2. S = pool
        <4> HIDE DEF S, pool, live, target
        <4> QED BY <2>2, <2>6, <3>1, FS_Subset
      <3> HIDE DEF S
      <3> QED BY <2>7, <3>2, NoMore
    <2>8. left >= target /\ Cardinality(S) \in 2 .. MergePerPass
      <3> HIDE DEF S, live, target, pool
      <3> QED BY <2>2, <2>3
    <2> HIDE DEF S, live, target, all
    <2>9. left > target => Cardinality(S) = MergePerPass \/ NoneFits(coins, all, S, most)
      BY <2>7, Zenon DEF NoneFits
    <2> QED BY <2>2, <2>4, <2>5, <2>8, <2>9 DEF MergeKept, target, all
  <1> QED BY <1>1, <1>2

\* The questions whose answers the theorems above are about.
BuyAsked ==
    /\ ask.kind = "buy" /\ ask.o \in SignedOffers /\ ask.asked \in Nat
    /\ ask.t \in MakerTerms /\ ask.rate \in Nat
SellAsked ==
    ask.kind = "sell" /\ ask.o \in SignedOffers /\ ask.asked \in Nat /\ ask.rate \in Nat
SizeAsked == ask.kind = "size" /\ ask.e \in Entries /\ ask.pay \in Nat
HoldAsked ==
    /\ ask.kind = "hold" /\ ask.h \in Holds
    /\ ask.slow \in Nat \ {0} /\ ask.fast \in Nat \ {0}
RefundAsked ==
    ask.kind = "refund" /\ ask.f \in Refunds /\ ask.estimates \in [1 .. 3 -> Nat]
FeedAsked == ask.kind = "feed" /\ ask.readings \in [1 .. 5 -> Readings]
QuotesAsked == ask.kind = "quotes" /\ ask.h \in Holdings /\ ask.room \in Nat
MergeAsked ==
    /\ ask.kind = "merge" /\ Purse(ask.coins) /\ DOMAIN ask.coins = 1 .. Coins
    /\ ask.cap \in Nat \ {0} /\ ask.most \in Nat
TermsAsked ==
    \/ BuyAsked \/ SellAsked \/ SizeAsked \/ HoldAsked
    \/ RefundAsked \/ FeedAsked \/ QuotesAsked \/ MergeAsked

\* Every question of PriceTerms is one of these.
LEMMA AskedTerms ==
    ASSUME Question
    PROVE  TermsAsked
  <1>0. /\ MaxAmount \in Nat /\ Offers \subseteq Nat \ {0} /\ Prices \subseteq Nat \ {0}
        /\ FeeRates \subseteq Nat /\ Readings \subseteq Nat
    BY PricesAssumption
  <1>1. ASSUME AskBuy PROVE BuyAsked
    <2>1. PICK o \in [seq : Offers, btc : Prices], asked \in 0 .. MaxAmount,
               rate \in FeeRates, whole \in BOOLEAN, d \in {-1, 0, 1}, over \in {0, 1} :
             LET slice == IF asked > 0 /\ asked < o.seq THEN asked ELSE o.seq
                 part  == IF whole THEN o.seq ELSE slice
                 btc   == CeilDiv(o.btc * part, o.seq) + d
             IN  ask = [kind |-> "buy", o |-> o, asked |-> asked, rate |-> rate,
                        t |-> [seq |-> part, btc |-> btc,
                               fee |-> btc \div FeeShare + FeeBase + over]]
      BY <1>1 DEF AskBuy
    <2> DEFINE slice == IF asked > 0 /\ asked < o.seq THEN asked ELSE o.seq
               part  == IF whole THEN o.seq ELSE slice
               paid  == o.btc * part
               btc   == CeilDiv(paid, o.seq) + d
               fee   == btc \div FeeShare + FeeBase + over
    <2>2. /\ o.seq \in Nat \ {0} /\ o.btc \in Nat \ {0} /\ asked \in Nat /\ rate \in Nat
          /\ d \in Int /\ over \in Int /\ FeeShare \in Nat \ {0} /\ FeeBase \in Nat
      <3>1. FeeShare \in Nat \ {0} /\ FeeBase \in Nat
        BY TakeAssumption
      <3>2. o.seq \in Nat \ {0} /\ o.btc \in Nat \ {0}
        BY <1>0
      <3>3. asked \in Nat /\ rate \in Nat /\ d \in Int /\ over \in Int
        BY <1>0
      <3> QED BY <3>1, <3>2, <3>3
    <2>3. part \in Nat
      BY <2>2
    <2>4. ask = [kind |-> "buy", o |-> o, asked |-> asked, rate |-> rate,
                 t |-> [seq |-> part, btc |-> btc, fee |-> fee]]
      BY <2>1
    <2> HIDE DEF part
    <2>5. paid \in Nat
      BY <2>2, <2>3
    <2> HIDE DEF paid
    <2>6. btc \in Int
      <3>1. CeilDiv(paid, o.seq) \in Nat
        BY <2>2, <2>5, CeilDivIs
      <3> QED BY <2>2, <3>1
    <2> HIDE DEF btc
    <2>7. fee \in Int
      <3>1. btc \div FeeShare \in Int
        BY <2>2, <2>6, DivIs
      <3> QED BY <2>2, <3>1
    <2> HIDE DEF fee
    <2>8. o \in SignedOffers
      BY <1>0 DEF SignedOffers
    <2>9. [seq |-> part, btc |-> btc, fee |-> fee] \in MakerTerms
      BY <2>3, <2>6, <2>7 DEF MakerTerms
    <2> QED BY <2>2, <2>4, <2>8, <2>9 DEF BuyAsked
  <1>2. ASSUME AskSell PROVE SellAsked
    <2>1. PICK o \in [seq : Offers, btc : Prices], asked \in 0 .. MaxAmount + 1,
               rate \in FeeRates :
             ask = [kind |-> "sell", o |-> o, asked |-> asked, rate |-> rate]
      BY <1>2 DEF AskSell
    <2>2. o \in SignedOffers
      BY <1>0 DEF SignedOffers
    <2>3. asked \in Nat /\ rate \in Nat
      BY <1>0
    <2> QED BY <2>1, <2>2, <2>3 DEF SellAsked
  <1>3. ASSUME AskSize PROVE SizeAsked
    <2>1. PICK num \in 1 .. 4, den \in 1 .. 3, max \in 1 .. MaxAmount,
               min \in 1 .. 3, lot \in {0, 1, 3}, pay \in 0 .. 2 * MaxAmount :
             ask = [kind |-> "size", pay |-> pay,
                    e |-> [num |-> num, den |-> den, max |-> max,
                           min |-> min, lot |-> lot]]
      BY <1>3 DEF AskSize
    <2>2. /\ num \in Nat \ {0} /\ den \in Nat \ {0} /\ max \in Nat \ {0}
          /\ min \in Nat \ {0} /\ lot \in Nat /\ pay \in Nat
      BY <1>0
    <2> QED BY <2>1, <2>2 DEF SizeAsked, Entries
  <1>4. ASSUME AskHold PROVE HoldAsked
    <2>1. PICK h \in [cltv : 0 .. MaxAmount, tip : {5}, lock : 0 .. 20, margin : {2}],
               slow \in {1, 3, 5}, fast \in {1, 2} :
             ask = [kind |-> "hold", h |-> h, slow |-> slow, fast |-> fast]
      BY <1>4 DEF AskHold
    <2>2. h \in Holds /\ slow \in Nat \ {0} /\ fast \in Nat \ {0}
      BY <1>0 DEF Holds
    <2> QED BY <2>1, <2>2 DEF HoldAsked
  <1>5. ASSUME AskRefund PROVE RefundAsked
    <2>1. PICK f \in [amount : 1 .. 2 * MaxAmount, floor : {1, 4}, ceil : {10, 40}],
               estimates \in [1 .. 3 -> {0, 3, 9, 25}] :
             ask = [kind |-> "refund", f |-> f, estimates |-> estimates]
      BY <1>5 DEF AskRefund
    <2>2. f \in Refunds
      BY <1>0 DEF Refunds
    <2>3. estimates \in [1 .. 3 -> Nat]
      OBVIOUS
    <2> QED BY <2>1, <2>2, <2>3 DEF RefundAsked
  <1>6. ASSUME AskFeed PROVE FeedAsked
    <2>1. PICK readings \in [1 .. 5 -> Readings] :
             ask = [kind |-> "feed", readings |-> readings]
      BY <1>6 DEF AskFeed
    <2> QED BY <2>1 DEF FeedAsked
  <1>7. ASSUME AskQuotes PROVE QuotesAsked
    <2>1. PICK h \in [num : {1, 3}, den : {2}, have : 0 .. MaxAmount, min : {1, 3},
                      levels : 1 .. 3, step : {0, 1, 3}, growth : {1, 2}, first : {0, 2}],
               room \in {0, 1, 2, 5, 100} :
             ask = [kind |-> "quotes", h |-> h, room |-> room]
      BY <1>7 DEF AskQuotes
    <2>2. h \in Holdings
      BY <1>0 DEF Holdings
    <2>3. room \in Nat
      OBVIOUS
    <2> QED BY <2>1, <2>2, <2>3 DEF QuotesAsked
  <1>8. ASSUME AskMerge PROVE MergeAsked
    <2>1. PICK coins \in [1 .. Coins -> CoinKinds], cap \in {2, 3}, most \in {0, 4} :
             ask = [kind |-> "merge", coins |-> coins, cap |-> cap, small |-> 1,
                    most |-> most]
      BY <1>8 DEF AskMerge
    <2>2. Coins \in Nat
      BY PricesAssumption
    <2>3. IsFiniteSet(1 .. Coins)
      BY <2>2, FS_Interval
    <2>4. \A c \in CoinKinds : c.value \in Nat
      BY DEF CoinKinds, Coin
    <2>5. Purse(coins)
      <3> HIDE DEF CoinKinds
      <3>1. DOMAIN coins = 1 .. Coins /\ \A i \in 1 .. Coins : coins[i] \in CoinKinds
        OBVIOUS
      <3> QED BY <2>2, <2>3, <2>4, <3>1 DEF Purse, Valued
    <2> QED BY <2>1, <2>5 DEF MergeAsked
  <1> QED BY <1>1, <1>2, <1>3, <1>4, <1>5, <1>6, <1>7, <1>8 DEF Question, TermsAsked

\* A given answer is the operator's own.
IsBuy == ask.kind = "buy" => answer = ForwardTake(ask.o, ask.asked, ask.t, ask.rate)
IsSell == ask.kind = "sell" => answer = ReverseTake(ask.o, ask.asked, ask.rate)
IsSize == ask.kind = "size" => answer = SizeEntry(ask.e, ask.pay)
IsHold ==
    ask.kind = "hold" => answer = [ok |-> HoldCltvSafe(ask.h, ask.slow, ask.fast),
                                   cap |-> MaxSafeCltv(ask.h, ask.slow, ask.fast)]
IsRefund == ask.kind = "refund" => answer = Fees(ask.f, ask.estimates)
IsFeed == ask.kind = "feed" => answer = Quoted(ask.readings, 5)
IsQuotes ==
    ask.kind = "quotes" => answer = CapQuotes(LadderQuotes(ask.h), ask.room)
IsMerge ==
    ask.kind = "merge" =>
        answer = CoinsToMerge(ask.coins, ask.cap, ask.small, ask.most)
TermsInv ==
    /\ TermsAsked /\ reply.given \in BOOLEAN
    /\ reply.given => /\ IsBuy /\ IsSell /\ IsSize /\ IsHold
                      /\ IsRefund /\ IsFeed /\ IsQuotes /\ IsMerge

\* An answer is given once, by the operator of its kind.
LEMMA TermsStep ==
    ASSUME TermsInv, [PriceNext]_priceVars
    PROVE  TermsInv'
  <1>1. ASSUME NEW k, NEW a, Answers(k, a)
        PROVE  /\ ask' = ask /\ TermsAsked' /\ ask.kind = k
               /\ reply'.given = TRUE /\ answer' = a
    <2>1. ask' = ask /\ ask.kind = k /\ reply' = [given |-> TRUE, is |-> a]
      BY <1>1 DEF Answers
    <2>2. TermsAsked'
      BY <2>1 DEF TermsInv, TermsAsked, BuyAsked, SellAsked, SizeAsked, HoldAsked,
                  RefundAsked, FeedAsked, QuotesAsked, MergeAsked
    <2> QED BY <2>1, <2>2 DEF answer
  <1>2. CASE AnswerBuy
    <2>1. /\ ask' = ask /\ TermsAsked' /\ ask.kind = "buy" /\ reply'.given = TRUE
          /\ answer' = ForwardTake(ask.o, ask.asked, ask.t, ask.rate)
      BY <1>1, <1>2 DEF AnswerBuy
    <2> QED BY <2>1 DEF TermsInv, IsBuy, IsSell, IsSize, IsHold, IsRefund, IsFeed,
                          IsQuotes, IsMerge
  <1>3. CASE AnswerSell
    <2>1. /\ ask' = ask /\ TermsAsked' /\ ask.kind = "sell" /\ reply'.given = TRUE
          /\ answer' = ReverseTake(ask.o, ask.asked, ask.rate)
      BY <1>1, <1>3 DEF AnswerSell
    <2> QED BY <2>1 DEF TermsInv, IsBuy, IsSell, IsSize, IsHold, IsRefund, IsFeed,
                          IsQuotes, IsMerge
  <1>4. CASE AnswerSize
    <2>1. /\ ask' = ask /\ TermsAsked' /\ ask.kind = "size" /\ reply'.given = TRUE
          /\ answer' = SizeEntry(ask.e, ask.pay)
      BY <1>1, <1>4 DEF AnswerSize
    <2> QED BY <2>1 DEF TermsInv, IsBuy, IsSell, IsSize, IsHold, IsRefund, IsFeed,
                          IsQuotes, IsMerge
  <1>5. CASE AnswerHold
    <2>1. /\ ask' = ask /\ TermsAsked' /\ ask.kind = "hold" /\ reply'.given = TRUE
          /\ answer' = [ok |-> HoldCltvSafe(ask.h, ask.slow, ask.fast),
                        cap |-> MaxSafeCltv(ask.h, ask.slow, ask.fast)]
      BY <1>1, <1>5 DEF AnswerHold
    <2> QED BY <2>1 DEF TermsInv, IsBuy, IsSell, IsSize, IsHold, IsRefund, IsFeed,
                          IsQuotes, IsMerge
  <1>6. CASE AnswerRefund
    <2>1. /\ ask' = ask /\ TermsAsked' /\ ask.kind = "refund" /\ reply'.given = TRUE
          /\ answer' = Fees(ask.f, ask.estimates)
      BY <1>1, <1>6 DEF AnswerRefund, Fees
    <2> QED BY <2>1 DEF TermsInv, IsBuy, IsSell, IsSize, IsHold, IsRefund, IsFeed,
                          IsQuotes, IsMerge
  <1>7. CASE AnswerFeed
    <2>1. /\ ask' = ask /\ TermsAsked' /\ ask.kind = "feed" /\ reply'.given = TRUE
          /\ answer' = Quoted(ask.readings, 5)
      BY <1>1, <1>7 DEF AnswerFeed
    <2> QED BY <2>1 DEF TermsInv, IsBuy, IsSell, IsSize, IsHold, IsRefund, IsFeed,
                          IsQuotes, IsMerge
  <1>8. CASE AnswerQuotes
    <2>1. /\ ask' = ask /\ TermsAsked' /\ ask.kind = "quotes" /\ reply'.given = TRUE
          /\ answer' = CapQuotes(LadderQuotes(ask.h), ask.room)
      BY <1>1, <1>8 DEF AnswerQuotes
    <2> QED BY <2>1 DEF TermsInv, IsBuy, IsSell, IsSize, IsHold, IsRefund, IsFeed,
                          IsQuotes, IsMerge
  <1>9. CASE AnswerMerge
    <2>1. /\ ask' = ask /\ TermsAsked' /\ ask.kind = "merge" /\ reply'.given = TRUE
          /\ answer' = CoinsToMerge(ask.coins, ask.cap, ask.small, ask.most)
      BY <1>1, <1>9 DEF AnswerMerge
    <2> QED BY <2>1 DEF TermsInv, IsBuy, IsSell, IsSize, IsHold, IsRefund, IsFeed,
                          IsQuotes, IsMerge
  <1>10. CASE UNCHANGED priceVars
    <2>1. ask' = ask /\ reply' = reply
      BY <1>10 DEF priceVars
    <2> QED BY <2>1 DEF TermsInv, TermsAsked, BuyAsked, SellAsked, SizeAsked, HoldAsked,
                 RefundAsked, FeedAsked, QuotesAsked, MergeAsked, IsBuy, IsSell, IsSize, IsHold,
                 IsRefund, IsFeed, IsQuotes, IsMerge, answer
  <1> QED BY <1>2, <1>3, <1>4, <1>5, <1>6, <1>7, <1>8, <1>9, <1>10 DEF PriceNext

\* What the theorems about takes say of the answer given.
LEMMA TermsAreSound ==
    ASSUME TermsInv
    PROVE  TakesAreSound
  <1>1. ASSUME reply.given, ask.kind = "buy"
        PROVE  /\ answer \in [ok : BOOLEAN, asset : Nat, btc : Nat]
               /\ answer.ok =>
                    /\ answer.asset > 0 /\ answer.asset <= ask.o.seq
                    /\ answer.btc * ask.o.seq >= ask.o.btc * answer.asset
                    /\ (answer.btc - 1) * ask.o.seq < ask.o.btc * answer.asset
                    /\ answer.asset < ask.o.seq => Spendable(answer, ask.rate)
    <2>1. BuyAsked /\ answer = ForwardTake(ask.o, ask.asked, ask.t, ask.rate)
      BY <1>1 DEF TermsInv, TermsAsked, IsBuy, SellAsked, SizeAsked, HoldAsked,
                  RefundAsked, FeedAsked, QuotesAsked, MergeAsked
    <2>2. /\ ask.o \in SignedOffers /\ ask.asked \in Nat
          /\ ask.t \in MakerTerms /\ ask.rate \in Nat
      BY <2>1 DEF BuyAsked
    <2>3. ask.o.seq \in Nat
      BY <2>2 DEF SignedOffers
    <2> HIDE DEF answer
    <2>4. /\ answer \in [ok : BOOLEAN, asset : Nat, btc : Nat]
          /\ answer.ok => /\ answer.asset \in 1 .. ask.o.seq
                          /\ answer.btc * ask.o.seq >= ask.o.btc * answer.asset
                          /\ (answer.btc - 1) * ask.o.seq < ask.o.btc * answer.asset
                          /\ answer.asset < ask.o.seq => Spendable(answer, ask.rate)
      BY <2>1, <2>2, BuyIsSound
    <2>5. answer.ok => answer.asset > 0 /\ answer.asset <= ask.o.seq
      BY <2>3, <2>4
    <2> QED BY <2>4, <2>5
  <1>2. ASSUME reply.given, ask.kind = "sell"
        PROVE  /\ answer \in [ok : BOOLEAN, asset : Nat, btc : Nat]
               /\ answer.ok =>
                    /\ answer.asset > 0 /\ answer.asset <= ask.o.seq
                    /\ answer.btc * ask.o.seq <= ask.o.btc * answer.asset
                    /\ (answer.btc + 1) * ask.o.seq > ask.o.btc * answer.asset
                    /\ answer.asset < ask.o.seq => Spendable(answer, ask.rate)
    <2>1. SellAsked /\ answer = ReverseTake(ask.o, ask.asked, ask.rate)
      BY <1>2 DEF TermsInv, TermsAsked, IsSell, BuyAsked, SizeAsked, HoldAsked,
                  RefundAsked, FeedAsked, QuotesAsked, MergeAsked
    <2>2. ask.o \in SignedOffers /\ ask.asked \in Nat /\ ask.rate \in Nat
      BY <2>1 DEF SellAsked
    <2>3. ask.o.seq \in Nat
      BY <2>2 DEF SignedOffers
    <2> HIDE DEF answer
    <2>4. /\ answer \in [ok : BOOLEAN, asset : Nat, btc : Nat]
          /\ answer.ok => /\ answer.asset \in 1 .. ask.o.seq
                          /\ answer.btc * ask.o.seq <= ask.o.btc * answer.asset
                          /\ (answer.btc + 1) * ask.o.seq > ask.o.btc * answer.asset
                          /\ answer.asset < ask.o.seq => Spendable(answer, ask.rate)
      BY <2>1, <2>2, SellIsSound
    <2>5. answer.ok => answer.asset > 0 /\ answer.asset <= ask.o.seq
      BY <2>3, <2>4
    <2> QED BY <2>4, <2>5
  <1>3. ASSUME reply.given, ask.kind = "size"
        PROVE  /\ answer \in [ok : BOOLEAN, asset : Nat, btc : Nat]
               /\ answer.ok => answer.asset > 0
               /\ IF Bought(ask.e, ask.pay) = {} THEN ~answer.ok
                  ELSE /\ answer.ok /\ answer.asset = Max(Bought(ask.e, ask.pay))
                       /\ answer.btc = CeilDiv(answer.asset * ask.e.num, ask.e.den)
    <2>1. SizeAsked /\ answer = SizeEntry(ask.e, ask.pay)
      BY <1>3 DEF TermsInv, TermsAsked, IsSize, BuyAsked, SellAsked, HoldAsked,
                  RefundAsked, FeedAsked, QuotesAsked, MergeAsked
    <2>2. ask.e \in Entries /\ ask.pay \in Nat
      BY <2>1 DEF SizeAsked
    <2> HIDE DEF answer
    <2> QED BY <2>1, <2>2, SizeIsSound
  <1>4. ASSUME reply.given, ask.kind = "hold"
        PROVE  answer \in [ok : BOOLEAN, cap : Nat] /\ CapIsTheGate
    <2> DEFINE cap == MaxSafeCltv(ask.h, ask.slow, ask.fast)
               ok  == HoldCltvSafe(ask.h, ask.slow, ask.fast)
    <2>1. HoldAsked /\ answer = [ok |-> ok, cap |-> cap]
      BY <1>4 DEF TermsInv, TermsAsked, IsHold, BuyAsked, SellAsked, SizeAsked,
                  RefundAsked, FeedAsked, QuotesAsked, MergeAsked
    <2>2. ask.h \in Holds /\ ask.slow \in Nat \ {0} /\ ask.fast \in Nat \ {0}
      BY <2>1 DEF HoldAsked
    <2>3. /\ ok \in BOOLEAN /\ cap \in Nat
          /\ ok <=> Claimable(ask.h) > 0 /\ ask.h.cltv <= cap
          /\ ok => SettleDeadline(ask.h, cap, ask.slow, ask.fast) + ask.h.margin
                       < ask.h.lock
      BY <2>2, CapIsSound
    <2> HIDE DEF cap, ok
    <2> HIDE DEF answer
    <2>4. answer.ok = ok /\ answer.cap = cap /\ answer \in [ok : BOOLEAN, cap : Nat]
      BY <2>1, <2>3
    <2> QED BY <2>3, <2>4 DEF CapIsTheGate
  <1>5. ASSUME reply.given, ask.kind = "refund"
        PROVE  answer \in Seq(Nat) /\ RefundPaysOut /\ RefundEscalates
    <2>1. RefundAsked /\ answer = Fees(ask.f, ask.estimates)
      BY <1>5 DEF TermsInv, TermsAsked, IsRefund, BuyAsked, SellAsked, SizeAsked,
                  HoldAsked, FeedAsked, QuotesAsked, MergeAsked
    <2>2. ask.f \in Refunds /\ ask.estimates \in [1 .. 3 -> Nat]
      BY <2>1 DEF RefundAsked
    <2> HIDE DEF answer
    <2>3. /\ answer \in Seq(Nat)
          /\ \A i \in 1 .. 3 :
                /\ answer[i] <= ask.f.ceil
                /\ ask.f.amount > BTC_DUST_LIMIT =>
                      ask.f.amount - answer[i] >= BTC_DUST_LIMIT
          /\ \A i \in 1 .. 2 : Escalates(ask.f, answer[i], answer[i + 1])
      BY <2>1, <2>2, RefundIsSound
    <2> QED BY <2>3 DEF RefundPaysOut, RefundEscalates, Escalates
  <1>6. reply.given \in BOOLEAN
    BY DEF TermsInv
  <1> HIDE DEF answer
  <1>7. TakeTypeOK
    <2>1. ASSUME NEW k \in {"buy", "sell", "size"}, Answered(k)
          PROVE  /\ answer \in [ok : BOOLEAN, asset : Nat, btc : Nat]
                 /\ answer.ok => answer.asset > 0
      <3>1. reply.given /\ ask.kind = k
        BY <2>1 DEF Answered
      <3> QED BY <1>1, <1>2, <1>3, <3>1
    <2>2. Answered("hold") => answer \in [ok : BOOLEAN, cap : Nat]
      BY <1>4 DEF Answered
    <2>3. Answered("refund") => answer \in Seq(Nat)
      BY <1>5 DEF Answered
    <2> QED BY <2>1, <2>2, <2>3 DEF TakeTypeOK
  <1>8. PriceIsTheSignedRatio
    BY <1>1, <1>2 DEF PriceIsTheSignedRatio, Answered
  <1>9. SliceIsSpendable
    BY <1>1, <1>2 DEF SliceIsSpendable, Spendable, Answered
  <1>10. SizedAsMuchAsPays
    <2>1. CASE Answered("size")
      <3>1. /\ reply.given /\ ask.kind = "size"
        BY <2>1 DEF Answered
      <3>2. IF Bought(ask.e, ask.pay) = {} THEN ~answer.ok
            ELSE /\ answer.ok /\ answer.asset = Max(Bought(ask.e, ask.pay))
                 /\ answer.btc = CeilDiv(answer.asset * ask.e.num, ask.e.den)
        BY <1>3, <3>1
      <3> QED BY <3>2 DEF SizedAsMuchAsPays, Bought
    <2> QED BY <2>1 DEF SizedAsMuchAsPays
  <1>11. CapIsTheGate
    <2>1. CASE Answered("hold")
      BY <1>4, <2>1 DEF Answered
    <2> QED BY <2>1 DEF CapIsTheGate
  <1>12. RefundPaysOut /\ RefundEscalates
    <2>1. CASE Answered("refund")
      BY <1>5, <2>1 DEF Answered
    <2> QED BY <2>1 DEF RefundPaysOut, RefundEscalates
  <1> QED BY <1>7, <1>8, <1>9, <1>10, <1>11, <1>12 DEF TakesAreSound

\* What the theorem about feeds says of the answer given.
LEMMA FeedIsSound ==
    ASSUME TermsInv
    PROVE  JumpIsSustained
  <1>1. CASE Answered("feed")
    <2>1. reply.given /\ ask.kind = "feed"
      BY <1>1 DEF Answered
    <2>2. FeedAsked /\ answer = Quoted(ask.readings, 5)
      BY <2>1 DEF TermsInv, TermsAsked, IsFeed, BuyAsked, SellAsked, SizeAsked,
                  HoldAsked, RefundAsked, QuotesAsked, MergeAsked
    <2>3. ask.readings \in [1 .. 5 -> Nat] /\ 5 \in Nat
      BY <2>2, PricesAssumption DEF FeedAsked
    <2> HIDE DEF answer
    <2>4. \A i \in 1 .. 5 : JumpsAt(answer, i) => AfterReadings(answer, ask.readings, i)
      BY <2>2, <2>3, JumpNeedsReadings
    <2> QED BY <2>4 DEF JumpIsSustained, JumpsAt, AfterReadings
  <1> QED BY <1>1 DEF JumpIsSustained

\* What the theorems about quotes, feeds and merges say of the answer given.
LEMMA QuotesAreFine ==
    ASSUME TermsInv
    PROVE  QuotesAreSound
  <1>1. reply.given \in BOOLEAN
    BY DEF TermsInv
  <1>2. ASSUME reply.given, ask.kind = "quotes", NEW q \in answer
        PROVE  /\ 0 < q.min /\ q.min <= q.max /\ q.num > 0 /\ q.den > 0
               /\ \A give \in q.min .. q.max :
                     FirmHonours(ask.h, ask.room, give, q.num, q.den)
    <2>1. QuotesAsked /\ answer = CapQuotes(LadderQuotes(ask.h), ask.room)
      BY <1>2 DEF TermsInv, TermsAsked, IsQuotes, BuyAsked, SellAsked, SizeAsked,
                  HoldAsked, RefundAsked, FeedAsked, MergeAsked
    <2>2. ask.h \in Holdings /\ ask.room \in Nat
      BY <2>1 DEF QuotesAsked
    <2> HIDE DEF answer
    <2>3. q \in CapQuotes(LadderQuotes(ask.h), ask.room)
      BY <1>2, <2>1
    <2> QED BY <2>2, <2>3, FirmIsSound
  <1>3. ASSUME reply.given, ask.kind = "merge"
        PROVE  /\ DOMAIN ask.coins = 1 .. Coins
               /\ answer \subseteq 1 .. Coins
               /\ MergeKept(ask.coins, Cardinality(1 .. Coins), ask.cap, ask.small,
                            ask.most, answer)
    <2> DEFINE S == CoinsToMerge(ask.coins, ask.cap, ask.small, ask.most)
    <2>1. MergeAsked /\ answer = S
      BY <1>3 DEF TermsInv, TermsAsked, IsMerge, BuyAsked, SellAsked, SizeAsked,
                  HoldAsked, RefundAsked, FeedAsked, QuotesAsked
    <2>2. /\ Purse(ask.coins) /\ DOMAIN ask.coins = 1 .. Coins
          /\ ask.cap \in Nat \ {0} /\ ask.most \in Nat
      BY <2>1 DEF MergeAsked
    <2>3. MergeKept(ask.coins, Cardinality(DOMAIN ask.coins), ask.cap, ask.small,
                    ask.most, S)
      BY <2>2, MergeIsSound
    <2>4. S \subseteq DOMAIN ask.coins
      <3> DEFINE pool == Pool(ask.coins, ask.cap, ask.small, ask.most)
      <3>1. pool \subseteq DOMAIN ask.coins
        BY PoolIs
      <3>2. S \subseteq pool
        BY DEF CoinsToMerge
      <3> QED BY <3>1, <3>2
    <2> HIDE DEF answer, S
    <2> QED BY <2>1, <2>2, <2>3, <2>4
  <1>4. ASSUME reply.given, ask.kind = "feed"
        PROVE  \A i \in 0 .. 5 : answer[i] \in Readings
    <2>1. FeedAsked /\ answer = Quoted(ask.readings, 5)
      BY <1>4 DEF TermsInv, TermsAsked, IsFeed, BuyAsked, SellAsked, SizeAsked,
                  HoldAsked, RefundAsked, QuotesAsked, MergeAsked
    <2>2. /\ ask.readings \in [1 .. 5 -> Readings] /\ 5 \in Nat
          /\ Readings \subseteq Nat /\ 0 \in Readings
      BY <2>1, PricesAssumption DEF FeedAsked
    <2> HIDE DEF answer
    <2> QED BY <2>1, <2>2, QuotedIsRead
  <1> HIDE DEF answer
  <1>5. QuoteTypeOK
    <2>1. ASSUME Answered("quotes"), NEW q \in answer
          PROVE  0 < q.min /\ q.min <= q.max /\ q.num > 0 /\ q.den > 0
      BY <1>2, <2>1 DEF Answered
    <2>2. Answered("feed") => \A i \in 0 .. 5 : answer[i] \in Readings
      BY <1>4 DEF Answered
    <2>3. Answered("merge") => answer \subseteq 1 .. Coins
      BY <1>3 DEF Answered
    <2> QED BY <2>1, <2>2, <2>3 DEF QuoteTypeOK
  <1>6. FirmHonoursQuote
    BY <1>2, Zenon DEF FirmHonoursQuote, FirmHonours, Answered
  <1>7. JumpIsSustained
    BY FeedIsSound
  <1>8. MergeIsBounded
    <2>1. CASE Answered("merge")
      <3>1. MergeKept(ask.coins, Cardinality(1 .. Coins), ask.cap, ask.small,
                      ask.most, answer)
        BY <1>3, <2>1 DEF Answered
      <3> QED BY <3>1, Zenon DEF MergeIsBounded, MergeKept, Movable, NoneFits, Worth
    <2> QED BY <2>1, Zenon DEF MergeIsBounded
  <1> QED BY <1>5, <1>6, <1>7, <1>8 DEF QuotesAreSound

\* In every state the question is one of these, and the answer its operator's.
LEMMA TermsAlways == PriceSpec => []TermsInv
  <1>1. ASSUME PriceInit PROVE TermsInv
    <2>1. TermsAsked
      BY <1>1, AskedTerms DEF PriceInit
    <2>2. reply.given = FALSE
      BY <1>1 DEF PriceInit
    <2> QED BY <2>1, <2>2 DEF TermsInv
  <1> QED BY <1>1, TermsStep, PTL DEF PriceSpec

\* Every answer to a take, and to the fees and delays around it, keeps what its
\* reference says, for every amount of the constants.
THEOREM TakesSound == PriceSpec => []TakesAreSound
  BY TermsAlways, TermsAreSound, PTL

\* Whatever a maker holds and reads: what it publishes it sells at the price it
\* published, a wrong reading moves no quote, and a merge keeps to its bounds.
THEOREM QuotesSound == PriceSpec => []QuotesAreSound
  BY TermsAlways, QuotesAreFine, PTL
=============================================================================
