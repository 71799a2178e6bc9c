--------------------------- MODULE BtcTradeProofs ---------------------------
(***************************************************************************)
(* Why neither side of a trade for BTC over Lightning pays for nothing,    *)
(* for every hold, lock and reaction time and any number of interruptions. *)
(*                                                                         *)
(* That the asset goes only for BTC paid rests on who can have the secret  *)
(* (GiverInv) and on no clock.  That paid BTC finds the asset rests on     *)
(* one sum (Times): the readiness that cleared the payment leaves its lock *)
(* and the reaction time, the payment spends Drift and the lock, the claim *)
(* Absence.  That nobody gives up what is out is read off the two records, *)
(* and needs that sum, since a record is closed over an asset returned.    *)
(***************************************************************************)
EXTENDS BtcTrade, TLAPS

\* A payment and the claim it buys follow within the reaction time, and what the
\* switches admit stays out.
Prompt ==
    /\ Drift + Absence < Reaction
    /\ ~RoundVoids /\ ~ClaimInterrupted /\ ~StatusFails /\ ~LockSlow

-----------------------------------------------------------------------------
(* Type correctness                                                         *)

\* An invoice that is closed under a condition stays an invoice.
LEMMA InvoiceCloses ==
    ASSUME TypeOK, NEW b
    PROVE  [inv EXCEPT !.open = @ /\ b] \in [open : BOOLEAN, ends : Nat]
  <1> DEFINE open == inv.open /\ b
  <1>1. open \in BOOLEAN
    BY Zenon
  <1> HIDE DEF open
  <1> QED BY <1>1 DEF open, TypeOK

LEMMA LetGoType ==
    ASSUME TypeOK, LetGo PROVE inv' \in [open : BOOLEAN, ends : Nat]
  <1>1. PICK kept \in BOOLEAN :
            inv' = [inv EXCEPT !.open = @ /\ Buy /\ (kept \/ drec' # "released")]
    BY DEF LetGo
  <1> QED BY <1>1, InvoiceCloses

LEMMA InitType == Init => TypeOK
  <1> SUFFICES ASSUME Init PROVE TypeOK
    OBVIOUS
  <1>1. {opKnows, libHas, lapsed, early, dup, wup, wx} \subseteq BOOLEAN
    BY Zenon DEF Init
  <1>2. inv \in [open : BOOLEAN, ends : Nat]
    BY ClockAssumption DEF Init
  <1>3. calls \in [Attempts -> {"none", "checked", "paid"}]
    BY DEF Init
  <1> QED BY <1>1, <1>2, <1>3 DEF Init, TypeOK, OpStates

LEMMA TypeStep ==
    ASSUME TypeOK, [Next]_vars
    PROVE  TypeOK'
  <1> USE ClockAssumption DEF TypeOK, OpStates, Attempts, worldVars, deskVars, walletVars
  <1>1. ASSUME Pass PROVE TypeOK'
    BY <1>1 DEF Pass
  <1>2. ASSUME OfferLapses PROVE TypeOK'
    BY <1>2 DEF OfferLapses
  <1>3. ASSUME RoundIsFinal PROVE TypeOK'
    BY <1>3 DEF RoundIsFinal
  <1>4. ASSUME RoundFails PROVE TypeOK'
    BY <1>4 DEF RoundFails
  <1>5. ASSUME HoldEnds PROVE TypeOK'
    BY <1>5 DEF HoldEnds
  <1>6. ASSUME LeafIsClaimed PROVE TypeOK'
    BY <1>6 DEF LeafIsClaimed
  <1>7. ASSUME BtcFails PROVE TypeOK'
    BY <1>7 DEF BtcFails
  <1>8. ASSUME BtcReachesDesk PROVE TypeOK'
    BY <1>8 DEF BtcReachesDesk
  <1>9. ASSUME Firm PROVE TypeOK'
    BY <1>9 DEF Firm, Fault
  <1>10. ASSUME DeskClears PROVE TypeOK'
    BY <1>10 DEF DeskClears, LeafReady, PaysEarly, HoldLasts
  <1>11. ASSUME DeskGivesUp PROVE TypeOK'
    BY <1>11 DEF DeskGivesUp
  <1>12. ASSUME DeskLapses PROVE TypeOK'
    <2>1. [inv EXCEPT !.open = @ /\ Sell] \in [open : BOOLEAN, ends : Nat]
      BY InvoiceCloses
    <2>2. inv' \in [open : BOOLEAN, ends : Nat]
      BY <1>12, <2>1 DEF DeskLapses
    <2> QED BY <1>12, <2>2 DEF DeskLapses
  <1>13. ASSUME DeskPays PROVE TypeOK'
    BY <1>13 DEF DeskPays
  <1>14. ASSUME DeskHearsFailed PROVE TypeOK'
    BY <1>14 DEF DeskHearsFailed
  <1>15. ASSUME DeskHearsPaid PROVE TypeOK'
    BY <1>15 DEF DeskHearsPaid
  <1>16. ASSUME DeskIsDone PROVE TypeOK'
    BY <1>16 DEF DeskIsDone
  <1>17. ASSUME DeskTakesLock PROVE TypeOK'
    BY <1>17 DEF DeskTakesLock, Unrecorded
  <1>18. ASSUME DeskAdopts PROVE TypeOK'
    BY <1>18 DEF DeskAdopts, Recorded, Unrecorded
  <1>19. ASSUME DeskLockReturned PROVE TypeOK'
    <2>1. inv' \in [open : BOOLEAN, ends : Nat]
      BY <1>19 DEF DeskLockReturned
    <2> QED BY <1>19, <2>1 DEF DeskLockReturned
  <1>20. ASSUME DeskPostsSecret PROVE TypeOK'
    BY <1>20 DEF DeskPostsSecret
  <1>21. ASSUME DeskRestarts PROVE TypeOK'
    BY <1>21 DEF DeskRestarts
  <1>22. ASSUME WDropsTicket PROVE TypeOK'
    <2>1. inv' \in [open : BOOLEAN, ends : Nat]
      BY <1>22, LetGoType DEF WDropsTicket
    <2>2. drec' \in {drec, "released"}
      BY <1>22 DEF WDropsTicket, LetGo
    <2> QED BY <1>22, <2>1, <2>2 DEF WDropsTicket
  <1>23. ASSUME WConfirms PROVE TypeOK'
    BY <1>23 DEF WConfirms, Passes
  <1>24. ASSUME WIsRefused PROVE TypeOK'
    <2>1. inv' \in [open : BOOLEAN, ends : Nat]
      BY <1>24, LetGoType DEF WIsRefused
    <2>2. drec' \in {drec, "released"}
      BY <1>24 DEF WIsRefused, LetGo
    <2> QED BY <1>24, <2>1, <2>2 DEF WIsRefused, Fault
  <1>25. ASSUME DeskStops PROVE TypeOK'
    <2>1. calls' \in [Attempts -> {"none", "checked", "paid"}] /\ dup' \in BOOLEAN
      BY <1>25 DEF DeskStops
    <2>2. UNCHANGED <<worldVars, drec, early, attempt, walletVars>> /\ faults' \in Nat
      BY <1>25 DEF DeskStops, Fault
    <2> QED BY <2>1, <2>2
  <1>26. ASSUME PageCloses PROVE TypeOK'
    <2>1. wup' \in BOOLEAN /\ wpc' = "idle"
      BY <1>26, Zenon DEF PageCloses
    <2>2. faults' \in Nat
      BY <1>26 DEF PageCloses, Fault
    <2>3. UNCHANGED <<worldVars, deskVars, wrec, wsaw, wx>>
      BY <1>26 DEF PageCloses
    <2> QED BY <2>1, <2>2, <2>3
  <1>27. ASSUME WLocks PROVE TypeOK'
    BY <1>27 DEF WLocks
  <1>28. ASSUME WAsksToReceive PROVE TypeOK'
    BY <1>28 DEF WAsksToReceive
  <1>29. ASSUME WIsAnswered PROVE TypeOK'
    <2>1. wx' \in BOOLEAN
      BY <1>29, Zenon DEF WIsAnswered, Buy
    <2>2. wrec' \in {"sent", "waiting"}
      BY <1>29 DEF WIsAnswered, AfterStep
    <2> QED BY <1>29, <2>1, <2>2 DEF WIsAnswered
  <1>30. ASSUME WLooksForStep PROVE TypeOK'
    BY <1>30 DEF WLooksForStep, Passes, Recorded
  <1>31. ASSUME WReads PROVE TypeOK'
    BY <1>31 DEF WReads, Passes
  <1>32. ASSUME WSettlesHold PROVE TypeOK'
    BY <1>32 DEF WSettlesHold, RoomToSettle
  <1>33. ASSUME WIsPaid PROVE TypeOK'
    BY <1>33 DEF WIsPaid, HoldIsPaid
  <1>34. ASSUME WIsUnpaid PROVE TypeOK'
    <2>1. [inv EXCEPT !.open = @ /\ wsaw # "returned"] \in [open : BOOLEAN, ends : Nat]
      BY InvoiceCloses
    <2>2. inv' \in [open : BOOLEAN, ends : Nat] /\ faults' \in Nat
      BY <1>34, <2>1 DEF WIsUnpaid, Fault
    <2> QED BY <1>34, <2>2 DEF WIsUnpaid
  <1>35. ASSUME WPostsSecret PROVE TypeOK'
    BY <1>35 DEF WPostsSecret
  <1>36. ASSUME WComesBack PROVE TypeOK'
    BY <1>36 DEF WComesBack, Passes, MakerIsLate, HoldLasts, LetGo
  <1>37. ASSUME WClears PROVE TypeOK'
    BY <1>37 DEF WClears, Passes, LeafReady, HoldLasts
  <1>38. ASSUME WPays PROVE TypeOK'
    BY <1>38 DEF WPays, Passes
  <1>39. ASSUME WRenewsInvoice PROVE TypeOK'
    BY <1>39 DEF WRenewsInvoice, Passes, SeenUnpaid
  <1>40. ASSUME WGivesUp PROVE TypeOK'
    BY <1>40 DEF WGivesUp, Passes, SeenUnpaid, Fault, LetGo
  <1>41. ASSUME WHearsFailed PROVE TypeOK'
    BY <1>41 DEF WHearsFailed, Passes
  <1>42. ASSUME WHearsPaid PROVE TypeOK'
    BY <1>42 DEF WHearsPaid, Passes
  <1>43. ASSUME WHandsOver PROVE TypeOK'
    BY <1>43 DEF WHandsOver
  <1>44. ASSUME WSettles PROVE TypeOK'
    BY <1>44 DEF WSettles, Passes
  <1>45. ASSUME PageOpens PROVE TypeOK'
    BY <1>45 DEF PageOpens
  <1>46. ASSUME NEW a \in Attempts, DeskCallPays(a) PROVE TypeOK'
    BY <1>46 DEF DeskCallPays
  <1>47. ASSUME NEW a \in Attempts, DeskCallFails(a) PROVE TypeOK'
    BY <1>47 DEF DeskCallFails, Mine, Fault
  <1>48. ASSUME NEW a \in Attempts, DeskCallReturns(a) PROVE TypeOK'
    BY <1>48 DEF DeskCallReturns, Mine
  <1>49. ASSUME UNCHANGED vars PROVE TypeOK'
    BY <1>49 DEF vars
  <1> HIDE DEF TypeOK, OpStates, Attempts, worldVars, deskVars, walletVars
  <1> QED
    BY <1>1, <1>2, <1>3, <1>4, <1>5, <1>6, <1>7, <1>8, <1>9, <1>10, <1>11, <1>12, <1>13,
       <1>14, <1>15, <1>16, <1>17, <1>18, <1>19, <1>20, <1>21, <1>22, <1>23, <1>24, <1>25,
       <1>26, <1>27, <1>28, <1>29, <1>30, <1>31, <1>32, <1>33, <1>34, <1>35, <1>36, <1>37,
       <1>38, <1>39, <1>40, <1>41, <1>42, <1>43, <1>44, <1>45, <1>46, <1>47, <1>48, <1>49
       DEF Next, World, Desk, Wallet

\* The state keeps its types, whatever is switched on.
THEOREM TypeCorrect == Spec => []TypeOK
  BY InitType, TypeStep, PTL DEF Spec

-----------------------------------------------------------------------------
(* The secret                                                               *)

\* Which steps belong to which side of a trade.
Sides ==
    /\ drec \in {"cleared", "paying", "claiming"} => Sell
    /\ drec \in {"locking", "locked"} \/ wrec = "waiting" => Buy
    /\ \A a \in Attempts : calls[a] # "none" => Buy
    /\ wpc \in {"pay", "paid", "status", "post"} => Sell
    /\ wpc \in {"receive", "received", "heard"} => Buy

\* Whoever has the secret has it from the payment.
SecretIsPaid ==
    /\ opKnows \/ libHas \/ op = "claimed" => btc = "complete"
    /\ wpc \in {"post", "heard"} \/ drec = "claiming" \/ wrec \in {"claiming", "settled"}
          => btc = "complete"

\* The desk does not pay again what is under way or paid.
PaidOnce ==
    Sell /\ btc \in {"flight", "complete"} => drec \notin {"none", "offered", "cleared"}

SecretParts == Sides /\ SecretIsPaid /\ PaidOnce
GiverInv == TypeOK /\ SecretParts

LEMMA SecretStep ==
    ASSUME ~StatusFails, GiverInv, [Next]_vars
    PROVE  SecretParts'
  <1> USE DEF GiverInv, SecretParts, Sides, SecretIsPaid, PaidOnce, Sell, Buy, Cleared,
         TypeOK, Attempts, worldVars, deskVars, walletVars
  <1>1. ASSUME Pass \/ OfferLapses \/ RoundIsFinal \/ RoundFails PROVE SecretParts'
    BY <1>1 DEF Pass, OfferLapses, RoundIsFinal, RoundFails
  <1>2. ASSUME HoldEnds \/ LeafIsClaimed \/ BtcFails \/ BtcReachesDesk PROVE SecretParts'
    BY <1>2 DEF HoldEnds, LeafIsClaimed, BtcFails, BtcReachesDesk
  <1>3. ASSUME Firm \/ DeskClears \/ DeskGivesUp \/ DeskLapses PROVE SecretParts'
    BY <1>3 DEF Firm, Fault, DeskClears, LeafReady, PaysEarly, HoldLasts, DeskGivesUp,
       DeskLapses
  <1>4. ASSUME DeskPays \/ DeskHearsFailed \/ DeskHearsPaid \/ DeskIsDone PROVE SecretParts'
    BY <1>4 DEF DeskPays, DeskHearsFailed, DeskHearsPaid, DeskIsDone
  <1>5. ASSUME DeskTakesLock \/ DeskAdopts \/ DeskLockReturned \/ DeskPostsSecret PROVE
               SecretParts'
    BY <1>5 DEF DeskTakesLock, Unrecorded, DeskAdopts, Recorded, DeskLockReturned,
       DeskPostsSecret
  <1>6. ASSUME DeskRestarts PROVE SecretParts'
    BY <1>6 DEF DeskRestarts
  <1>7. ASSUME WDropsTicket PROVE SecretParts'
    BY <1>7 DEF WDropsTicket, Passes, LetGo
  <1>8. ASSUME WConfirms PROVE SecretParts'
    <2>1. CASE Sell
      BY <1>8, <2>1 DEF WConfirms, Passes
    <2>2. CASE Buy
      BY <1>8, <2>2 DEF WConfirms, Passes
    <2> QED BY <2>1, <2>2
  <1>9. ASSUME WIsRefused \/ DeskStops \/ PageCloses PROVE SecretParts'
    BY <1>9 DEF WIsRefused, Fault, LetGo, DeskStops, PageCloses
  <1>10. ASSUME WLocks \/ WAsksToReceive PROVE SecretParts'
    BY <1>10 DEF WLocks, WAsksToReceive
  <1>11. ASSUME WIsAnswered PROVE SecretParts'
    <2>1. wpc' = "idle" /\ wrec' = AfterStep /\ wpc \in {"paid", "received"}
          /\ UNCHANGED <<worldVars, deskVars, wsaw, wup, faults>>
      BY <1>11 DEF WIsAnswered
    <2>2. CASE Sell
      BY <2>1, <2>2 DEF AfterStep
    <2>3. CASE Buy
      BY <2>1, <2>3 DEF AfterStep
    <2> QED BY <2>2, <2>3
  <1>12. ASSUME WLooksForStep \/ WReads \/ WSettlesHold \/ WIsPaid PROVE SecretParts'
    BY <1>12 DEF WLooksForStep, Passes, Recorded, WReads, WSettlesHold, RoomToSettle,
       WIsPaid, HoldIsPaid
  <1>13. ASSUME WIsUnpaid \/ WPostsSecret \/ WComesBack \/ WClears PROVE SecretParts'
    BY <1>13 DEF WIsUnpaid, Fault, RoomToSettle, WPostsSecret, WComesBack, Passes,
       MakerIsLate, HoldLasts, LetGo, WClears, LeafReady
  <1>14. ASSUME WPays \/ WRenewsInvoice \/ WGivesUp \/ WHearsFailed PROVE SecretParts'
    BY <1>14 DEF WPays, Passes, WRenewsInvoice, SeenUnpaid, WGivesUp, Fault, LetGo,
       WHearsFailed
  <1>15. ASSUME WHearsPaid \/ WHandsOver \/ WSettles \/ PageOpens PROVE SecretParts'
    BY <1>15 DEF WHearsPaid, Passes, WHandsOver, WSettles, PageOpens
  <1>16. ASSUME NEW a \in Attempts, DeskCallPays(a) PROVE SecretParts'
    BY <1>16 DEF DeskCallPays
  <1>17. ASSUME NEW a \in Attempts, DeskCallFails(a) PROVE SecretParts'
    BY <1>17 DEF DeskCallFails, Mine, Fault
  <1>18. ASSUME NEW a \in Attempts, DeskCallReturns(a) PROVE SecretParts'
    BY <1>18 DEF DeskCallReturns, Mine
  <1>19. ASSUME UNCHANGED vars PROVE SecretParts'
    BY <1>19 DEF vars
  <1> HIDE DEF GiverInv, SecretParts, Sides, SecretIsPaid, PaidOnce, Sell, Buy, Cleared,
           TypeOK, Attempts, worldVars, deskVars, walletVars
  <1> QED
    BY <1>1, <1>2, <1>3, <1>4, <1>5, <1>6, <1>7, <1>8, <1>9, <1>10, <1>11, <1>12, <1>13,
       <1>14, <1>15, <1>16, <1>17, <1>18, <1>19
       DEF Next, World, Desk, Wallet

LEMMA GiverInit == Init => GiverInv
  BY InitType
     DEF Init, GiverInv, SecretParts, Sides, SecretIsPaid, PaidOnce, Sell, Buy

LEMMA GiverAlways == ASSUME ~StatusFails PROVE Spec => []GiverInv
  <1>1. GiverInv /\ [Next]_vars => GiverInv'
    BY TypeStep, SecretStep DEF GiverInv
  <1> QED BY GiverInit, <1>1, PTL DEF Spec

\* The asset goes only for BTC paid: neither the secret nor the leaf comes first,
\* whatever the clock, as long as a payment's status can be read.
THEOREM GiverSafe == ASSUME ~StatusFails PROVE Spec => []GiverNeverDeliversForNothing
  <1>1. GiverInv => GiverNeverDeliversForNothing
    BY DEF GiverInv, SecretParts, SecretIsPaid, GiverNeverDeliversForNothing
  <1> QED BY GiverAlways, <1>1, PTL

-----------------------------------------------------------------------------
(* The clock and the records                                                *)

\* The secret bought is never lost on its way to the library.
SecretIsKept ==
    Buy /\ btc = "complete" => libHas \/ wrec = "sent" \/ wpc = "heard"

\* The desk's record over what it has out: its payment in a sale, its asset in a
\* purchase, where one attempt is made at a time.
DeskFollows ==
    /\ Sell /\ btc \in {"flight", "complete"} => drec \in {"paying", "claiming", "done"}
    /\ Buy /\ Held /\ ~opKnows => drec \in {"locking", "locked"}
    /\ \A a \in Attempts :
          calls[a] = "checked" => attempt = a /\ drec = "locking" /\ op = "waiting"

\* The wallet's: its asset in a sale, its payment in a purchase.
WalletFollows ==
    /\ Sell /\ Held => wrec \in {"confirming", "sent", "settled"}
    /\ Buy /\ btc \in {"flight", "complete"} => wrec \in {"sent", "claiming", "settled"}
    /\ drec = "none" => wrec = "none" /\ op = "none"
    /\ Sell /\ wrec = "none" => op \in {"none", "waiting"}
    /\ Sell /\ wrec = "quoted" => op = "waiting"
    /\ wpc = "pay" => wrec = "confirming" /\ op = "waiting"
    /\ wpc = "paid" => wrec = "confirming" /\ op \notin {"none", "waiting"}
    /\ wpc \in {"receive", "received"} => wrec = "confirming"
    /\ wsaw = "returned" => op = "returned"

\* What a payment has left of the hold, from the answer that cleared it to the claim.
Times ==
    /\ Cleared => Held /\ now <= mark + Drift /\ mark + Need <= Hold
    /\ btc = "flight" => Held /\ now <= mark + Lock /\ mark + Need <= Hold + Drift
    /\ btc = "complete" =>
          /\ op \in {"accepted", "final", "claimed"}
          /\ now <= mark + Absence /\ mark + Need <= Hold + Drift + Lock

TradeParts == SecretIsKept /\ DeskFollows /\ WalletFollows /\ Times
TradeInv == GiverInv /\ TradeParts

LEMMA TradeStep ==
    ASSUME Prompt, TradeInv, [Next]_vars
    PROVE  TradeParts'
  <1> USE ClockAssumption DEF TradeInv, TradeParts, SecretIsKept, DeskFollows,
         WalletFollows, Times, GiverInv, SecretParts, Sides, SecretIsPaid, PaidOnce, Prompt,
         Need, Held, Sell, Buy, InTime, Cleared, SecretUnderWay, TypeOK, OpStates, Attempts,
         worldVars, deskVars, walletVars
  <1>1. ASSUME Pass \/ OfferLapses \/ RoundIsFinal PROVE TradeParts'
    BY <1>1 DEF Pass, OfferLapses, RoundIsFinal
  <1>2. ASSUME RoundFails \/ HoldEnds \/ LeafIsClaimed PROVE TradeParts'
    BY <1>2 DEF RoundFails, HoldEnds, LeafIsClaimed
  <1>3. ASSUME BtcFails PROVE TradeParts'
    BY <1>3 DEF BtcFails
  <1>4. ASSUME BtcReachesDesk PROVE TradeParts'
    <2>1. Buy /\ btc = "flight" /\ btc' = "complete" /\ mark' = now
          /\ UNCHANGED <<dir, now, op, opKnows, libHas, deskVars, walletVars>>
      BY <1>4 DEF BtcReachesDesk
    <2>2. SecretIsKept' /\ DeskFollows' /\ WalletFollows'
      BY <2>1
    <2>3. Times'
      BY <2>1
    <2> QED BY <2>2, <2>3
  <1>5. ASSUME Firm \/ DeskClears \/ DeskGivesUp PROVE TradeParts'
    BY <1>5 DEF Firm, Fault, DeskClears, LeafReady, PaysEarly, HoldLasts, DeskGivesUp
  <1>6. ASSUME DeskLapses \/ DeskPays \/ DeskHearsFailed PROVE TradeParts'
    BY <1>6 DEF DeskLapses, DeskPays, DeskHearsFailed
  <1>7. ASSUME DeskHearsPaid \/ DeskIsDone \/ DeskTakesLock PROVE TradeParts'
    BY <1>7 DEF DeskHearsPaid, DeskIsDone, DeskTakesLock, Unrecorded
  <1>8. ASSUME DeskAdopts \/ DeskLockReturned \/ DeskPostsSecret PROVE TradeParts'
    BY <1>8 DEF DeskAdopts, Recorded, Unrecorded, DeskLockReturned, DeskPostsSecret
  <1>9. ASSUME DeskRestarts PROVE TradeParts'
    BY <1>9 DEF DeskRestarts
  <1>10. ASSUME WDropsTicket PROVE TradeParts'
    BY <1>10 DEF WDropsTicket, Passes, LetGo
  <1>11. ASSUME WConfirms PROVE TradeParts'
    <2>1. CASE Sell
      BY <1>11, <2>1 DEF WConfirms, Passes
    <2>2. CASE Buy
      BY <1>11, <2>2 DEF WConfirms, Passes
    <2> QED BY <2>1, <2>2
  <1>12. ASSUME WIsRefused \/ DeskStops \/ PageCloses PROVE TradeParts'
    BY <1>12 DEF WIsRefused, Fault, LetGo, DeskStops, PageCloses
  <1>13. ASSUME WLocks \/ WAsksToReceive PROVE TradeParts'
    BY <1>13 DEF WLocks, WAsksToReceive
  <1>14. ASSUME WIsAnswered PROVE TradeParts'
    <2>1. wpc' = "idle" /\ wrec' = AfterStep /\ wpc \in {"paid", "received"}
          /\ UNCHANGED <<worldVars, deskVars, wsaw, wup, faults>>
      BY <1>14 DEF WIsAnswered
    <2>2. CASE Sell
      BY <2>1, <2>2 DEF AfterStep
    <2>3. CASE Buy
      BY <2>1, <2>3 DEF AfterStep
    <2> QED BY <2>2, <2>3
  <1>15. ASSUME WLooksForStep \/ WReads \/ WSettlesHold PROVE TradeParts'
    BY <1>15 DEF WLooksForStep, Passes, Recorded, WReads, WSettlesHold, RoomToSettle
  <1>16. ASSUME WIsPaid \/ WIsUnpaid \/ WPostsSecret PROVE TradeParts'
    BY <1>16 DEF WIsPaid, HoldIsPaid, WIsUnpaid, Fault, RoomToSettle, WPostsSecret
  <1>17. ASSUME WComesBack \/ WClears \/ WPays PROVE TradeParts'
    BY <1>17 DEF WComesBack, Passes, MakerIsLate, HoldLasts, LetGo, WClears, LeafReady,
       WPays
  <1>18. ASSUME WRenewsInvoice \/ WGivesUp \/ WHearsFailed PROVE TradeParts'
    BY <1>18 DEF WRenewsInvoice, Passes, SeenUnpaid, WGivesUp, Fault, LetGo, WHearsFailed
  <1>19. ASSUME WHearsPaid \/ WHandsOver \/ WSettles PROVE TradeParts'
    BY <1>19 DEF WHearsPaid, Passes, WHandsOver, WSettles
  <1>20. ASSUME PageOpens PROVE TradeParts'
    BY <1>20 DEF PageOpens
  <1>21. ASSUME NEW a \in Attempts, DeskCallPays(a) PROVE TradeParts'
    BY <1>21 DEF DeskCallPays
  <1>22. ASSUME NEW a \in Attempts, DeskCallFails(a) PROVE TradeParts'
    BY <1>22 DEF DeskCallFails, Mine, Fault
  <1>23. ASSUME NEW a \in Attempts, DeskCallReturns(a) PROVE TradeParts'
    BY <1>23 DEF DeskCallReturns, Mine
  <1>24. ASSUME UNCHANGED vars PROVE TradeParts'
    BY <1>24 DEF vars
  <1> HIDE DEF TradeInv, TradeParts, SecretIsKept, DeskFollows, WalletFollows, Times,
           GiverInv, SecretParts, Sides, SecretIsPaid, PaidOnce, Prompt, Need, Held, Sell,
           Buy, InTime, Cleared, SecretUnderWay, TypeOK, OpStates, Attempts, worldVars,
           deskVars, walletVars
  <1> QED
    BY <1>1, <1>2, <1>3, <1>4, <1>5, <1>6, <1>7, <1>8, <1>9, <1>10, <1>11, <1>12, <1>13,
       <1>14, <1>15, <1>16, <1>17, <1>18, <1>19, <1>20, <1>21, <1>22, <1>23, <1>24
       DEF Next, World, Desk, Wallet

LEMMA TradeInit == Init => TradeInv
  BY GiverInit
     DEF Init, TradeInv, TradeParts, SecretIsKept, DeskFollows, WalletFollows, Times, Cleared,
         Held, Sell, Buy

LEMMA TradeAlways == ASSUME Prompt PROVE Spec => []TradeInv
  <1>1. TradeInv /\ [Next]_vars => TradeInv'
    BY TypeStep, SecretStep, TradeStep DEF TradeInv, GiverInv, Prompt
  <1> QED BY TradeInit, <1>1, PTL DEF Spec

\* The Bitcoin and the leaf go together, and no payment or lock under way is forgotten.
THEOREM TradeSafe == ASSUME Prompt PROVE Spec => []PaymentsAreSafe
  <1>1. TradeInv => TypeOK /\ PayerNeverPaysForNothing /\ GiverNeverDeliversForNothing
    BY DEF TradeInv, GiverInv, SecretParts, TradeParts, PayerNeverPaysForNothing,
           GiverNeverDeliversForNothing, SecretIsPaid, Times
  <1>2. TradeInv => OutIsFollowed
    BY DEF TradeInv, TradeParts, OutIsFollowed, DeskFollows, WalletFollows
  <1> QED BY TradeAlways, <1>1, <1>2, PTL DEF PaymentsAreSafe

-----------------------------------------------------------------------------
(* The refinement of FrontedLeg                                             *)

\* How the payment and the operator's record move: one at a time, and each as the
\* state of the other allows.
OpMoves ==
    /\ btc' = btc
    /\ \/ op = "none" /\ op' = "waiting"
       \/ op = "waiting" /\ op' = "accepted"
       \/ op = "accepted" /\ op' = "final"
       \/ op = "final" /\ op' = "claimed" /\ btc = "complete"
       \/ Held /\ op' = "returned" /\ btc \in {"none", "failed"}
BtcMoves ==
    /\ op' = op
    /\ \/ btc \in {"none", "failed"} /\ btc' = "flight" /\ Held
       \/ btc = "flight" /\ btc' = "complete" /\ op # "returned"
       \/ btc = "flight" /\ btc' = "failed" /\ op # "claimed"
PairMoves == OpMoves \/ BtcMoves \/ UNCHANGED <<btc, op>>

LEMMA LegMoves ==
    ASSUME Prompt, TradeInv, [Next]_vars
    PROVE  PairMoves
  <1> USE ClockAssumption DEF TradeInv, TradeParts, DeskFollows, WalletFollows, Times,
         GiverInv, SecretParts, SecretIsPaid, Prompt, Need, Held, Sell, Buy, InTime,
         Cleared, PairMoves, OpMoves, BtcMoves, TypeOK, worldVars, deskVars, walletVars
  <1>1. ASSUME Pass \/ OfferLapses PROVE PairMoves
    BY <1>1 DEF Pass, OfferLapses
  <1>2. ASSUME RoundIsFinal \/ RoundFails PROVE PairMoves
    BY <1>2 DEF RoundIsFinal, RoundFails
  <1>3. ASSUME HoldEnds \/ LeafIsClaimed PROVE PairMoves
    BY <1>3 DEF HoldEnds, LeafIsClaimed
  <1>4. ASSUME BtcFails \/ BtcReachesDesk PROVE PairMoves
    BY <1>4 DEF BtcFails, BtcReachesDesk
  <1>5. ASSUME Firm \/ DeskClears PROVE PairMoves
    BY <1>5 DEF Firm, Fault, DeskClears, LeafReady, PaysEarly, HoldLasts
  <1>6. ASSUME DeskGivesUp \/ DeskLapses PROVE PairMoves
    BY <1>6 DEF DeskGivesUp, DeskLapses
  <1>7. ASSUME DeskPays PROVE PairMoves
    <2>1. btc \in {"none", "failed"} /\ Held /\ op' = op
      BY <1>7 DEF DeskPays, Sides
    <2>2. btc' = "flight" \/ btc' = btc
      BY <1>7 DEF DeskPays
    <2> QED
      BY <2>1, <2>2
  <1>8. ASSUME DeskHearsFailed \/ DeskHearsPaid PROVE PairMoves
    BY <1>8 DEF DeskHearsFailed, DeskHearsPaid
  <1>9. ASSUME DeskIsDone \/ DeskTakesLock PROVE PairMoves
    BY <1>9 DEF DeskIsDone, DeskTakesLock, Unrecorded
  <1>10. ASSUME DeskAdopts \/ DeskLockReturned PROVE PairMoves
    BY <1>10 DEF DeskAdopts, Recorded, Unrecorded, DeskLockReturned
  <1>11. ASSUME DeskPostsSecret \/ DeskRestarts PROVE PairMoves
    BY <1>11 DEF DeskPostsSecret, DeskRestarts
  <1>12. ASSUME WDropsTicket \/ WConfirms PROVE PairMoves
    BY <1>12 DEF WDropsTicket, Passes, LetGo, WConfirms
  <1>13. ASSUME WIsRefused \/ DeskStops PROVE PairMoves
    BY <1>13 DEF WIsRefused, Fault, LetGo, DeskStops
  <1>14. ASSUME PageCloses PROVE PairMoves
    BY <1>14 DEF PageCloses, Fault
  <1>15. ASSUME WLocks \/ WAsksToReceive PROVE PairMoves
    BY <1>15 DEF WLocks, WAsksToReceive
  <1>16. ASSUME WIsAnswered \/ WLooksForStep PROVE PairMoves
    BY <1>16 DEF WIsAnswered, AfterStep, WLooksForStep, Passes, Recorded
  <1>17. ASSUME WReads \/ WSettlesHold PROVE PairMoves
    BY <1>17 DEF WReads, Passes, WSettlesHold, RoomToSettle
  <1>18. ASSUME WIsPaid \/ WIsUnpaid PROVE PairMoves
    BY <1>18 DEF WIsPaid, HoldIsPaid, WIsUnpaid, Fault, RoomToSettle
  <1>19. ASSUME WPostsSecret \/ WComesBack PROVE PairMoves
    BY <1>19 DEF WPostsSecret, WComesBack, Passes, MakerIsLate, HoldLasts, LetGo
  <1>20. ASSUME WClears \/ WPays PROVE PairMoves
    BY <1>20 DEF WClears, Passes, LeafReady, HoldLasts, WPays
  <1>21. ASSUME WRenewsInvoice \/ WGivesUp PROVE PairMoves
    BY <1>21 DEF WRenewsInvoice, Passes, SeenUnpaid, WGivesUp, Fault, LetGo
  <1>22. ASSUME WHearsFailed \/ WHearsPaid PROVE PairMoves
    BY <1>22 DEF WHearsFailed, Passes, WHearsPaid
  <1>23. ASSUME WHandsOver \/ WSettles PROVE PairMoves
    BY <1>23 DEF WHandsOver, WSettles, Passes
  <1>24. ASSUME PageOpens PROVE PairMoves
    BY <1>24 DEF PageOpens
  <1>25. ASSUME NEW a \in Attempts, DeskCallPays(a) PROVE PairMoves
    BY <1>25 DEF DeskCallPays
  <1>26. ASSUME NEW a \in Attempts, DeskCallFails(a) PROVE PairMoves
    BY <1>26 DEF DeskCallFails, Mine, Fault
  <1>27. ASSUME NEW a \in Attempts, DeskCallReturns(a) PROVE PairMoves
    BY <1>27 DEF DeskCallReturns, Mine
  <1>28. ASSUME UNCHANGED vars PROVE PairMoves
    BY <1>28 DEF vars
  <1> HIDE DEF TradeInv, TradeParts, DeskFollows, WalletFollows, Times, GiverInv,
           SecretParts, SecretIsPaid, Prompt, Need, Held, Sell, Buy, InTime, Cleared,
           PairMoves, OpMoves, BtcMoves, TypeOK, worldVars, deskVars, walletVars
  <1> QED
    BY <1>1, <1>2, <1>3, <1>4, <1>5, <1>6, <1>7, <1>8, <1>9, <1>10, <1>11, <1>12, <1>13,
       <1>14, <1>15, <1>16, <1>17, <1>18, <1>19, <1>20, <1>21, <1>22, <1>23, <1>24, <1>25,
       <1>26, <1>27, <1>28
       DEF Next, World, Desk, Wallet

LegFront == CASE btc = "flight" -> "out" [] btc = "complete" -> "paid"
              [] btc = "failed" -> "back" [] OTHER -> "none"
LegRecoup == CASE Held -> "secured" [] op = "claimed" -> "taken"
               [] op = "returned" -> "released" [] OTHER -> "none"

LEMMA FrontCases ==
    ASSUME TypeOK
    PROVE  /\ LegFront = "none" <=> btc = "none"
           /\ LegFront = "out" <=> btc = "flight"
           /\ LegFront = "paid" <=> btc = "complete"
           /\ LegFront = "back" <=> btc = "failed"
  BY DEF TypeOK, LegFront

LEMMA RecoupCases ==
    ASSUME TypeOK
    PROVE  /\ LegRecoup = "none" <=> op \in {"none", "waiting"}
           /\ LegRecoup = "secured" <=> Held
           /\ LegRecoup = "taken" <=> op = "claimed"
           /\ LegRecoup = "released" <=> op = "returned"
  BY DEF TypeOK, OpStates, Held, LegRecoup

LEMMA StepRefines ==
    ASSUME TypeOK, TypeOK', PairMoves PROVE [Leg!Next]_(Leg!legVars)
  <1>1. /\ UNCHANGED btc => LegFront' = LegFront
        /\ UNCHANGED op => LegRecoup' = LegRecoup
    BY DEF LegFront, LegRecoup, Held
  <1>2. /\ LegFront' = "out" <=> btc' = "flight"
        /\ LegFront' = "paid" <=> btc' = "complete"
        /\ LegFront' = "back" <=> btc' = "failed"
        /\ LegRecoup' = "none" <=> op' \in {"none", "waiting"}
        /\ LegRecoup' = "secured" <=> Held'
        /\ LegRecoup' = "taken" <=> op' = "claimed"
        /\ LegRecoup' = "released" <=> op' = "returned"
    BY DEF TypeOK, OpStates, Held, LegFront, LegRecoup
  <1> QED
    BY <1>1, <1>2, FrontCases, RecoupCases
       DEF PairMoves, OpMoves, BtcMoves, Held, LegFront, LegRecoup, Leg!Next, Leg!legVars,
           Leg!Secure, Leg!Front, Leg!Pay, Leg!GetBack, Leg!Take, Leg!Release

\* Whoever pays the BTC fronts it against the asset held for it, and has the asset
\* released only when the payment never left or came back.
THEOREM Implements == ASSUME Prompt PROVE Spec => ImplementsFrontedLeg
  <1>1. Init => Leg!Init
    BY DEF Init, Leg!Init, Held
  <1>2. TradeInv /\ [Next]_vars => [Leg!Next]_(Leg!legVars)
    <2>1. TradeInv /\ [Next]_vars => TypeOK /\ TypeOK' /\ PairMoves
      BY TypeStep, LegMoves DEF TradeInv, GiverInv
    <2> QED BY <2>1, StepRefines
  <1> QED BY TradeAlways, <1>1, <1>2, PTL DEF Spec, ImplementsFrontedLeg, Leg!Spec
=============================================================================
