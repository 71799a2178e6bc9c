------------------------- MODULE ForwardSwapProofs -------------------------
(***************************************************************************)
(* Proofs about ForwardSwap, for every value of its constants.             *)
(*                                                                         *)
(* The taker's safety (TakerInv) needs the gates to read their tips        *)
(* (~LossyTips); the maker's and the refinement of AtomicSwap (MakerInv)   *)
(* also need SeqFirst and ~LossyClaim; that what is locked is on record    *)
(* needs the switches of the two records.                                  *)
(***************************************************************************)
EXTENDS ForwardSwap, TLAPS

(* ---- Type correctness -------------------------------------------------- *)

LEMMA InitType == Init => TypeOK
  <1> SUFFICES ASSUME Init PROVE TypeOK
    OBVIOUS
  <1>1. rec \in [state : RecStates, leg : Outpoints, mined : BOOLEAN]
    BY DEF Init, NoRec, RecStates, Outpoints
  <1>2. anchored \in BOOLEAN /\ revealed \in BOOLEAN /\ watch \in BOOLEAN
    BY Zenon DEF Init
  <1> QED
    BY <1>1, <1>2 DEF Init, TypeOK, LegStates, TakerPcs, MakerPcs, MakerRecs

LEMMA ChainsType == TypeOK /\ Chains => TypeOK'
  <1> SUFFICES ASSUME TypeOK, Chains PROVE TypeOK'
    OBVIOUS
  <1> USE DEF TypeOK, takerVars, makerVars, gateVars, LegStates, Spends
  <1>1. CASE MineBtc
    BY <1>1 DEF MineBtc
  <1>2. CASE MineSeq
    BY <1>2 DEF MineSeq
  <1>3. CASE ConfirmBtcFund
    BY <1>3 DEF ConfirmBtcFund
  <1>4. CASE ConfirmSeqFund
    BY <1>4 DEF ConfirmSeqFund
  <1>5. CASE ConfirmBtcSpend
    BY <1>5 DEF ConfirmBtcSpend, Spent
  <1>6. CASE ConfirmSeqSpend
    BY <1>6 DEF ConfirmSeqSpend, Spent
  <1> QED
    BY <1>1, <1>2, <1>3, <1>4, <1>5, <1>6 DEF Chains

LEMMA TakerType == TypeOK /\ Taker => TypeOK'
  <1> SUFFICES ASSUME TypeOK, Taker PROVE TypeOK'
    OBVIOUS
  <1> USE DEF TypeOK, chainVars, gateVars, makerVars, TakerPcs, Frames
  <1>1. CASE TakerOpens
    BY <1>1 DEF TakerOpens
  <1>2. CASE TakerAcceptsTerms
    BY <1>2 DEF TakerAcceptsTerms
  <1>3. CASE TakerLeavesBeforeLock
    BY <1>3 DEF TakerLeavesBeforeLock
  <1>4. CASE TakerPersistsStub
    BY <1>4 DEF TakerPersistsStub, RecStates, Outpoints
  <1>5. CASE TakerPostsFunding
    BY <1>5 DEF TakerPostsFunding, LegStates
  <1>6. CASE TakerRecordsOutpoint
    BY <1>6 DEF TakerRecordsOutpoint, Outpoints
  <1>7. CASE TakerAnnounces
    BY <1>7 DEF TakerAnnounces
  <1>8. CASE TakerLosesSession
    BY <1>8 DEF TakerLosesSession
  <1>9. CASE TakerGetsSeqLeg
    BY <1>9 DEF TakerGetsSeqLeg, RecStates
  <1>10. CASE TakerGatePasses
    BY <1>10 DEF TakerGatePasses
  <1>11. CASE TakerGateGivesUp
    BY <1>11 DEF TakerGateGivesUp
  <1>12. CASE TakerBroadcastsClaim
    BY <1>12 DEF TakerBroadcastsClaim, Spends
  <1>13. CASE TakerRecordsClaim
    BY <1>13 DEF TakerRecordsClaim, RecStates
  <1>14. CASE TakerFault
    <2>1. watch' \in BOOLEAN
      BY <1>14, Zenon DEF TakerFault
    <2> QED
      BY <1>14, <2>1 DEF TakerFault
  <1>15. CASE TakerReloads
    BY <1>15 DEF TakerReloads
  <1>16. CASE TakerResumesClaim
    BY <1>16 DEF TakerResumesClaim
  <1>17. CASE TakerResumesFunding
    <2>1. watch' \in BOOLEAN
      BY <1>17, Zenon DEF TakerResumesFunding
    <2>2. rec' \in {rec, [rec EXCEPT !.leg = "vout", !.mined = TRUE],
                    [rec EXCEPT !.leg = "txid"], NoRec}
      BY <1>17, Zenon DEF TakerResumesFunding
    <2>3. rec' \in [state : RecStates, leg : Outpoints, mined : BOOLEAN]
      <3>1. CASE rec' = rec
        BY <3>1
      <3>2. CASE rec' = [rec EXCEPT !.leg = "vout", !.mined = TRUE]
        BY <3>2 DEF Outpoints
      <3>3. CASE rec' = [rec EXCEPT !.leg = "txid"]
        BY <3>3 DEF Outpoints
      <3>4. CASE rec' = NoRec
        BY <3>4 DEF NoRec, RecStates, Outpoints
      <3> QED
        BY <2>2, <3>1, <3>2, <3>3, <3>4
    <2> QED
      BY <1>17, <2>1, <2>3 DEF TakerResumesFunding
  <1>18. CASE TakerFindsStrandedLeg
    BY <1>18 DEF TakerFindsStrandedLeg, RecStates
  <1>19. CASE TakerWatcherSeesBlock
    BY <1>19 DEF TakerWatcherSeesBlock, Outpoints
  <1>20. CASE TakerRefunds
    BY <1>20 DEF TakerRefunds, BtcRefundAccepted, Spends, RecStates
  <1>21. CASE TakerParks
    BY <1>21 DEF TakerParks, NoRec, RecStates, Outpoints
  <1>22. CASE TakerSweeps
    BY <1>22 DEF TakerSweeps, BtcRefundAccepted, Spends
  <1>23. CASE TakerAbandons
    BY <1>23 DEF TakerAbandons, NoRec, RecStates, Outpoints
  <1> QED
    BY <1>1, <1>2, <1>3, <1>4, <1>5, <1>6, <1>7, <1>8, <1>9, <1>10, <1>11, <1>12, <1>13, <1>14, <1>15, <1>16, <1>17, <1>18, <1>19, <1>20, <1>21, <1>22, <1>23
       DEF Taker

LEMMA MakerType == TypeOK /\ Maker => TypeOK'
  <1> SUFFICES ASSUME TypeOK, Maker PROVE TypeOK'
    OBVIOUS
  <1> USE DEF TypeOK, chainVars, gateVars, takerVars, MakerPcs, MakerRecs, Frames
  <1>1. CASE MakerSendsTerms
    BY <1>1 DEF MakerSendsTerms
  <1>2. CASE MakerGetsBtcLeg
    BY <1>2 DEF MakerGetsBtcLeg
  <1>3. CASE MakerGivesUp
    BY <1>3 DEF MakerGivesUp
  <1>4. CASE MakerVerifiesBtc
    BY <1>4 DEF MakerVerifiesBtc
  <1>5. CASE MakerAnchorCatchesUp
    BY <1>5 DEF MakerAnchorCatchesUp
  <1>6. CASE MakerDeclinesToFund
    BY <1>6 DEF MakerDeclinesToFund
  <1>7. CASE MakerRechecks
    BY <1>7 DEF MakerRechecks
  <1>8. CASE MakerFundsAsset
    BY <1>8 DEF MakerFundsAsset, LegStates
  <1>9. CASE MakerSeesAssetMined
    BY <1>9 DEF MakerSeesAssetMined
  <1>10. CASE MakerLearnsSecret
    BY <1>10 DEF MakerLearnsSecret
  <1>11. CASE MakerClaimsBtc
    BY <1>11 DEF MakerClaimsBtc, Spends
  <1>12. CASE MakerTurnsToRefund
    BY <1>12 DEF MakerTurnsToRefund
  <1>13. CASE MakerRefundsAsset
    BY <1>13 DEF MakerRefundsAsset, Spends
  <1>14. CASE MakerDropsSettled
    BY <1>14 DEF MakerDropsSettled
  <1>15. CASE MakerFault
    BY <1>15 DEF MakerFault
  <1>16. CASE MakerReloads
    BY <1>16 DEF MakerReloads
  <1> QED
    BY <1>1, <1>2, <1>3, <1>4, <1>5, <1>6, <1>7, <1>8, <1>9, <1>10, <1>11, <1>12, <1>13, <1>14, <1>15, <1>16
       DEF Maker

LEMMA TypeStep == TypeOK /\ [Next]_vars => TypeOK'
  <1>1. TypeOK /\ UNCHANGED vars => TypeOK'
    BY DEF TypeOK, vars, chainVars, gateVars, takerVars, makerVars
  <1> QED
    BY <1>1, ChainsType, TakerType, MakerType DEF Next

\* Every variable of the swap stays in its range.
THEOREM TypeCorrect == Spec => []TypeOK
  BY InitType, TypeStep, PTL DEF Spec

(* ---- The taker's safety ------------------------------------------------ *)

\* The maker's pcs before it funds the asset leg.
BeforeFunding == {"idle", "waitBtc", "verify", "anchor", "recheck", "fund"}

\* The asset leg is funded once, and only a mined leg has spends in flight.
FundedOnce ==
    /\ mk \in BeforeFunding => seqLeg = "none"
    /\ seqLeg # "mined" => seqPend = {}

\* A claim on its way was gated a margin before T_seq and has not aged.
ClaimInTime ==
    ClaimInFlight => /\ claimAt + SeqRefundMargin < TSeq
                     /\ seqTip <= claimAt + Inclusion

\* The asset goes back only from T_seq on.
AssetRefundIsLate ==
    (mk \in {"refund", "refundSent"} \/ "refund" \in seqPend \/ seqLeg = "refunded")
        => seqTip >= TSeq

\* The secret is public exactly from the taker's claim on.
SecretIsTheClaim ==
    revealed <=> (seqLeg = "claimed" \/ "claim" \in seqPend)

\* The maker takes the BTC with the secret.
CoinsNeedSecret ==
    (mk \in {"claim", "claimSent"} \/ "claim" \in btcPend \/ btcLeg = "claimed")
        => revealed

TakerInv == /\ TypeOK /\ FundedOnce /\ ClaimInTime
            /\ AssetRefundIsLate /\ SecretIsTheClaim /\ CoinsNeedSecret

(* ---- TakerInv is inductive --------------------------------------------- *)

LEMMA InitTakerInv == Init => TakerInv
  BY InitType DEF Init, TakerInv, FundedOnce, ClaimInTime, ClaimInFlight,
     AssetRefundIsLate, SecretIsTheClaim, CoinsNeedSecret

TakerParts == FundedOnce /\ ClaimInTime /\ AssetRefundIsLate
              /\ SecretIsTheClaim /\ CoinsNeedSecret

LEMMA ChainsTakerInv == TakerInv /\ Chains => TakerParts'
  <1> SUFFICES ASSUME TakerInv, Chains PROVE TakerParts'
    OBVIOUS
  <1> USE DEF TakerInv, TakerParts, FundedOnce, ClaimInTime, ClaimInFlight, AssetRefundIsLate,
             SecretIsTheClaim, CoinsNeedSecret,
             TypeOK, BeforeFunding, gateVars, takerVars, makerVars
  <1>1. CASE MineBtc
    BY <1>1 DEF MineBtc
  <1>2. CASE MineSeq
    BY <1>2, HeightsAssumption, InclusionAssumption DEF MineSeq
  <1>3. CASE ConfirmBtcFund
    BY <1>3 DEF ConfirmBtcFund
  <1>4. CASE ConfirmSeqFund
    BY <1>4 DEF ConfirmSeqFund
  <1>5. CASE ConfirmBtcSpend
    BY <1>5 DEF ConfirmBtcSpend, Spent, Spends
  <1>6. CASE ConfirmSeqSpend
    BY <1>6, HeightsAssumption, InclusionAssumption DEF ConfirmSeqSpend, Spent, Spends
  <1> QED
    BY <1>1, <1>2, <1>3, <1>4, <1>5, <1>6
       DEF Chains

LEMMA TakerTakerInv ==
    ASSUME ~LossyTips, TakerInv, Taker
    PROVE  TakerParts'
  <1> USE DEF TakerInv, TakerParts, FundedOnce, ClaimInTime, ClaimInFlight, AssetRefundIsLate,
             SecretIsTheClaim, CoinsNeedSecret,
             TypeOK, BeforeFunding, chainVars, gateVars, makerVars
  <1>1. CASE TakerOpens
    BY <1>1 DEF TakerOpens
  <1>2. CASE TakerAcceptsTerms
    BY <1>2 DEF TakerAcceptsTerms
  <1>3. CASE TakerLeavesBeforeLock
    BY <1>3 DEF TakerLeavesBeforeLock
  <1>4. CASE TakerPersistsStub
    BY <1>4 DEF TakerPersistsStub
  <1>5. CASE TakerPostsFunding
    BY <1>5 DEF TakerPostsFunding
  <1>6. CASE TakerRecordsOutpoint
    BY <1>6 DEF TakerRecordsOutpoint
  <1>7. CASE TakerAnnounces
    BY <1>7 DEF TakerAnnounces
  <1>8. CASE TakerLosesSession
    BY <1>8 DEF TakerLosesSession
  <1>9. CASE TakerGetsSeqLeg
    BY <1>9 DEF TakerGetsSeqLeg
  <1>10. CASE TakerGatePasses
    BY <1>10, HeightsAssumption, InclusionAssumption DEF TakerGatePasses, TipReads, NearSeqRefund
  <1>11. CASE TakerGateGivesUp
    BY <1>11 DEF TakerGateGivesUp
  <1>12. CASE TakerBroadcastsClaim
    BY <1>12, HeightsAssumption, InclusionAssumption DEF TakerBroadcastsClaim
  <1>13. CASE TakerRecordsClaim
    BY <1>13 DEF TakerRecordsClaim
  <1>14. CASE TakerFault
    BY <1>14 DEF TakerFault
  <1>15. CASE TakerReloads
    BY <1>15 DEF TakerReloads
  <1>16. CASE TakerResumesClaim
    BY <1>16 DEF TakerResumesClaim
  <1>17. CASE TakerResumesFunding
    BY <1>17 DEF TakerResumesFunding
  <1>18. CASE TakerFindsStrandedLeg
    BY <1>18 DEF TakerFindsStrandedLeg
  <1>19. CASE TakerWatcherSeesBlock
    BY <1>19 DEF TakerWatcherSeesBlock
  <1>20. CASE TakerRefunds
    BY <1>20 DEF TakerRefunds, BtcRefundAccepted
  <1>21. CASE TakerParks
    BY <1>21 DEF TakerParks
  <1>22. CASE TakerSweeps
    BY <1>22 DEF TakerSweeps, BtcRefundAccepted
  <1>23. CASE TakerAbandons
    BY <1>23 DEF TakerAbandons
  <1> QED
    BY <1>1, <1>2, <1>3, <1>4, <1>5, <1>6, <1>7, <1>8, <1>9, <1>10, <1>11, <1>12, <1>13, <1>14, <1>15, <1>16, <1>17, <1>18, <1>19, <1>20, <1>21, <1>22, <1>23
       DEF Taker

LEMMA MakerTakerInv == TakerInv /\ Maker => TakerParts'
  <1> SUFFICES ASSUME TakerInv, Maker PROVE TakerParts'
    OBVIOUS
  <1> USE DEF TakerInv, TakerParts, FundedOnce, ClaimInTime, ClaimInFlight, AssetRefundIsLate,
             SecretIsTheClaim, CoinsNeedSecret,
             TypeOK, BeforeFunding, chainVars, gateVars, takerVars, MakerLive
  <1>1. CASE MakerSendsTerms
    BY <1>1 DEF MakerSendsTerms
  <1>2. CASE MakerGetsBtcLeg
    BY <1>2 DEF MakerGetsBtcLeg
  <1>3. CASE MakerGivesUp
    BY <1>3 DEF MakerGivesUp
  <1>4. CASE MakerVerifiesBtc
    BY <1>4 DEF MakerVerifiesBtc
  <1>5. CASE MakerAnchorCatchesUp
    BY <1>5 DEF MakerAnchorCatchesUp
  <1>6. CASE MakerDeclinesToFund
    BY <1>6 DEF MakerDeclinesToFund
  <1>7. CASE MakerRechecks
    BY <1>7 DEF MakerRechecks
  <1>8. CASE MakerFundsAsset
    BY <1>8 DEF MakerFundsAsset
  <1>9. CASE MakerSeesAssetMined
    BY <1>9 DEF MakerSeesAssetMined
  <1>10. CASE MakerLearnsSecret
    BY <1>10 DEF MakerLearnsSecret, PreimageOnChain
  <1>11. CASE MakerClaimsBtc
    BY <1>11 DEF MakerClaimsBtc
  <1>12. CASE MakerTurnsToRefund
    BY <1>12 DEF MakerTurnsToRefund
  <1>13. CASE MakerRefundsAsset
    BY <1>13 DEF MakerRefundsAsset
  <1>14. CASE MakerDropsSettled
    BY <1>14 DEF MakerDropsSettled
  <1>15. CASE MakerFault
    BY <1>15 DEF MakerFault
  <1>16. CASE MakerReloads
    BY <1>16 DEF MakerReloads
  <1> QED
    BY <1>1, <1>2, <1>3, <1>4, <1>5, <1>6, <1>7, <1>8, <1>9, <1>10, <1>11, <1>12, <1>13, <1>14, <1>15, <1>16
       DEF Maker

LEMMA StepTakerInv ==
    ASSUME ~LossyTips
    PROVE  TakerInv /\ [Next]_vars => TakerInv'
  <1>1. TakerInv /\ UNCHANGED vars => TakerInv'
    BY DEF TakerInv, TypeOK, FundedOnce, ClaimInTime, ClaimInFlight, BeforeFunding,
           AssetRefundIsLate, SecretIsTheClaim, CoinsNeedSecret,
           vars, chainVars, gateVars, takerVars, makerVars
  <1>2. TakerInv /\ Next => TypeOK'
    BY ChainsType, TakerType, MakerType DEF Next, TakerInv
  <1>3. TakerInv /\ Next => TakerParts'
    BY ChainsTakerInv, TakerTakerInv, MakerTakerInv DEF Next
  <1> QED
    BY <1>1, <1>2, <1>3 DEF TakerInv, TakerParts

LEMMA TakerInvariant ==
    ASSUME ~LossyTips
    PROVE  Spec => []TakerInv
  BY InitTakerInv, StepTakerInv, PTL DEF Spec

\* The taker never pays for an asset leg the maker took back.
THEOREM TakerSafe ==
    ASSUME ~LossyTips
    PROVE  Spec => []TakerNeverPaysForNothing
  <1>1. TakerInv => TakerNeverPaysForNothing
    BY HeightsAssumption, InclusionAssumption
       DEF TakerInv, TakerNeverPaysForNothing, CoinsNeedSecret, SecretIsTheClaim,
           FundedOnce, LegStates, TypeOK
  <1> QED
    BY <1>1, TakerInvariant, PTL

(* ---- The maker's safety ------------------------------------------------ *)

\* Before the funding is posted there is no record and no BTC leg.
NothingBeforeLock ==
    /\ tk \in {"fresh", "terms", "confirm"} => rec.state = "none" /\ parked = "no"
    /\ tk \in {"fresh", "terms", "confirm", "posting"} => btcLeg = "none"

\* Sequentia's deadline comes first, and the BTC goes back only after its own.
BtcRefundIsLate ==
    /\ btcTip >= TBtc => seqTip >= TSeq
    /\ ("refund" \in btcPend \/ btcLeg = "refunded") => btcTip >= TBtc

\* A parked swap has left the live slot; a gated one is not parked.
ParkedIsInert ==
    /\ parked = "yes" =>
          rec.state = "none" /\ tk \notin {"fresh", "terms", "confirm"}
    /\ tk \in {"gate", "claiming", "acked"} => rec.state # "pending"
    /\ tk \in {"claiming", "acked"} => parked # "yes"

\* Once the secret is out the taker has no way left to refund.
NoRefundAfterSecret ==
    revealed =>
        /\ tk \in {"acked", "idle", "off"}
        /\ parked # "yes"
        /\ tk # "acked" => rec.state \notin {"pending", "seq_locked"}
        /\ btcLeg # "refunded" /\ "refund" \notin btcPend

\* The asset leg meets a confirmed BTC leg, in time for the BTC refund.
FundedAgainstCoins ==
    /\ mk \in {"anchor", "recheck", "fund"} => btcLeg \in Confirmed
    /\ seqLeg # "none" => btcLeg \in Confirmed
    /\ mk = "fund" => lockAt + ClaimWindow < TSeq /\ seqTip <= lockAt + Inclusion

MakerInv == /\ TakerInv /\ NothingBeforeLock /\ BtcRefundIsLate
            /\ ParkedIsInert /\ NoRefundAfterSecret /\ FundedAgainstCoins

(* ---- MakerInv is inductive, when T_seq is reached first and no fault hits  *)
(* ---- the await of the claim's broadcast ---------------------------------- *)

MakerParts == NothingBeforeLock /\ BtcRefundIsLate /\ ParkedIsInert
              /\ NoRefundAfterSecret /\ FundedAgainstCoins

LEMMA InitMakerInv == Init => MakerInv
  BY InitTakerInv, HeightsAssumption
     DEF Init, NoRec, MakerInv, NothingBeforeLock, BtcRefundIsLate, ParkedIsInert,
         NoRefundAfterSecret, FundedAgainstCoins

LEMMA ChainsMakerInv ==
    ASSUME SeqFirst, ~LossyClaim, ~LossyTips, MakerInv, Chains
    PROVE  MakerParts'
  <1> USE DEF MakerInv, MakerParts, TakerInv, TypeOK,
             NothingBeforeLock, BtcRefundIsLate, ParkedIsInert, NoRefundAfterSecret,
             FundedAgainstCoins, FundedOnce, ClaimInTime, ClaimInFlight,
             AssetRefundIsLate, SecretIsTheClaim, CoinsNeedSecret,
             BeforeFunding, LegStates, Spends, Confirmed, gateVars, takerVars, makerVars
  <1>1. CASE MineBtc
    BY <1>1, HeightsAssumption, InclusionAssumption DEF MineBtc
  <1>2. CASE MineSeq
    BY <1>2, HeightsAssumption, InclusionAssumption DEF MineSeq
  <1>3. CASE ConfirmBtcFund
    BY <1>3 DEF ConfirmBtcFund
  <1>4. CASE ConfirmSeqFund
    BY <1>4 DEF ConfirmSeqFund
  <1>5. CASE ConfirmBtcSpend
    BY <1>5, HeightsAssumption, InclusionAssumption DEF ConfirmBtcSpend, Spent
  <1>6. CASE ConfirmSeqSpend
    BY <1>6, HeightsAssumption, InclusionAssumption DEF ConfirmSeqSpend, Spent
  <1> QED
    BY <1>1, <1>2, <1>3, <1>4, <1>5, <1>6
       DEF Chains

LEMMA TakerMakerInv ==
    ASSUME SeqFirst, ~LossyClaim, ~LossyTips, MakerInv, Taker
    PROVE  MakerParts'
  <1> USE DEF MakerInv, MakerParts, TakerInv, TypeOK,
             NothingBeforeLock, BtcRefundIsLate, ParkedIsInert, NoRefundAfterSecret,
             FundedAgainstCoins, FundedOnce, ClaimInTime, ClaimInFlight,
             AssetRefundIsLate, SecretIsTheClaim, CoinsNeedSecret,
             BeforeFunding, LegStates, Spends, Confirmed, chainVars, gateVars, makerVars, TakerPcs,
             PageOpen, NoRec
  <1>1. CASE TakerOpens
    BY <1>1 DEF TakerOpens
  <1>2. CASE TakerAcceptsTerms
    BY <1>2 DEF TakerAcceptsTerms
  <1>3. CASE TakerLeavesBeforeLock
    BY <1>3 DEF TakerLeavesBeforeLock
  <1>4. CASE TakerPersistsStub
    BY <1>4 DEF TakerPersistsStub
  <1>5. CASE TakerPostsFunding
    BY <1>5 DEF TakerPostsFunding
  <1>6. CASE TakerRecordsOutpoint
    BY <1>6 DEF TakerRecordsOutpoint
  <1>7. CASE TakerAnnounces
    BY <1>7 DEF TakerAnnounces
  <1>8. CASE TakerLosesSession
    BY <1>8 DEF TakerLosesSession
  <1>9. CASE TakerGetsSeqLeg
    BY <1>9 DEF TakerGetsSeqLeg
  <1>10. CASE TakerGatePasses
    BY <1>10, HeightsAssumption, InclusionAssumption DEF TakerGatePasses, TipReads, NearSeqRefund
  <1>11. CASE TakerGateGivesUp
    BY <1>11 DEF TakerGateGivesUp
  <1>12. CASE TakerBroadcastsClaim
    BY <1>12, HeightsAssumption, InclusionAssumption DEF TakerBroadcastsClaim
  <1>13. CASE TakerRecordsClaim
    BY <1>13 DEF TakerRecordsClaim
  <1>14. CASE TakerFault
    BY <1>14 DEF TakerFault
  <1>15. CASE TakerReloads
    BY <1>15 DEF TakerReloads
  <1>16. CASE TakerResumesClaim
    BY <1>16 DEF TakerResumesClaim
  <1>17. CASE TakerResumesFunding
    BY <1>17 DEF TakerResumesFunding, ResumeAllowed
  <1>18. CASE TakerFindsStrandedLeg
    BY <1>18 DEF TakerFindsStrandedLeg
  <1>19. CASE TakerWatcherSeesBlock
    BY <1>19 DEF TakerWatcherSeesBlock
  <1>20. CASE TakerRefunds
    BY <1>20, HeightsAssumption, InclusionAssumption DEF TakerRefunds, BtcRefundAccepted, RefundOffered
  <1>21. CASE TakerParks
    BY <1>21 DEF TakerParks, ParkEligible
  <1>22. CASE TakerSweeps
    BY <1>22, HeightsAssumption, InclusionAssumption DEF TakerSweeps, BtcRefundAccepted
  <1>23. CASE TakerAbandons
    BY <1>23 DEF TakerAbandons, ClearAllowed
  <1> QED
    BY <1>1, <1>2, <1>3, <1>4, <1>5, <1>6, <1>7, <1>8, <1>9, <1>10, <1>11, <1>12, <1>13, <1>14, <1>15, <1>16, <1>17, <1>18, <1>19, <1>20, <1>21, <1>22, <1>23
       DEF Taker

LEMMA MakerMakerInv ==
    ASSUME SeqFirst, ~LossyClaim, ~LossyTips, MakerInv, Maker
    PROVE  MakerParts'
  <1> USE DEF MakerInv, MakerParts, TakerInv, TypeOK,
             NothingBeforeLock, BtcRefundIsLate, ParkedIsInert, NoRefundAfterSecret,
             FundedAgainstCoins, FundedOnce, ClaimInTime, ClaimInFlight,
             AssetRefundIsLate, SecretIsTheClaim, CoinsNeedSecret,
             BeforeFunding, LegStates, Spends, Confirmed, chainVars, gateVars, takerVars, MakerLive
  <1>1. CASE MakerSendsTerms
    BY <1>1 DEF MakerSendsTerms
  <1>2. CASE MakerGetsBtcLeg
    BY <1>2 DEF MakerGetsBtcLeg
  <1>3. CASE MakerGivesUp
    BY <1>3 DEF MakerGivesUp
  <1>4. CASE MakerVerifiesBtc
    BY <1>4 DEF MakerVerifiesBtc
  <1>5. CASE MakerAnchorCatchesUp
    BY <1>5 DEF MakerAnchorCatchesUp
  <1>6. CASE MakerDeclinesToFund
    BY <1>6 DEF MakerDeclinesToFund
  <1>7. CASE MakerRechecks
    BY <1>7, HeightsAssumption, InclusionAssumption DEF MakerRechecks, TipReads, FundWindowClosed
  <1>8. CASE MakerFundsAsset
    BY <1>8, HeightsAssumption, InclusionAssumption DEF MakerFundsAsset
  <1>9. CASE MakerSeesAssetMined
    BY <1>9 DEF MakerSeesAssetMined
  <1>10. CASE MakerLearnsSecret
    BY <1>10 DEF MakerLearnsSecret, PreimageOnChain
  <1>11. CASE MakerClaimsBtc
    BY <1>11 DEF MakerClaimsBtc
  <1>12. CASE MakerTurnsToRefund
    BY <1>12 DEF MakerTurnsToRefund
  <1>13. CASE MakerRefundsAsset
    BY <1>13 DEF MakerRefundsAsset
  <1>14. CASE MakerDropsSettled
    BY <1>14 DEF MakerDropsSettled
  <1>15. CASE MakerFault
    BY <1>15 DEF MakerFault
  <1>16. CASE MakerReloads
    BY <1>16 DEF MakerReloads
  <1> QED
    BY <1>1, <1>2, <1>3, <1>4, <1>5, <1>6, <1>7, <1>8, <1>9, <1>10, <1>11, <1>12, <1>13, <1>14, <1>15, <1>16
       DEF Maker

LEMMA StepMakerInv ==
    ASSUME SeqFirst, ~LossyClaim, ~LossyTips
    PROVE  MakerInv /\ [Next]_vars => MakerInv'
  <1>1. MakerInv /\ UNCHANGED vars => MakerParts'
    BY DEF MakerInv, MakerParts, NothingBeforeLock, BtcRefundIsLate, ParkedIsInert,
           NoRefundAfterSecret, FundedAgainstCoins,
           vars, chainVars, gateVars, takerVars, makerVars
  <1>2. MakerInv /\ Next => MakerParts'
    BY ChainsMakerInv, TakerMakerInv, MakerMakerInv DEF Next
  <1>3. MakerInv /\ [Next]_vars => TakerInv'
    BY StepTakerInv DEF MakerInv
  <1> QED
    BY <1>1, <1>2, <1>3 DEF MakerInv, MakerParts

LEMMA MakerInvariant ==
    ASSUME SeqFirst, ~LossyClaim, ~LossyTips
    PROVE  Spec => []MakerInv
  BY InitMakerInv, StepMakerInv, PTL DEF Spec

\* The maker never delivers against a BTC leg the taker took back.
THEOREM MakerSafe ==
    ASSUME SeqFirst, ~LossyClaim, ~LossyTips
    PROVE  Spec => []MakerNeverDeliversForNothing
  <1>1. MakerInv => MakerNeverDeliversForNothing
    BY DEF MakerInv, TakerInv, MakerNeverDeliversForNothing, NoRefundAfterSecret,
           SecretIsTheClaim
  <1> QED
    BY <1>1, MakerInvariant, PTL

(* ---- The refinement of AtomicSwap ---------------------------------------- *)

\* The leg states as the abstract swap sees them, one fact per state.
LEMMA Places ==
    /\ Place("none") = "held" /\ Place("mempool") = "locked"
    /\ Place("mined") = "locked" /\ Place("claimed") = "paid"
    /\ Place("refunded") = "returned"
  BY DEF Place

LEMMA InitRefines == Init => Swap!Init
  BY Places DEF Init, Swap!Init

\* A step that leaves both legs and the secret alone is a stutter.
LEMMA Stutters ==
    UNCHANGED <<btcLeg, seqLeg, revealed>> => UNCHANGED Swap!swapVars
  BY DEF Swap!swapVars

LEMMA StepRefines ==
    ASSUME SeqFirst, ~LossyClaim, ~LossyTips, MakerInv, Next
    PROVE  [Swap!Next]_(Swap!swapVars)
  <1> USE DEF MakerInv, TakerInv, TypeOK
  <1>1. CASE ConfirmBtcFund
    BY <1>1, Places DEF ConfirmBtcFund, gateVars, Swap!swapVars
  <1>2. CASE ConfirmSeqFund
    BY <1>2, Places DEF ConfirmSeqFund, gateVars, Swap!swapVars
  <1>3. CASE ConfirmBtcSpend
    <2>1. CASE btcLeg' = "claimed"
      BY <1>3, <2>1, Places
         DEF ConfirmBtcSpend, Spent, gateVars, CoinsNeedSecret, Swap!Next, Swap!TakeCoins
    <2>2. CASE btcLeg' = "refunded"
      BY <1>3, <2>2, Places
         DEF ConfirmBtcSpend, Spent, Spends, gateVars, NoRefundAfterSecret,
             Swap!Next, Swap!ReturnCoins
    <2> QED
      BY <1>3, <2>1, <2>2 DEF ConfirmBtcSpend, Spent
  <1>4. CASE ConfirmSeqSpend
    <2>1. CASE seqLeg' = "claimed"
      BY <1>4, <2>1, Places
         DEF ConfirmSeqSpend, Spent, Spends, gateVars, SecretIsTheClaim,
             Swap!Next, Swap!TakeGoods
    <2>2. CASE seqLeg' = "refunded"
      <3>1. "refund" \in seqPend /\ seqLeg = "mined"
        BY <1>4, <2>2 DEF ConfirmSeqSpend, Spent, Spends
      <3>2. "claim" \notin seqPend
        BY <3>1, HeightsAssumption, InclusionAssumption
           DEF AssetRefundIsLate, ClaimInTime, ClaimInFlight
      <3>3. ~revealed
        BY <3>1, <3>2 DEF SecretIsTheClaim
      <3> QED
        BY <1>4, <2>2, <3>3, Places
           DEF ConfirmSeqSpend, gateVars, Swap!Next, Swap!ReturnGoods
    <2> QED
      BY <1>4, <2>1, <2>2 DEF ConfirmSeqSpend, Spent
  <1>5. CASE TakerPostsFunding
    BY <1>5, Places, Stutters
       DEF TakerPostsFunding, NothingBeforeLock, gateVars, Swap!Next, Swap!LockCoins
  <1>6. CASE TakerBroadcastsClaim
    <2>1. CASE seqLeg = "mined"
      <3>1. ~revealed
        BY <1>6 DEF TakerBroadcastsClaim, NoRefundAfterSecret
      <3>2. btcLeg = "mined"
        <4>1. btcLeg \in Confirmed /\ btcLeg # "claimed"
          BY <2>1, <3>1 DEF FundedAgainstCoins, CoinsNeedSecret
        <4>2. btcLeg # "refunded"
          BY <1>6, HeightsAssumption, InclusionAssumption
             DEF TakerBroadcastsClaim, ClaimInTime, ClaimInFlight, BtcRefundIsLate
        <4> QED
          BY <4>1, <4>2 DEF Confirmed
      <3> QED
        BY <1>6, <2>1, <3>1, <3>2, Places
           DEF TakerBroadcastsClaim, Swap!Next, Swap!Reveal
    <2>2. CASE seqLeg # "mined"
      BY <1>6, <2>2, Stutters DEF TakerBroadcastsClaim
    <2> QED
      BY <2>1, <2>2
  <1>7. CASE MakerFundsAsset
    <2>1. seqLeg = "none" /\ ~revealed
      BY <1>7 DEF MakerFundsAsset, FundedOnce, BeforeFunding, SecretIsTheClaim
    <2>2. seqTip < TSeq
      BY <1>7, HeightsAssumption, InclusionAssumption DEF MakerFundsAsset, FundedAgainstCoins
    <2>3. btcLeg = "mined"
      BY <1>7, <2>1, <2>2, HeightsAssumption
         DEF MakerFundsAsset, FundedAgainstCoins, Confirmed, CoinsNeedSecret,
             BtcRefundIsLate
    <2> QED
      BY <1>7, <2>1, <2>3, Places
         DEF MakerFundsAsset, gateVars, Swap!Next, Swap!LockGoods
  <1>8. CASE UNCHANGED <<btcLeg, seqLeg, revealed>>
    BY <1>8, Stutters
  <1>9. \/ MineBtc \/ MineSeq \/ Taker \/ Maker
        => \/ TakerPostsFunding \/ TakerBroadcastsClaim \/ MakerFundsAsset
           \/ UNCHANGED <<btcLeg, seqLeg, revealed>>
    BY DEF chainVars, gateVars, BtcRefundAccepted, MineBtc, MineSeq,
           Taker, TakerOpens, TakerAcceptsTerms, TakerLeavesBeforeLock,
           TakerPersistsStub, TakerRecordsOutpoint, TakerAnnounces,
           TakerLosesSession, TakerGetsSeqLeg, TakerGatePasses,
           TakerGateGivesUp, TakerRecordsClaim, TakerFault, TakerReloads,
           TakerResumesClaim, TakerResumesFunding, TakerFindsStrandedLeg,
           TakerWatcherSeesBlock, TakerRefunds, TakerParks, TakerSweeps,
           TakerAbandons, Maker, MakerSendsTerms, MakerGetsBtcLeg,
           MakerGivesUp, MakerVerifiesBtc, MakerAnchorCatchesUp,
           MakerDeclinesToFund, MakerRechecks, MakerSeesAssetMined,
           MakerLearnsSecret, MakerClaimsBtc, MakerTurnsToRefund,
           MakerRefundsAsset, MakerDropsSettled, MakerFault, MakerReloads
  <1> QED
    BY <1>1, <1>2, <1>3, <1>4, <1>5, <1>6, <1>7, <1>8, <1>9 DEF Next, Chains

\* Every step of the two programs is a step of the abstract swap, or none.
THEOREM Implements ==
    ASSUME SeqFirst, ~LossyClaim, ~LossyTips
    PROVE  Spec => ImplementsAtomicSwap
  <1>1. MakerInv /\ [Next]_vars => [Swap!Next]_(Swap!swapVars)
    <2>1. UNCHANGED vars => UNCHANGED <<btcLeg, seqLeg, revealed>>
      BY DEF vars, chainVars, gateVars
    <2> QED
      BY <2>1, StepRefines, Stutters
  <1> QED
    BY InitRefines, MakerInvariant, <1>1, PTL
       DEF Spec, ImplementsAtomicSwap, Swap!Spec

\* The asset is never locked against a BTC leg that is spent or being refunded.
THEOREM AssetMeetsLiveBtc ==
    ASSUME SeqFirst, ~LossyClaim, ~LossyTips
    PROVE  Spec => AssetLockedAgainstLiveBtc
  <1> DEFINE Live == seqLeg = "none" /\ seqLeg' # "none"
                     => btcLeg = "mined" /\ btcPend = {}
  <1>1. ASSUME MakerInv, MakerFundsAsset PROVE btcLeg = "mined" /\ btcPend = {}
    <2> USE DEF MakerInv, TakerInv, TypeOK
    <2>1. ~revealed
      BY <1>1 DEF MakerFundsAsset, FundedOnce, BeforeFunding, SecretIsTheClaim
    <2>2. btcTip < TBtc
      BY <1>1, HeightsAssumption, InclusionAssumption
         DEF MakerFundsAsset, FundedAgainstCoins, BtcRefundIsLate
    <2>3. btcLeg # "refunded" /\ "refund" \notin btcPend
      BY <1>1, <2>2, HeightsAssumption DEF BtcRefundIsLate
    <2> QED
      BY <1>1, <2>1, <2>3
         DEF MakerFundsAsset, FundedAgainstCoins, CoinsNeedSecret, Confirmed, Spends
  <1>2. ASSUME Chains \/ Taker \/ (Maker /\ ~MakerFundsAsset) \/ UNCHANGED vars,
               seqLeg = "none"
        PROVE  seqLeg' = "none"
    BY <1>2 DEF vars, chainVars, Chains, MineBtc, MineSeq, ConfirmBtcFund,
           ConfirmSeqFund, ConfirmBtcSpend, ConfirmSeqSpend, BtcRefundAccepted,
           Taker, TakerOpens, TakerAcceptsTerms, TakerLeavesBeforeLock,
           TakerPersistsStub, TakerPostsFunding, TakerRecordsOutpoint,
           TakerAnnounces, TakerLosesSession, TakerGetsSeqLeg,
           TakerGatePasses, TakerGateGivesUp, TakerBroadcastsClaim,
           TakerRecordsClaim, TakerFault, TakerReloads, TakerResumesClaim,
           TakerResumesFunding, TakerFindsStrandedLeg, TakerWatcherSeesBlock,
           TakerRefunds, TakerParks, TakerSweeps, TakerAbandons, Maker,
           MakerSendsTerms, MakerGetsBtcLeg, MakerGivesUp, MakerVerifiesBtc,
           MakerAnchorCatchesUp, MakerDeclinesToFund, MakerRechecks,
           MakerSeesAssetMined, MakerLearnsSecret, MakerClaimsBtc,
           MakerTurnsToRefund, MakerRefundsAsset, MakerDropsSettled,
           MakerFault, MakerReloads
  <1>3. MakerInv /\ [Next]_vars => Live
    BY <1>1, <1>2 DEF Next, Maker
  <1>4. MakerInv /\ [Next]_vars => [Live]_vars
    BY <1>3
  <1> QED
    BY MakerInvariant, <1>4, PTL DEF Spec, AssetLockedAgainstLiveBtc

(* ---- What stays on disk --------------------------------------------------- *)

\* A finished record ended in a broadcast; an empty one holds no outpoint.
RecordTells ==
    /\ tk \in {"fresh", "terms", "confirm"} => rec.state = "none"
    /\ tk \in {"fresh", "terms", "confirm", "posting"} =>
          /\ rec.state \in {"none", "pending"} /\ rec.leg = "null"
          /\ btcLeg = "none"
    /\ tk = "acked" => revealed
    /\ rec.state = "none" => rec.leg = "null"
    /\ rec.state = "seq_claimed" => revealed
    /\ rec.state = "refunded" =>
          "refund" \in btcPend \/ btcLeg \in {"claimed", "refunded"}

RecordInv == TypeOK /\ RecordTells

LEMMA ChainsRecord == RecordInv /\ Chains => RecordTells'
  <1> SUFFICES ASSUME RecordInv, Chains PROVE RecordTells'
    OBVIOUS
  <1> USE DEF RecordInv, RecordTells, TypeOK, gateVars, takerVars, makerVars
  <1>1. CASE MineBtc
    BY <1>1 DEF MineBtc
  <1>2. CASE MineSeq
    BY <1>2 DEF MineSeq
  <1>3. CASE ConfirmBtcFund
    BY <1>3 DEF ConfirmBtcFund
  <1>4. CASE ConfirmSeqFund
    BY <1>4 DEF ConfirmSeqFund
  <1>5. CASE ConfirmBtcSpend
    BY <1>5 DEF ConfirmBtcSpend, Spent, Spends
  <1>6. CASE ConfirmSeqSpend
    BY <1>6 DEF ConfirmSeqSpend
  <1> QED
    BY <1>1, <1>2, <1>3, <1>4, <1>5, <1>6
       DEF Chains

LEMMA TakerRecord == RecordInv /\ Taker => RecordTells'
  <1> SUFFICES ASSUME RecordInv, Taker PROVE RecordTells'
    OBVIOUS
  <1> USE DEF RecordInv, RecordTells, TypeOK, chainVars, gateVars, makerVars, PageOpen, NoRec
  <1>1. CASE TakerOpens
    BY <1>1 DEF TakerOpens
  <1>2. CASE TakerAcceptsTerms
    BY <1>2 DEF TakerAcceptsTerms
  <1>3. CASE TakerLeavesBeforeLock
    BY <1>3 DEF TakerLeavesBeforeLock
  <1>4. CASE TakerPersistsStub
    BY <1>4 DEF TakerPersistsStub
  <1>5. CASE TakerPostsFunding
    BY <1>5 DEF TakerPostsFunding
  <1>6. CASE TakerRecordsOutpoint
    BY <1>6 DEF TakerRecordsOutpoint
  <1>7. CASE TakerAnnounces
    BY <1>7 DEF TakerAnnounces
  <1>8. CASE TakerLosesSession
    BY <1>8 DEF TakerLosesSession
  <1>9. CASE TakerGetsSeqLeg
    BY <1>9 DEF TakerGetsSeqLeg
  <1>10. CASE TakerGatePasses
    BY <1>10 DEF TakerGatePasses
  <1>11. CASE TakerGateGivesUp
    BY <1>11 DEF TakerGateGivesUp
  <1>12. CASE TakerBroadcastsClaim
    BY <1>12 DEF TakerBroadcastsClaim
  <1>13. CASE TakerRecordsClaim
    BY <1>13 DEF TakerRecordsClaim
  <1>14. CASE TakerFault
    BY <1>14 DEF TakerFault
  <1>15. CASE TakerReloads
    BY <1>15 DEF TakerReloads
  <1>16. CASE TakerResumesClaim
    BY <1>16 DEF TakerResumesClaim
  <1>17. CASE TakerResumesFunding
    <2>1. rec' \in {rec, [rec EXCEPT !.leg = "vout", !.mined = TRUE],
                    [rec EXCEPT !.leg = "txid"], NoRec}
      BY <1>17, Zenon DEF TakerResumesFunding
    <2>2. rec'.state = "pending" \/ rec' = NoRec
      BY <1>17, <2>1 DEF TakerResumesFunding
    <2>3. tk = "posting" => rec'.leg = "null"
      BY <1>17 DEF TakerResumesFunding
    <2> QED
      BY <1>17, <2>2, <2>3 DEF TakerResumesFunding
  <1>18. CASE TakerFindsStrandedLeg
    BY <1>18 DEF TakerFindsStrandedLeg
  <1>19. CASE TakerWatcherSeesBlock
    BY <1>19 DEF TakerWatcherSeesBlock
  <1>20. CASE TakerRefunds
    BY <1>20 DEF TakerRefunds, BtcRefundAccepted, RefundOffered
  <1>21. CASE TakerParks
    BY <1>21 DEF TakerParks
  <1>22. CASE TakerSweeps
    BY <1>22 DEF TakerSweeps, BtcRefundAccepted
  <1>23. CASE TakerAbandons
    BY <1>23 DEF TakerAbandons
  <1> QED
    BY <1>1, <1>2, <1>3, <1>4, <1>5, <1>6, <1>7, <1>8, <1>9, <1>10, <1>11, <1>12, <1>13, <1>14, <1>15, <1>16, <1>17, <1>18, <1>19, <1>20, <1>21, <1>22, <1>23
       DEF Taker

LEMMA MakerRecord == RecordInv /\ Maker => RecordTells'
  <1> SUFFICES ASSUME RecordInv, Maker PROVE RecordTells'
    OBVIOUS
  <1> USE DEF RecordInv, RecordTells, TypeOK, chainVars, gateVars, takerVars
  <1>1. CASE MakerSendsTerms
    BY <1>1 DEF MakerSendsTerms
  <1>2. CASE MakerGetsBtcLeg
    BY <1>2 DEF MakerGetsBtcLeg
  <1>3. CASE MakerGivesUp
    BY <1>3 DEF MakerGivesUp
  <1>4. CASE MakerVerifiesBtc
    BY <1>4 DEF MakerVerifiesBtc
  <1>5. CASE MakerAnchorCatchesUp
    BY <1>5 DEF MakerAnchorCatchesUp
  <1>6. CASE MakerDeclinesToFund
    BY <1>6 DEF MakerDeclinesToFund
  <1>7. CASE MakerRechecks
    BY <1>7 DEF MakerRechecks
  <1>8. CASE MakerFundsAsset
    BY <1>8 DEF MakerFundsAsset
  <1>9. CASE MakerSeesAssetMined
    BY <1>9 DEF MakerSeesAssetMined
  <1>10. CASE MakerLearnsSecret
    BY <1>10 DEF MakerLearnsSecret
  <1>11. CASE MakerClaimsBtc
    BY <1>11 DEF MakerClaimsBtc
  <1>12. CASE MakerTurnsToRefund
    BY <1>12 DEF MakerTurnsToRefund
  <1>13. CASE MakerRefundsAsset
    BY <1>13 DEF MakerRefundsAsset
  <1>14. CASE MakerDropsSettled
    BY <1>14 DEF MakerDropsSettled
  <1>15. CASE MakerFault
    BY <1>15 DEF MakerFault
  <1>16. CASE MakerReloads
    BY <1>16 DEF MakerReloads
  <1> QED
    BY <1>1, <1>2, <1>3, <1>4, <1>5, <1>6, <1>7, <1>8, <1>9, <1>10, <1>11, <1>12, <1>13, <1>14, <1>15, <1>16
       DEF Maker

LEMMA RecordInvariant == Spec => []RecordInv
  <1>1. Init => RecordInv
    BY InitType DEF Init, NoRec, RecordInv, RecordTells
  <1>2. RecordInv /\ UNCHANGED vars => RecordTells'
    BY DEF RecordInv, RecordTells, vars, chainVars, gateVars, takerVars
  <1>3. RecordInv /\ Next => RecordTells'
    BY ChainsRecord, TakerRecord, MakerRecord DEF Next
  <1>4. RecordInv /\ [Next]_vars => RecordInv'
    BY <1>2, <1>3, TypeStep DEF RecordInv
  <1> QED
    BY <1>1, <1>4, PTL DEF Spec

\* An outpoint leaves the record only into the parked list, or once the coins
\* are on their way out.
THEOREM OutpointKept == Spec => OutpointNeverForgotten
  <1> DEFINE Kept == (/\ rec.leg # "null" /\ rec'.leg = "null"
                      /\ btcLeg \in {"mempool", "mined"})
                     => (parked' = "yes" \/ "refund" \in btcPend \/ revealed)
  <1>1. RecordInv /\ TakerAbandons => Kept
    BY DEF RecordInv, RecordTells, TakerAbandons, ClearAllowed
  <1>2. RecordInv /\ TakerParks => Kept
    BY DEF TakerParks
  <1>3. ASSUME RecordInv, Next \/ UNCHANGED vars, ~TakerAbandons, ~TakerParks,
               rec.leg # "null"
        PROVE  rec'.leg # "null"
    BY <1>3 DEF RecordInv, TypeOK, RecordTells, Outpoints, vars, takerVars, Next, Chains, Maker,
           Taker, MineBtc, MineSeq, ConfirmBtcFund, ConfirmSeqFund,
           ConfirmBtcSpend, ConfirmSeqSpend, TakerOpens, TakerAcceptsTerms,
           TakerLeavesBeforeLock, TakerPersistsStub, TakerPostsFunding,
           TakerRecordsOutpoint, TakerAnnounces, TakerLosesSession,
           TakerGetsSeqLeg, TakerGatePasses, TakerGateGivesUp,
           TakerBroadcastsClaim, TakerRecordsClaim, TakerFault, TakerReloads,
           TakerResumesClaim, TakerResumesFunding, TakerFindsStrandedLeg,
           TakerWatcherSeesBlock, TakerRefunds, TakerSweeps, MakerSendsTerms,
           MakerGetsBtcLeg, MakerGivesUp, MakerVerifiesBtc,
           MakerAnchorCatchesUp, MakerDeclinesToFund, MakerRechecks,
           MakerFundsAsset, MakerSeesAssetMined, MakerLearnsSecret,
           MakerClaimsBtc, MakerTurnsToRefund, MakerRefundsAsset,
           MakerDropsSettled, MakerFault, MakerReloads
  <1>4. RecordInv /\ [Next]_vars => [Kept]_vars
    BY <1>1, <1>2, <1>3
  <1> QED
    BY RecordInvariant, <1>4, PTL DEF Spec, OutpointNeverForgotten

\* The maker reports a settled swap only behind the spend that settled it.
SettledTells ==
    /\ mk = "claimSent" => "claim" \in btcPend \/ btcLeg = "claimed"
    /\ mk = "refundSent" => "refund" \in seqPend \/ seqLeg = "refunded"

LEMMA StepSettled ==
    ASSUME SeqFirst, ~LossyClaim, ~LossyTips, MakerInv, SettledTells, [Next]_vars
    PROVE  SettledTells'
  <1> USE DEF SettledTells, MakerInv, TakerInv, TypeOK
  <1>1. CASE ConfirmBtcSpend
    <2>1. mk = "claimSent" => "refund" \notin btcPend
      BY DEF CoinsNeedSecret, NoRefundAfterSecret
    <2> QED
      BY <1>1, <2>1 DEF ConfirmBtcSpend, Spent, Spends, makerVars
  <1>2. CASE ConfirmSeqSpend
    <2>1. mk = "refundSent" => "claim" \notin seqPend
      BY <1>2, HeightsAssumption, InclusionAssumption
         DEF ConfirmSeqSpend, AssetRefundIsLate, ClaimInTime, ClaimInFlight
    <2> QED
      BY <1>2, <2>1 DEF ConfirmSeqSpend, Spent, Spends, makerVars
  <1>3. CASE Maker
    BY <1>3 DEF takerVars, chainVars, gateVars,
           Maker, MakerSendsTerms, MakerGetsBtcLeg, MakerGivesUp,
           MakerVerifiesBtc, MakerAnchorCatchesUp, MakerDeclinesToFund,
           MakerRechecks, MakerFundsAsset, MakerSeesAssetMined,
           MakerLearnsSecret, MakerClaimsBtc, MakerTurnsToRefund,
           MakerRefundsAsset, MakerDropsSettled, MakerFault, MakerReloads
  <1>4. CASE MineBtc \/ MineSeq \/ ConfirmBtcFund \/ ConfirmSeqFund \/ UNCHANGED vars
    BY <1>4 DEF MineBtc, MineSeq, ConfirmBtcFund, ConfirmSeqFund, makerVars, vars, chainVars
  <1>5. CASE Taker
    <2>1. UNCHANGED mk
      BY <1>5 DEF makerVars,
           Taker, TakerOpens, TakerAcceptsTerms, TakerLeavesBeforeLock,
           TakerPersistsStub, TakerPostsFunding, TakerRecordsOutpoint,
           TakerAnnounces, TakerLosesSession, TakerGetsSeqLeg,
           TakerGatePasses, TakerGateGivesUp, TakerBroadcastsClaim,
           TakerRecordsClaim, TakerFault, TakerReloads, TakerResumesClaim,
           TakerResumesFunding, TakerFindsStrandedLeg, TakerWatcherSeesBlock,
           TakerRefunds, TakerParks, TakerSweeps, TakerAbandons
    <2>2. btcPend \subseteq btcPend' /\ seqPend \subseteq seqPend' /\ UNCHANGED seqLeg
      BY <1>5 DEF chainVars, BtcRefundAccepted,
           Taker, TakerOpens, TakerAcceptsTerms, TakerLeavesBeforeLock,
           TakerPersistsStub, TakerPostsFunding, TakerRecordsOutpoint,
           TakerAnnounces, TakerLosesSession, TakerGetsSeqLeg,
           TakerGatePasses, TakerGateGivesUp, TakerBroadcastsClaim,
           TakerRecordsClaim, TakerFault, TakerReloads, TakerResumesClaim,
           TakerResumesFunding, TakerFindsStrandedLeg, TakerWatcherSeesBlock,
           TakerRefunds, TakerParks, TakerSweeps, TakerAbandons
    <2>3. btcLeg = "claimed" => UNCHANGED btcLeg
      BY <1>5 DEF chainVars, BtcRefundAccepted, NothingBeforeLock,
           Taker, TakerOpens, TakerAcceptsTerms, TakerLeavesBeforeLock,
           TakerPersistsStub, TakerPostsFunding, TakerRecordsOutpoint,
           TakerAnnounces, TakerLosesSession, TakerGetsSeqLeg,
           TakerGatePasses, TakerGateGivesUp, TakerBroadcastsClaim,
           TakerRecordsClaim, TakerFault, TakerReloads, TakerResumesClaim,
           TakerResumesFunding, TakerFindsStrandedLeg, TakerWatcherSeesBlock,
           TakerRefunds, TakerParks, TakerSweeps, TakerAbandons
    <2> QED
      BY <2>1, <2>2, <2>3
  <1> QED
    BY <1>1, <1>2, <1>3, <1>4, <1>5 DEF Next, Chains

\* The maker's page forgets a locked asset leg only behind the spend that
\* ended the swap.
THEOREM AssetKept ==
    ASSUME SeqFirst, ~LossyClaim, ~LossyTips
    PROVE  Spec => LockedAssetStaysOnRecord
  <1> DEFINE Kept == (/\ mrec \in {"seq_locked", "secret_learned"}
                      /\ mrec' = "none")
                     => (\/ "claim" \in btcPend \/ btcLeg = "claimed"
                         \/ "refund" \in seqPend \/ seqLeg = "refunded")
  <1>1. Init => SettledTells
    BY DEF Init, SettledTells
  <1>2. SettledTells /\ MakerDropsSettled => Kept
    BY DEF SettledTells, MakerDropsSettled
  <1>3. MakerReloads => Kept
    BY DEF MakerReloads, Resumable
  <1>4. ASSUME Next \/ UNCHANGED vars, ~MakerDropsSettled, ~MakerReloads, mrec # "none"
        PROVE  mrec' # "none"
    BY <1>4 DEF vars, makerVars, Next, Chains, Taker,
           Maker, MineBtc, MineSeq, ConfirmBtcFund, ConfirmSeqFund,
           ConfirmBtcSpend, ConfirmSeqSpend, TakerOpens, TakerAcceptsTerms,
           TakerLeavesBeforeLock, TakerPersistsStub, TakerPostsFunding,
           TakerRecordsOutpoint, TakerAnnounces, TakerLosesSession,
           TakerGetsSeqLeg, TakerGatePasses, TakerGateGivesUp,
           TakerBroadcastsClaim, TakerRecordsClaim, TakerFault, TakerReloads,
           TakerResumesClaim, TakerResumesFunding, TakerFindsStrandedLeg,
           TakerWatcherSeesBlock, TakerRefunds, TakerParks, TakerSweeps,
           TakerAbandons, MakerSendsTerms, MakerGetsBtcLeg, MakerGivesUp,
           MakerVerifiesBtc, MakerAnchorCatchesUp, MakerDeclinesToFund,
           MakerRechecks, MakerFundsAsset, MakerSeesAssetMined,
           MakerLearnsSecret, MakerClaimsBtc, MakerTurnsToRefund,
           MakerRefundsAsset, MakerFault
  <1>5. SettledTells /\ [Next]_vars => [Kept]_vars
    BY <1>2, <1>3, <1>4
  <1>6. MakerInv /\ SettledTells /\ [Next]_vars => SettledTells'
    BY StepSettled
  <1> QED
    BY MakerInvariant, <1>1, <1>5, <1>6, PTL DEF Spec, LockedAssetStaysOnRecord

\* Neither page forgets a leg of its own that is still locked, whichever of the
\* off-ramps, sweeps and reloads the two sides go through.
THEOREM RecordsKept ==
    ASSUME SeqFirst, ~LossyClaim, ~LossyTips
    PROVE  Spec => RecordsAreKept
  BY OutpointKept, AssetKept DEF RecordsAreKept

(* ---- Every locked leg is on record --------------------------------------- *)

\* The stub is on disk while the funding is posted.
StubStays == tk = "posting" => rec.state = "pending"

BtcRecordInv == RecordInv /\ StubStays /\ LockedBtcIsOnRecord

LEMMA StepBtcRecord ==
    ASSUME ~LossyReads, ~StubInterference, BtcRecordInv, [Next]_vars
    PROVE  (StubStays /\ LockedBtcIsOnRecord)'
  <1> USE DEF BtcRecordInv, RecordInv, RecordTells, StubStays, LockedBtcIsOnRecord, TypeOK,
              chainVars, gateVars, takerVars, makerVars
  <1> DEFINE Elsewhere == /\ UNCHANGED <<btcLeg, rec, parked>> /\ btcPend \subseteq btcPend'
                          /\ revealed => revealed'
                          /\ tk' = "posting" => tk = "posting"
  <1>1. CASE ConfirmBtcFund
    BY <1>1 DEF ConfirmBtcFund
  <1>2. CASE ConfirmBtcSpend
    BY <1>2 DEF ConfirmBtcSpend, Spent
  <1>3. CASE TakerPersistsStub
    BY <1>3 DEF TakerPersistsStub
  <1>4. CASE TakerPostsFunding
    BY <1>4 DEF TakerPostsFunding
  <1>5. CASE TakerRecordsOutpoint
    BY <1>5 DEF TakerRecordsOutpoint
  <1>6. CASE TakerGetsSeqLeg
    BY <1>6 DEF TakerGetsSeqLeg
  <1>7. CASE TakerRecordsClaim
    BY <1>7 DEF TakerRecordsClaim
  <1>8. CASE TakerResumesFunding
    <2>1. CASE rec' = NoRec
      <3>1. btcLeg \notin {"mempool", "mined"} /\ tk = "idle"
        <4>1. tk = "idle" /\ rec.state = "pending" /\ Reads = {TRUE}
          BY <1>8 DEF TakerResumesFunding, ResumeAllowed, Reads
        <4>2. /\ [rec EXCEPT !.leg = "vout", !.mined = TRUE].state = "pending"
              /\ [rec EXCEPT !.leg = "txid"].state = "pending"
          BY <4>1
        <4>3. NoRec.state = "none"
          BY DEF NoRec
        <4> QED
          BY <1>8, <2>1, <4>1, <4>2, <4>3 DEF TakerResumesFunding
      <3> QED
        BY <1>8, <3>1 DEF TakerResumesFunding
    <2>2. CASE rec' # NoRec
      <3>1. rec'.state = rec.state
        BY <1>8, <2>2 DEF TakerResumesFunding
      <3> QED
        BY <1>8, <3>1 DEF TakerResumesFunding
    <2> QED
      BY <2>1, <2>2
  <1>9. CASE TakerFindsStrandedLeg
    BY <1>9 DEF TakerFindsStrandedLeg
  <1>10. CASE TakerWatcherSeesBlock
    BY <1>10 DEF TakerWatcherSeesBlock
  <1>11. CASE TakerRefunds
    BY <1>11 DEF TakerRefunds, RefundOffered, BtcRefundAccepted
  <1>12. CASE TakerParks
    BY <1>12 DEF TakerParks, ParkEligible
  <1>13. CASE TakerSweeps
    BY <1>13 DEF TakerSweeps, BtcRefundAccepted
  <1>14. CASE TakerAbandons
    BY <1>14 DEF TakerAbandons, ClearAllowed
  <1>15. CASE MineBtc \/ MineSeq \/ ConfirmSeqFund \/ ConfirmSeqSpend \/ Maker \/ UNCHANGED vars
    <2>1. Elsewhere
      BY <1>15 DEF vars, MineBtc, MineSeq, ConfirmSeqFund, ConfirmSeqSpend,
             Maker, MakerSendsTerms, MakerGetsBtcLeg, MakerGivesUp, MakerVerifiesBtc,
             MakerAnchorCatchesUp, MakerDeclinesToFund, MakerRechecks, MakerFundsAsset,
             MakerSeesAssetMined, MakerLearnsSecret, MakerClaimsBtc, MakerTurnsToRefund,
             MakerRefundsAsset, MakerDropsSettled, MakerFault, MakerReloads
    <2> QED
      BY <2>1
  <1>16. CASE \/ TakerOpens \/ TakerAcceptsTerms \/ TakerLeavesBeforeLock \/ TakerAnnounces
              \/ TakerLosesSession \/ TakerGatePasses \/ TakerGateGivesUp
              \/ TakerBroadcastsClaim \/ TakerFault \/ TakerReloads \/ TakerResumesClaim
    <2>1. Elsewhere
      BY <1>16 DEF TakerOpens, TakerAcceptsTerms, TakerLeavesBeforeLock, TakerAnnounces,
             TakerLosesSession, TakerGatePasses, TakerGateGivesUp, TakerBroadcastsClaim,
             TakerFault, TakerReloads, TakerResumesClaim
    <2> QED
      BY <2>1
  <1> QED
    BY <1>1, <1>2, <1>3, <1>4, <1>5, <1>6, <1>7, <1>8, <1>9, <1>10, <1>11, <1>12, <1>13,
       <1>14, <1>15, <1>16 DEF Next, Chains, Taker

\* The taker's locked BTC is never without a record, a parked entry or a refund
\* on its way.
THEOREM BtcOnRecord ==
    ASSUME ~LossyReads, ~StubInterference
    PROVE  Spec => []LockedBtcIsOnRecord
  <1>1. Init => StubStays /\ LockedBtcIsOnRecord
    BY DEF Init, StubStays, LockedBtcIsOnRecord
  <1>2. RecordInv /\ StubStays /\ LockedBtcIsOnRecord /\ [Next]_vars
        => (StubStays /\ LockedBtcIsOnRecord)'
    BY StepBtcRecord DEF BtcRecordInv
  <1> QED
    BY RecordInvariant, <1>1, <1>2, PTL DEF Spec

\* A maker past its funding has a record that a reload resumes; one that is off
\* without it, or done, has nothing locked that no spend will take.
AssetIsFollowed ==
    /\ mk \in {"settle", "claim", "claimSent", "refund", "refundSent"} => mrec \in Resumable
    /\ mk = "off" => mrec \in Resumable \/ seqLeg = "none"
    /\ mk = "done" => \/ seqLeg \in {"none", "claimed", "refunded"} \/ "refund" \in seqPend
                      \/ "claim" \in btcPend \/ btcLeg = "claimed"

LEMMA StepFollowed ==
    ASSUME ~FundingFault, MakerInv, SettledTells, AssetIsFollowed, [Next]_vars
    PROVE  AssetIsFollowed'
  <1> USE DEF MakerInv, TakerInv, TypeOK, AssetIsFollowed, Resumable,
              chainVars, gateVars, takerVars, makerVars
  <1>1. CASE MineBtc \/ MineSeq \/ ConfirmBtcFund \/ ConfirmSeqFund \/ UNCHANGED vars
    BY <1>1 DEF vars, MineBtc, MineSeq, ConfirmBtcFund, ConfirmSeqFund, FundedOnce
  <1>2. CASE ConfirmBtcSpend
    <2>1. "claim" \in btcPend => "refund" \notin btcPend
      BY DEF CoinsNeedSecret, NoRefundAfterSecret
    <2> QED
      BY <1>2, <2>1 DEF ConfirmBtcSpend, Spent, Spends
  <1>3. CASE ConfirmSeqSpend
    BY <1>3 DEF ConfirmSeqSpend, Spent, Spends
  <1>4. CASE Taker
    <2>1. UNCHANGED <<seqLeg, mk, mrec>> /\ btcPend \subseteq btcPend' /\ seqPend \subseteq seqPend'
      BY <1>4 DEF BtcRefundAccepted, Taker, TakerOpens, TakerAcceptsTerms,
             TakerLeavesBeforeLock, TakerPersistsStub, TakerPostsFunding,
             TakerRecordsOutpoint, TakerAnnounces, TakerLosesSession, TakerGetsSeqLeg,
             TakerGatePasses, TakerGateGivesUp, TakerBroadcastsClaim, TakerRecordsClaim,
             TakerFault, TakerReloads, TakerResumesClaim, TakerResumesFunding,
             TakerFindsStrandedLeg, TakerWatcherSeesBlock, TakerRefunds, TakerParks,
             TakerSweeps, TakerAbandons
    <2>2. btcLeg = "claimed" => UNCHANGED btcLeg
      BY <1>4 DEF BtcRefundAccepted, NothingBeforeLock, Taker, TakerOpens, TakerAcceptsTerms,
             TakerLeavesBeforeLock, TakerPersistsStub, TakerPostsFunding,
             TakerRecordsOutpoint, TakerAnnounces, TakerLosesSession, TakerGetsSeqLeg,
             TakerGatePasses, TakerGateGivesUp, TakerBroadcastsClaim, TakerRecordsClaim,
             TakerFault, TakerReloads, TakerResumesClaim, TakerResumesFunding,
             TakerFindsStrandedLeg, TakerWatcherSeesBlock, TakerRefunds, TakerParks,
             TakerSweeps, TakerAbandons
    <2> QED
      BY <2>1, <2>2
  <1>5. CASE MakerDropsSettled
    BY <1>5 DEF MakerDropsSettled, SettledTells
  <1>6. CASE MakerFault
    BY <1>6 DEF MakerFault, MakerLive, MakerPcs, FundedOnce, BeforeFunding
  <1>7. CASE MakerReloads
    BY <1>7 DEF MakerReloads
  <1>8. CASE MakerClaimsBtc \/ MakerRefundsAsset \/ MakerGivesUp \/ MakerDeclinesToFund
    BY <1>8 DEF MakerClaimsBtc, MakerRefundsAsset, MakerGivesUp, MakerDeclinesToFund,
           FundedOnce, BeforeFunding
  <1>9. CASE \/ MakerSendsTerms \/ MakerGetsBtcLeg \/ MakerVerifiesBtc \/ MakerAnchorCatchesUp
             \/ MakerRechecks \/ MakerFundsAsset \/ MakerSeesAssetMined \/ MakerLearnsSecret
             \/ MakerTurnsToRefund
    BY <1>9 DEF MakerSendsTerms, MakerGetsBtcLeg, MakerVerifiesBtc, MakerAnchorCatchesUp,
           MakerRechecks, MakerFundsAsset, MakerSeesAssetMined, MakerLearnsSecret,
           MakerTurnsToRefund
  <1> QED
    BY <1>1, <1>2, <1>3, <1>4, <1>5, <1>6, <1>7, <1>8, <1>9 DEF Next, Chains, Maker

\* A locked asset leg is watched by the maker's driver, resumable from its
\* record, or on its way out.
THEOREM AssetWatched ==
    ASSUME SeqFirst, ~LossyClaim, ~LossyTips, ~FundingFault
    PROVE  Spec => []LockedAssetIsWatched
  <1>1. Init => SettledTells /\ AssetIsFollowed
    BY DEF Init, SettledTells, AssetIsFollowed
  <1>2. MakerInv /\ SettledTells /\ [Next]_vars => SettledTells'
    BY StepSettled
  <1>3. MakerInv /\ SettledTells /\ AssetIsFollowed /\ [Next]_vars => AssetIsFollowed'
    BY StepFollowed
  <1>4. MakerInv /\ AssetIsFollowed => LockedAssetIsWatched
    BY DEF MakerInv, TakerInv, TypeOK, FundedOnce, BeforeFunding, AssetIsFollowed,
           LockedAssetIsWatched, MakerLive, Resumable, MakerPcs
  <1> QED
    BY MakerInvariant, <1>1, <1>2, <1>3, <1>4, PTL DEF Spec

\* Both legs, in one swap: whatever is locked is on its owner's record.
THEOREM LegsOnRecord ==
    ASSUME SeqFirst, ~LossyClaim, ~LossyTips, ~LossyReads, ~StubInterference, ~FundingFault
    PROVE  Spec => []LegsAreOnRecord
  BY BtcOnRecord, AssetWatched, PTL DEF LegsAreOnRecord
=============================================================================
