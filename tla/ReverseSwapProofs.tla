------------------------- MODULE ReverseSwapProofs -------------------------
(***************************************************************************)
(* Proofs about ReverseSwap, for every value of its constants, and about   *)
(* the abstract swap it implements.                                        *)
(*                                                                         *)
(* The invariants are layered, so that a theorem assumes only the switches *)
(* it needs: SecretInv (who knows the secret, and when) needs none, and on *)
(* it rest DecidedInv (the maker claims or refunds, never both),           *)
(* FundedInv and LateInv (the asset meets live BTC; FundedInv needs the    *)
(* window checks to read the tips), RecordInv (what the taker's record     *)
(* knows) and KeptInv (what the maker's does).                             *)
(***************************************************************************)
EXTENDS ReverseSwap, TLAPS

(* ---- Type correctness -------------------------------------------------- *)

LEMMA InitType == Init => TypeOK
  <1> SUFFICES ASSUME Init PROVE TypeOK
    OBVIOUS
  <1>1. rec \in [state : RecStates, asset : AssetParts, secret : BOOLEAN]
    BY DEF Init, NoRec, RecStates, AssetParts
  <1>2. anchored \in BOOLEAN /\ revealed \in BOOLEAN /\ settle \in BOOLEAN /\ userCancel \in BOOLEAN
    BY Zenon DEF Init
  <1> QED
    BY <1>1, <1>2 DEF Init, TypeOK, LegStates, TakerPcs, RedrivePcs, MakerPcs, MakerRecs

LEMMA ChainsType ==
    ASSUME TypeOK, Chains
    PROVE  TypeOK'
  <1> USE DEF TypeOK, LegStates, Spends, gateVars, takerVars, makerVars
  <1>1. CASE MineBtc
    BY <1>1, HeightsAssumption, InclusionAssumption DEF MineBtc
  <1>2. CASE MineSeq
    BY <1>2, HeightsAssumption, InclusionAssumption DEF MineSeq
  <1>3. CASE ConfirmBtcFund
    BY <1>3 DEF ConfirmBtcFund
  <1>4. CASE ConfirmSeqFund
    BY <1>4 DEF ConfirmSeqFund
  <1>5. CASE ConfirmBtcSpend
    BY <1>5, HeightsAssumption, InclusionAssumption DEF ConfirmBtcSpend, Spent
  <1>6. CASE ConfirmSeqSpend
    BY <1>6, HeightsAssumption, InclusionAssumption DEF ConfirmSeqSpend, Spent
  <1> QED
    BY <1>1, <1>2, <1>3, <1>4, <1>5, <1>6
       DEF Chains

LEMMA TakerType ==
    ASSUME TypeOK, Taker
    PROVE  TypeOK'
  <1> USE DEF TypeOK, TakerPcs, RedrivePcs, RecStates, AssetParts, Frames, chainVars,
             gateVars, makerVars
  <1>1. CASE TakerOpens
    BY <1>1 DEF TakerOpens
  <1>2. CASE TakerTriesNextOffer
    BY <1>2 DEF TakerTriesNextOffer
  <1>3. CASE TakerGetsBtcLeg
    BY <1>3 DEF TakerGetsBtcLeg, NoRec
  <1>4. CASE TakerSeesBtcMined
    BY <1>4 DEF TakerSeesBtcMined
  <1>5. CASE TakerAnchorReached
    BY <1>5 DEF TakerAnchorReached
  <1>6. CASE TakerAborts
    BY <1>6 DEF TakerAborts
  <1>7. CASE TakerVerifies
    BY <1>7, HeightsAssumption, InclusionAssumption DEF TakerVerifies
  <1>8. CASE TakerPostsFunding
    BY <1>8, HeightsAssumption, InclusionAssumption DEF TakerPostsFunding,
       AssetFundingAccepted, LegStates
  <1>9. CASE TakerRecordsFunding
    BY <1>9 DEF TakerRecordsFunding, HasTxid
  <1>10. CASE TakerSeesAssetMined
    BY <1>10 DEF TakerSeesAssetMined
  <1>11. CASE TakerAnnounces
    BY <1>11 DEF TakerAnnounces
  <1>12. CASE TakerStartsSettling
    <2>1. settle' \in BOOLEAN /\ rec' \in {rec, [rec EXCEPT !.secret = TRUE]}
      BY <1>12, Zenon DEF TakerStartsSettling, MaySettle
    <2>2. rec' \in [state : RecStates, asset : AssetParts, secret : BOOLEAN]
      BY <2>1
    <2> QED
      BY <1>12, <2>1, <2>2 DEF TakerStartsSettling
  <1>13. CASE TakerFault
    <2>1. settle' \in BOOLEAN
      BY <1>13, Zenon DEF TakerFault
    <2> QED
      BY <1>13, <2>1 DEF TakerFault
  <1>14. CASE TakerReloads
    BY <1>14 DEF TakerReloads
  <1>15. CASE TakerResumesSettling
    BY <1>15 DEF TakerResumesSettling
  <1>16. CASE TakerResumesLeg
    <2>1. rec' \in [state : RecStates, asset : AssetParts, secret : BOOLEAN]
      BY <1>16 DEF TakerResumesLeg
    <2> QED BY <1>16, <2>1 DEF TakerResumesLeg
  <1>17. CASE TakerAdoptsFunding
    BY <1>17 DEF TakerAdoptsFunding, HasTxid, FundingSeen
  <1>18. CASE RedriveStarts
    BY <1>18 DEF RedriveStarts, BeatIsOld
  <1>19. CASE RedriveAnchorReached
    BY <1>19 DEF RedriveAnchorReached
  <1>20. CASE RedriveStops
    BY <1>20 DEF RedriveStops
  <1>21. CASE RedriveVerifies
    BY <1>21, HeightsAssumption, InclusionAssumption DEF RedriveVerifies
  <1>22. CASE RedriveScans
    BY <1>22 DEF RedriveScans, HasTxid, FundingSeen, Reads
  <1>23. CASE RedrivePosts
    BY <1>23, HeightsAssumption, InclusionAssumption DEF RedrivePosts, AssetFundingAccepted,
       LegStates
  <1>24. CASE RedriveRecords
    BY <1>24 DEF RedriveRecords, HasTxid
  <1>25. CASE TakerLearnsSecret
    <2>1. rec' \in [state : RecStates, asset : AssetParts, secret : BOOLEAN]
      BY <1>25 DEF TakerLearnsSecret
    <2> QED BY <1>25, <2>1 DEF TakerLearnsSecret
  <1>26. CASE TakerClaimsBtc
    <2>1. settle' \in BOOLEAN
      BY <1>26, Zenon DEF TakerClaimsBtc
    <2>2. rec' \in {rec, [rec EXCEPT !.state = "btc_claimed"]} /\ tkFaults' \in {tkFaults,
       tkFaults + 1}
      BY <1>26, Zenon DEF TakerClaimsBtc
    <2>3. rec' \in [state : RecStates, asset : AssetParts, secret : BOOLEAN]
      BY <2>2
    <2> QED
      BY <1>26, <2>1, <2>2, <2>3 DEF TakerClaimsBtc, Spends
  <1>27. CASE TakerRefunds
    BY <1>27, HeightsAssumption, InclusionAssumption DEF TakerRefunds, Spends
  <1>28. CASE TakerAbandons
    BY <1>28 DEF TakerAbandons, AbandonAllowed, NoRec
  <1> QED
    BY <1>1, <1>2, <1>3, <1>4, <1>5, <1>6, <1>7, <1>8, <1>9, <1>10, <1>11, <1>12, <1>13,
       <1>14, <1>15, <1>16, <1>17, <1>18, <1>19, <1>20, <1>21, <1>22, <1>23, <1>24, <1>25,
       <1>26, <1>27, <1>28
       DEF Taker

LEMMA MakerType ==
    ASSUME TypeOK, Maker
    PROVE  TypeOK'
  <1> USE DEF TypeOK, MakerPcs, MakerRecs, LegStates, Spends, Frames, chainVars, gateVars,
             takerVars
  <1>1. CASE MakerGetsTermsRequest
    BY <1>1 DEF MakerGetsTermsRequest
  <1>2. CASE MakerPostsBtc
    BY <1>2 DEF MakerPostsBtc
  <1>3. CASE MakerAnnouncesBtc
    BY <1>3 DEF MakerAnnouncesBtc
  <1>4. CASE MakerGetsSeqLeg
    BY <1>4 DEF MakerGetsSeqLeg
  <1>5. CASE MakerGivesUp
    BY <1>5 DEF MakerGivesUp
  <1>6. CASE MakerVerifiesAsset
    BY <1>6 DEF MakerVerifiesAsset
  <1>7. CASE UserCancels
    BY <1>7 DEF UserCancels
  <1>8. CASE MakerGateCancels
    BY <1>8 DEF MakerGateCancels
  <1>9. CASE MakerGatePasses
    BY <1>9, HeightsAssumption, InclusionAssumption DEF MakerGatePasses, NearSeqRefund
  <1>10. CASE MakerGateCloses
    BY <1>10 DEF MakerGateCloses
  <1>11. CASE MakerClaims
    <2>1. revealed' \in BOOLEAN
      BY <1>11, Zenon DEF MakerClaims
    <2>2. seqPend' \in {seqPend, seqPend \union {"claim"}} /\ mk' \in {"claimSent", "off"}
      BY <1>11, Zenon DEF MakerClaims
    <2> QED
      BY <1>11, <2>1, <2>2 DEF MakerClaims, Spends
  <1>12. CASE MakerRecordsClaim
    BY <1>12 DEF MakerRecordsClaim
  <1>13. CASE MakerRefundsBtc
    <2>1. btcPend' \in {btcPend, btcPend \union {"refund"}} /\ mk' \in {"refundSent", "off"}
      BY <1>13, Zenon DEF MakerRefundsBtc
    <2> QED
      BY <1>13, <2>1 DEF MakerRefundsBtc, Spends
  <1>14. CASE MakerRecordsRefund
    BY <1>14 DEF MakerRecordsRefund
  <1>15. CASE MakerFault
    BY <1>15 DEF MakerFault, MakerLive
  <1>16. CASE MakerReloads
    BY <1>16 DEF MakerReloads, Dropped
  <1> QED
    BY <1>1, <1>2, <1>3, <1>4, <1>5, <1>6, <1>7, <1>8, <1>9, <1>10, <1>11, <1>12, <1>13,
       <1>14, <1>15, <1>16
       DEF Maker

LEMMA TypeStep == TypeOK /\ [Next]_vars => TypeOK'
  <1>1. TypeOK /\ UNCHANGED vars => TypeOK'
    BY DEF TypeOK, vars, chainVars, gateVars, takerVars, makerVars
  <1> QED
    BY <1>1, ChainsType, TakerType, MakerType DEF Next

\* Every variable of the swap stays in its range.
THEOREM TypeCorrect == Spec => []TypeOK
  BY InitType, TypeStep, PTL DEF Spec

(* ---- The secret -------------------------------------------------------- *)

\* The maker's pcs before its claim is broadcast.
BeforeReveal == {"idle", "lock", "lockConf", "recv", "verify", "gate", "claim"}

\* The maker locks once, and only a mined leg has spends in flight.
OnlyMinedIsSpent ==
    /\ seqLeg # "mined" => seqPend = {}
    /\ btcLeg # "mined" => btcPend = {}
    /\ mk \in {"idle", "lock"} => btcLeg = "none"

\* A claim on its way was gated a margin before T_seq and has not aged.
ClaimInTime ==
    ClaimInFlight => claimAt + ClaimMargin < TSeq /\ seqTip <= claimAt + Inclusion

\* The asset goes back only from T_seq on.
AssetRefundIsLate ==
    "refund" \in seqPend \/ seqLeg = "refunded" => seqTip >= TSeq

\* The secret is public exactly from the maker's claim of the asset on.
SecretIsTheClaim ==
    /\ revealed <=> (seqLeg = "claimed" \/ "claim" \in seqPend)
    /\ mk \in BeforeReveal => ~revealed
    /\ mk = "claimSent" => revealed

\* The taker has the secret from the maker, and takes the BTC with it.
CoinsNeedSecret ==
    rec.secret \/ "secret_revealed" \in msgs \/ "claim" \in btcPend \/ btcLeg = "claimed"
        => revealed

SecretParts == OnlyMinedIsSpent /\ ClaimInTime /\ AssetRefundIsLate /\ SecretIsTheClaim /\ CoinsNeedSecret

SecretInv == TypeOK /\ SecretParts

LEMMA InitSecretInv == Init => SecretInv
  BY InitType, HeightsAssumption
     DEF Init, NoRec, SecretInv, SecretParts, OnlyMinedIsSpent, ClaimInTime, AssetRefundIsLate, SecretIsTheClaim, CoinsNeedSecret, BeforeReveal, ClaimInFlight

LEMMA ChainsSecretInv ==
    ASSUME SecretInv, Chains
    PROVE  SecretParts'
  <1> USE DEF SecretInv, SecretParts, OnlyMinedIsSpent, ClaimInTime, AssetRefundIsLate,
             SecretIsTheClaim, CoinsNeedSecret, TypeOK, ClaimInFlight, BeforeReveal, Spends,
             Confirmed, gateVars, takerVars, makerVars
  <1>1. CASE MineBtc
    BY <1>1, HeightsAssumption, InclusionAssumption DEF MineBtc
  <1>2. CASE MineSeq
    BY <1>2, HeightsAssumption, InclusionAssumption DEF MineSeq
  <1>3. CASE ConfirmBtcFund
    BY <1>3 DEF ConfirmBtcFund
  <1>4. CASE ConfirmSeqFund
    BY <1>4 DEF ConfirmSeqFund
  <1>5. CASE ConfirmBtcSpend
    BY <1>5, HeightsAssumption, InclusionAssumption DEF ConfirmBtcSpend, Spent
  <1>6. CASE ConfirmSeqSpend
    BY <1>6, HeightsAssumption, InclusionAssumption DEF ConfirmSeqSpend, Spent
  <1> QED
    BY <1>1, <1>2, <1>3, <1>4, <1>5, <1>6
       DEF Chains

LEMMA TakerSecretInv ==
    ASSUME SecretInv, Taker
    PROVE  SecretParts'
  <1> USE DEF SecretInv, SecretParts, OnlyMinedIsSpent, ClaimInTime, AssetRefundIsLate,
             SecretIsTheClaim, CoinsNeedSecret, TypeOK, ClaimInFlight, BeforeReveal, Spends,
             Confirmed, chainVars, gateVars, makerVars, PageOpen
  <1>1. CASE TakerOpens
    BY <1>1 DEF TakerOpens
  <1>2. CASE TakerGetsBtcLeg
    BY <1>2 DEF TakerGetsBtcLeg, NoRec
  <1>3. CASE TakerSeesBtcMined
    BY <1>3 DEF TakerSeesBtcMined
  <1>4. CASE TakerAborts
    BY <1>4 DEF TakerAborts
  <1>5. CASE TakerVerifies
    BY <1>5, HeightsAssumption, InclusionAssumption DEF TakerVerifies
  <1>6. CASE TakerPostsFunding
    BY <1>6, HeightsAssumption, InclusionAssumption DEF TakerPostsFunding, AssetFundingAccepted
  <1>7. CASE TakerRecordsFunding
    BY <1>7 DEF TakerRecordsFunding, HasTxid
  <1>8. CASE TakerSeesAssetMined
    BY <1>8 DEF TakerSeesAssetMined
  <1>9. CASE TakerAnnounces
    BY <1>9 DEF TakerAnnounces
  <1>10. CASE TakerStartsSettling
    BY <1>10 DEF TakerStartsSettling, MaySettle
  <1>11. CASE TakerFault
    BY <1>11 DEF TakerFault
  <1>12. CASE TakerResumesLeg
    BY <1>12 DEF TakerResumesLeg
  <1>13. CASE TakerAdoptsFunding
    BY <1>13 DEF TakerAdoptsFunding, HasTxid, FundingSeen
  <1>14. CASE RedriveVerifies
    BY <1>14, HeightsAssumption, InclusionAssumption DEF RedriveVerifies
  <1>15. CASE RedriveScans
    BY <1>15 DEF RedriveScans, HasTxid, FundingSeen, Reads
  <1>16. CASE RedrivePosts
    BY <1>16, HeightsAssumption, InclusionAssumption DEF RedrivePosts, AssetFundingAccepted
  <1>17. CASE RedriveRecords
    BY <1>17 DEF RedriveRecords, HasTxid
  <1>18. CASE TakerLearnsSecret
    BY <1>18 DEF TakerLearnsSecret, MaySettle, PreimageOnChain
  <1>19. CASE TakerClaimsBtc
    BY <1>19 DEF TakerClaimsBtc, MaySettle
  <1>20. CASE TakerRefunds
    BY <1>20, HeightsAssumption, InclusionAssumption DEF TakerRefunds
  <1>21. CASE TakerAbandons
    BY <1>21 DEF TakerAbandons, AbandonAllowed, NoRec
  <1>22. CASE TakerTriesNextOffer \/ TakerAnchorReached \/ TakerReloads \/
            TakerResumesSettling \/ RedriveStarts \/ RedriveAnchorReached \/ RedriveStops
    <2>1. UNCHANGED <<chainVars, gateVars, msgs, rec, mk>>
      BY <1>22 DEF TakerTriesNextOffer, TakerAnchorReached, TakerReloads,
         TakerResumesSettling, RedriveStarts, RedriveAnchorReached, RedriveStops
    <2> QED
      BY <2>1
  <1> QED
    BY <1>1, <1>2, <1>3, <1>4, <1>5, <1>6, <1>7, <1>8, <1>9, <1>10, <1>11, <1>12, <1>13,
       <1>14, <1>15, <1>16, <1>17, <1>18, <1>19, <1>20, <1>21, <1>22
       DEF Taker

LEMMA MakerSecretInv ==
    ASSUME SecretInv, Maker
    PROVE  SecretParts'
  <1> USE DEF SecretInv, SecretParts, OnlyMinedIsSpent, ClaimInTime, AssetRefundIsLate,
             SecretIsTheClaim, CoinsNeedSecret, TypeOK, ClaimInFlight, BeforeReveal, Spends,
             Confirmed, chainVars, gateVars, takerVars
  <1>1. CASE MakerGetsTermsRequest
    BY <1>1 DEF MakerGetsTermsRequest
  <1>2. CASE MakerPostsBtc
    BY <1>2 DEF MakerPostsBtc
  <1>3. CASE MakerAnnouncesBtc
    BY <1>3 DEF MakerAnnouncesBtc
  <1>4. CASE MakerGetsSeqLeg
    BY <1>4 DEF MakerGetsSeqLeg
  <1>5. CASE MakerGivesUp
    BY <1>5 DEF MakerGivesUp
  <1>6. CASE MakerVerifiesAsset
    BY <1>6 DEF MakerVerifiesAsset
  <1>7. CASE UserCancels
    BY <1>7 DEF UserCancels
  <1>8. CASE MakerGateCancels
    BY <1>8 DEF MakerGateCancels
  <1>9. CASE MakerGatePasses
    BY <1>9, HeightsAssumption, InclusionAssumption DEF MakerGatePasses, NearSeqRefund
  <1>10. CASE MakerGateCloses
    BY <1>10 DEF MakerGateCloses
  <1>11. CASE MakerClaims
    BY <1>11, HeightsAssumption, InclusionAssumption DEF MakerClaims
  <1>12. CASE MakerRecordsClaim
    BY <1>12 DEF MakerRecordsClaim
  <1>13. CASE MakerRefundsBtc
    <2>1. CASE mrec = "outpoint" /\ btcLeg = "mined"
      BY <1>13, <2>1 DEF MakerRefundsBtc
    <2>2. CASE ~(mrec = "outpoint" /\ btcLeg = "mined")
      BY <1>13, <2>2 DEF MakerRefundsBtc
    <2> QED
      BY <2>1, <2>2
  <1>14. CASE MakerRecordsRefund
    BY <1>14 DEF MakerRecordsRefund
  <1>15. CASE MakerFault
    BY <1>15 DEF MakerFault, MakerLive
  <1>16. CASE MakerReloads
    BY <1>16 DEF MakerReloads, Dropped
  <1> QED
    BY <1>1, <1>2, <1>3, <1>4, <1>5, <1>6, <1>7, <1>8, <1>9, <1>10, <1>11, <1>12, <1>13,
       <1>14, <1>15, <1>16
       DEF Maker

LEMMA StepSecretInv ==
    SecretInv /\ [Next]_vars => SecretInv'
  <1>1. SecretInv /\ UNCHANGED vars => SecretParts'
    BY DEF SecretInv, SecretParts, OnlyMinedIsSpent, ClaimInTime, AssetRefundIsLate, SecretIsTheClaim, CoinsNeedSecret, BeforeReveal, ClaimInFlight, vars, chainVars, gateVars, takerVars, makerVars
  <1>2. SecretInv /\ Next => SecretParts'
    BY ChainsSecretInv, TakerSecretInv, MakerSecretInv DEF Next
  <1>3. SecretInv /\ [Next]_vars => TypeOK'
    BY TypeStep DEF SecretInv
  <1> QED
    BY <1>1, <1>2, <1>3 DEF SecretInv

LEMMA SecretInvariant ==
    Spec => []SecretInv
  BY InitSecretInv, StepSecretInv, PTL DEF Spec

\* The maker never delivers for nothing, whatever the faults: once its BTC is
\* taken its asset claim beats every refund.
THEOREM MakerSafe == Spec => []MakerNeverDeliversForNothing
  <1>1. SecretInv => MakerNeverDeliversForNothing
    BY HeightsAssumption, InclusionAssumption
       DEF SecretInv, SecretParts, MakerNeverDeliversForNothing, CoinsNeedSecret,
           SecretIsTheClaim, OnlyMinedIsSpent
  <1> QED
    BY <1>1, SecretInvariant, PTL

(* ---- The maker's two ways out ------------------------------------------ *)

\* The maker's two ways out exclude each other.
MakerDecides ==
    /\ revealed => mk \in {"claimSent", "done"} /\ "refund" \notin btcPend /\ btcLeg # "refunded"
    /\ "refund" \in btcPend \/ btcLeg = "refunded"
          => mk \in {"refund", "refundSent", "off", "done"}

DecidedParts == MakerDecides

DecidedInv == SecretInv /\ DecidedParts

LEMMA InitDecidedInv == Init => DecidedInv
  BY InitSecretInv, HeightsAssumption
     DEF Init, NoRec, DecidedInv, DecidedParts, MakerDecides

LEMMA ChainsDecidedInv ==
    ASSUME ~LossyClaim, DecidedInv, Chains
    PROVE  DecidedParts'
  <1> USE DEF DecidedInv, DecidedParts, MakerDecides, SecretInv, SecretParts,
             OnlyMinedIsSpent, ClaimInTime, AssetRefundIsLate, SecretIsTheClaim,
             CoinsNeedSecret, TypeOK, ClaimInFlight, BeforeReveal, Spends, Confirmed,
             LegStates, gateVars, takerVars, makerVars
  <1>1. CASE MineBtc
    BY <1>1, HeightsAssumption, InclusionAssumption DEF MineBtc
  <1>2. CASE MineSeq
    BY <1>2, HeightsAssumption, InclusionAssumption DEF MineSeq
  <1>3. CASE ConfirmBtcFund
    BY <1>3 DEF ConfirmBtcFund
  <1>4. CASE ConfirmSeqFund
    BY <1>4 DEF ConfirmSeqFund
  <1>5. CASE ConfirmBtcSpend
    BY <1>5, HeightsAssumption, InclusionAssumption DEF ConfirmBtcSpend, Spent
  <1>6. CASE ConfirmSeqSpend
    BY <1>6, HeightsAssumption, InclusionAssumption DEF ConfirmSeqSpend, Spent
  <1> QED
    BY <1>1, <1>2, <1>3, <1>4, <1>5, <1>6
       DEF Chains

LEMMA TakerDecidedInv ==
    ASSUME ~LossyClaim, DecidedInv, Taker
    PROVE  DecidedParts'
  <1> USE DEF DecidedInv, DecidedParts, MakerDecides, SecretInv, SecretParts,
             OnlyMinedIsSpent, ClaimInTime, AssetRefundIsLate, SecretIsTheClaim,
             CoinsNeedSecret, TypeOK, ClaimInFlight, BeforeReveal, Spends, Confirmed,
             LegStates, chainVars, gateVars, makerVars, PageOpen
  <1>1. CASE TakerClaimsBtc
    BY <1>1 DEF TakerClaimsBtc, MaySettle
  <1>2. CASE TakerOpens \/ TakerTriesNextOffer \/ TakerGetsBtcLeg \/ TakerSeesBtcMined \/
            TakerAnchorReached \/ TakerAborts \/ TakerVerifies \/ TakerPostsFunding \/
            TakerRecordsFunding \/ TakerSeesAssetMined \/ TakerAnnounces \/
            TakerStartsSettling \/ TakerFault \/ TakerReloads \/ TakerResumesSettling \/
            TakerResumesLeg \/ TakerAdoptsFunding \/ RedriveStarts \/ RedriveAnchorReached
            \/ RedriveStops \/ RedriveVerifies \/ RedriveScans \/ RedrivePosts \/
            RedriveRecords \/ TakerLearnsSecret \/ TakerRefunds \/ TakerAbandons
    <2>1. UNCHANGED <<btcLeg, btcPend, revealed, makerVars>>
      BY <1>2 DEF TakerOpens, TakerTriesNextOffer, TakerGetsBtcLeg, NoRec,
         TakerSeesBtcMined, TakerAnchorReached, TakerAborts, TakerVerifies,
         TakerPostsFunding, TakerRecordsFunding, HasTxid, TakerSeesAssetMined,
         TakerAnnounces, TakerStartsSettling, TakerFault, TakerReloads,
         TakerResumesSettling, TakerResumesLeg, TakerAdoptsFunding, RedriveStarts,
         RedriveAnchorReached, RedriveStops, RedriveVerifies, RedriveScans, RedrivePosts,
         RedriveRecords, TakerLearnsSecret, TakerRefunds, TakerAbandons
    <2> QED
      BY <2>1
  <1> QED
    BY <1>1, <1>2
       DEF Taker

LEMMA MakerDecidedInv ==
    ASSUME ~LossyClaim, DecidedInv, Maker
    PROVE  DecidedParts'
  <1> USE DEF DecidedInv, DecidedParts, MakerDecides, SecretInv, SecretParts,
             OnlyMinedIsSpent, ClaimInTime, AssetRefundIsLate, SecretIsTheClaim,
             CoinsNeedSecret, TypeOK, ClaimInFlight, BeforeReveal, Spends, Confirmed,
             LegStates, chainVars, gateVars, takerVars
  <1>1. CASE MakerGetsTermsRequest
    BY <1>1 DEF MakerGetsTermsRequest
  <1>2. CASE MakerPostsBtc
    BY <1>2 DEF MakerPostsBtc
  <1>3. CASE MakerAnnouncesBtc
    BY <1>3 DEF MakerAnnouncesBtc
  <1>4. CASE MakerGetsSeqLeg
    BY <1>4 DEF MakerGetsSeqLeg
  <1>5. CASE MakerGivesUp
    BY <1>5 DEF MakerGivesUp
  <1>6. CASE MakerVerifiesAsset
    BY <1>6 DEF MakerVerifiesAsset
  <1>7. CASE UserCancels
    BY <1>7 DEF UserCancels
  <1>8. CASE MakerGateCancels
    BY <1>8 DEF MakerGateCancels
  <1>9. CASE MakerGatePasses
    BY <1>9, HeightsAssumption, InclusionAssumption DEF MakerGatePasses, NearSeqRefund
  <1>10. CASE MakerGateCloses
    BY <1>10 DEF MakerGateCloses
  <1>11. CASE MakerClaims
    BY <1>11, HeightsAssumption, InclusionAssumption DEF MakerClaims
  <1>12. CASE MakerRecordsClaim
    BY <1>12 DEF MakerRecordsClaim
  <1>13. CASE MakerRefundsBtc
    <2>1. CASE mrec = "outpoint" /\ btcLeg = "mined"
      BY <1>13, <2>1 DEF MakerRefundsBtc
    <2>2. CASE ~(mrec = "outpoint" /\ btcLeg = "mined")
      BY <1>13, <2>2 DEF MakerRefundsBtc
    <2> QED
      BY <2>1, <2>2
  <1>14. CASE MakerRecordsRefund
    BY <1>14 DEF MakerRecordsRefund
  <1>15. CASE MakerFault
    BY <1>15 DEF MakerFault, MakerLive
  <1>16. CASE MakerReloads
    BY <1>16 DEF MakerReloads, Dropped
  <1> QED
    BY <1>1, <1>2, <1>3, <1>4, <1>5, <1>6, <1>7, <1>8, <1>9, <1>10, <1>11, <1>12, <1>13,
       <1>14, <1>15, <1>16
       DEF Maker

LEMMA StepDecidedInv ==
    ASSUME ~LossyClaim
    PROVE  DecidedInv /\ [Next]_vars => DecidedInv'
  <1>1. DecidedInv /\ UNCHANGED vars => DecidedParts'
    BY DEF DecidedInv, DecidedParts, MakerDecides, vars, chainVars, gateVars, takerVars, makerVars
  <1>2. DecidedInv /\ Next => DecidedParts'
    BY ChainsDecidedInv, TakerDecidedInv, MakerDecidedInv DEF Next
  <1>3. DecidedInv /\ [Next]_vars => SecretInv'
    BY StepSecretInv DEF DecidedInv
  <1> QED
    BY <1>1, <1>2, <1>3 DEF DecidedInv

LEMMA DecidedInvariant ==
    ASSUME ~LossyClaim
    PROVE  Spec => []DecidedInv
  BY InitDecidedInv, StepDecidedInv, PTL DEF Spec

(* ---- The funding of the asset ------------------------------------------ *)

\* The asset is funded against a confirmed BTC leg, in time for T_seq.
FundedAgainstCoins ==
    /\ seqLeg # "none" => btcLeg \in Confirmed
    /\ Posting => /\ btcLeg \in Confirmed
                  /\ lockAt + ClaimWindow < TSeq /\ seqTip <= lockAt + Inclusion

FundedParts == FundedAgainstCoins

FundedInv == SecretInv /\ FundedParts

LEMMA InitFundedInv == Init => FundedInv
  BY InitSecretInv, HeightsAssumption
     DEF Init, NoRec, FundedInv, FundedParts, FundedAgainstCoins, Posting, Confirmed, LegStates

LEMMA ChainsFundedInv ==
    ASSUME FundedInv, Chains
    PROVE  FundedParts'
  <1> USE DEF FundedInv, FundedParts, FundedAgainstCoins, SecretInv, SecretParts,
             OnlyMinedIsSpent, ClaimInTime, AssetRefundIsLate, SecretIsTheClaim,
             CoinsNeedSecret, TypeOK, ClaimInFlight, BeforeReveal, Spends, Confirmed,
             LegStates, Posting, gateVars, takerVars, makerVars
  <1>1. CASE MineBtc
    BY <1>1, HeightsAssumption, InclusionAssumption DEF MineBtc
  <1>2. CASE MineSeq
    BY <1>2, HeightsAssumption, InclusionAssumption DEF MineSeq
  <1>3. CASE ConfirmBtcFund
    BY <1>3 DEF ConfirmBtcFund
  <1>4. CASE ConfirmSeqFund
    BY <1>4 DEF ConfirmSeqFund
  <1>5. CASE ConfirmBtcSpend
    BY <1>5, HeightsAssumption, InclusionAssumption DEF ConfirmBtcSpend, Spent
  <1>6. CASE ConfirmSeqSpend
    BY <1>6, HeightsAssumption, InclusionAssumption DEF ConfirmSeqSpend, Spent
  <1> QED
    BY <1>1, <1>2, <1>3, <1>4, <1>5, <1>6
       DEF Chains

LEMMA TakerFundedInv ==
    ASSUME ~LossyTips, FundedInv, Taker
    PROVE  FundedParts'
  <1> USE DEF FundedInv, FundedParts, FundedAgainstCoins, SecretInv, SecretParts,
             OnlyMinedIsSpent, ClaimInTime, AssetRefundIsLate, SecretIsTheClaim,
             CoinsNeedSecret, TypeOK, ClaimInFlight, BeforeReveal, Spends, Confirmed,
             LegStates, Posting, chainVars, gateVars, makerVars, PageOpen
  <1>1. CASE TakerVerifies
    BY <1>1, HeightsAssumption, InclusionAssumption DEF TakerVerifies, FundWindowClosed,
       TipReads
  <1>2. CASE TakerPostsFunding
    BY <1>2, HeightsAssumption, InclusionAssumption DEF TakerPostsFunding, AssetFundingAccepted
  <1>3. CASE TakerRecordsFunding
    BY <1>3 DEF TakerRecordsFunding, HasTxid
  <1>4. CASE TakerFault
    BY <1>4 DEF TakerFault
  <1>5. CASE RedriveStarts
    BY <1>5 DEF RedriveStarts, BeatIsOld
  <1>6. CASE RedriveAnchorReached
    BY <1>6 DEF RedriveAnchorReached
  <1>7. CASE RedriveStops
    BY <1>7 DEF RedriveStops
  <1>8. CASE RedriveVerifies
    BY <1>8, HeightsAssumption, InclusionAssumption DEF RedriveVerifies, FundWindowClosed,
       TipReads
  <1>9. CASE RedriveScans
    BY <1>9 DEF RedriveScans, HasTxid, FundingSeen, Reads
  <1>10. CASE RedrivePosts
    BY <1>10, HeightsAssumption, InclusionAssumption DEF RedrivePosts, AssetFundingAccepted
  <1>11. CASE RedriveRecords
    BY <1>11 DEF RedriveRecords, HasTxid
  <1>12. CASE TakerOpens \/ TakerTriesNextOffer \/ TakerGetsBtcLeg \/ TakerSeesBtcMined \/
            TakerAnchorReached \/ TakerAborts \/ TakerSeesAssetMined \/ TakerAnnounces \/
            TakerStartsSettling \/ TakerReloads \/ TakerResumesSettling \/ TakerResumesLeg
            \/ TakerAdoptsFunding \/ TakerLearnsSecret \/ TakerClaimsBtc \/ TakerRefunds \/
            TakerAbandons
    <2>1. UNCHANGED <<btcLeg, seqTip, lockAt, seqLeg>> /\ (Posting' => Posting)
      BY <1>12 DEF TakerOpens, TakerTriesNextOffer, TakerGetsBtcLeg, NoRec,
         TakerSeesBtcMined, TakerAnchorReached, TakerAborts, TakerSeesAssetMined,
         TakerAnnounces, TakerStartsSettling, TakerReloads, TakerResumesSettling,
         TakerResumesLeg, TakerAdoptsFunding, HasTxid, TakerLearnsSecret, TakerClaimsBtc,
         TakerRefunds, TakerAbandons
    <2> QED
      BY <2>1
  <1> QED
    BY <1>1, <1>2, <1>3, <1>4, <1>5, <1>6, <1>7, <1>8, <1>9, <1>10, <1>11, <1>12
       DEF Taker

LEMMA MakerFundedInv ==
    ASSUME FundedInv, Maker
    PROVE  FundedParts'
  <1> USE DEF FundedInv, FundedParts, FundedAgainstCoins, SecretInv, SecretParts,
             OnlyMinedIsSpent, ClaimInTime, AssetRefundIsLate, SecretIsTheClaim,
             CoinsNeedSecret, TypeOK, ClaimInFlight, BeforeReveal, Spends, Confirmed,
             LegStates, Posting, chainVars, gateVars, takerVars
  <1>1. CASE MakerPostsBtc
    BY <1>1 DEF MakerPostsBtc
  <1>2. CASE MakerFault
    BY <1>2 DEF MakerFault, MakerLive
  <1>3. CASE MakerGetsTermsRequest \/ MakerAnnouncesBtc \/ MakerGetsSeqLeg \/ MakerGivesUp
            \/ MakerVerifiesAsset \/ UserCancels \/ MakerGateCancels \/ MakerGatePasses \/
            MakerGateCloses \/ MakerClaims \/ MakerRecordsClaim \/ MakerRefundsBtc \/
            MakerRecordsRefund \/ MakerReloads
    <2>1. UNCHANGED <<btcLeg, seqTip, lockAt, seqLeg, tk, rd>>
      BY <1>3 DEF MakerGetsTermsRequest, MakerAnnouncesBtc, MakerGetsSeqLeg, MakerGivesUp,
         MakerVerifiesAsset, UserCancels, MakerGateCancels, MakerGatePasses,
         MakerGateCloses, MakerClaims, MakerRecordsClaim, MakerRefundsBtc,
         MakerRecordsRefund, MakerReloads
    <2> QED
      BY <2>1
  <1> QED
    BY <1>1, <1>2, <1>3
       DEF Maker

LEMMA StepFundedInv ==
    ASSUME ~LossyTips
    PROVE  FundedInv /\ [Next]_vars => FundedInv'
  <1>1. FundedInv /\ UNCHANGED vars => FundedParts'
    BY DEF FundedInv, FundedParts, FundedAgainstCoins, Posting, Confirmed, LegStates, vars, chainVars, gateVars, takerVars, makerVars
  <1>2. FundedInv /\ Next => FundedParts'
    BY ChainsFundedInv, TakerFundedInv, MakerFundedInv DEF Next
  <1>3. FundedInv /\ [Next]_vars => SecretInv'
    BY StepSecretInv DEF FundedInv
  <1> QED
    BY <1>1, <1>2, <1>3 DEF FundedInv

LEMMA FundedInvariant ==
    ASSUME ~LossyTips
    PROVE  Spec => []FundedInv
  BY InitFundedInv, StepFundedInv, PTL DEF Spec

(* ---- The timelocks ----------------------------------------------------- *)

\* Sequentia's deadline comes first, and the BTC goes back only after its own.
BtcRefundIsLate ==
    /\ btcTip >= TBtc => seqTip >= TSeq
    /\ "refund" \in btcPend \/ btcLeg = "refunded" => btcTip >= TBtc

LateParts == BtcRefundIsLate

LateInv == SecretInv /\ LateParts

LEMMA InitLateInv == Init => LateInv
  BY InitSecretInv, HeightsAssumption
     DEF Init, NoRec, LateInv, LateParts, BtcRefundIsLate

LEMMA ChainsLateInv ==
    ASSUME SeqFirst, LateInv, Chains
    PROVE  LateParts'
  <1> USE DEF LateInv, LateParts, BtcRefundIsLate, SecretInv, SecretParts, OnlyMinedIsSpent,
             ClaimInTime, AssetRefundIsLate, SecretIsTheClaim, CoinsNeedSecret, TypeOK,
             ClaimInFlight, BeforeReveal, Spends, Confirmed, LegStates, gateVars, takerVars,
             makerVars
  <1>1. CASE MineBtc
    BY <1>1, HeightsAssumption, InclusionAssumption DEF MineBtc
  <1>2. CASE MineSeq
    BY <1>2, HeightsAssumption, InclusionAssumption DEF MineSeq
  <1>3. CASE ConfirmBtcFund
    BY <1>3 DEF ConfirmBtcFund
  <1>4. CASE ConfirmSeqFund
    BY <1>4 DEF ConfirmSeqFund
  <1>5. CASE ConfirmBtcSpend
    BY <1>5, HeightsAssumption, InclusionAssumption DEF ConfirmBtcSpend, Spent
  <1>6. CASE ConfirmSeqSpend
    BY <1>6, HeightsAssumption, InclusionAssumption DEF ConfirmSeqSpend, Spent
  <1> QED
    BY <1>1, <1>2, <1>3, <1>4, <1>5, <1>6
       DEF Chains

LEMMA TakerLateInv ==
    ASSUME SeqFirst, LateInv, Taker
    PROVE  LateParts'
  <1> USE DEF LateInv, LateParts, BtcRefundIsLate, SecretInv, SecretParts, OnlyMinedIsSpent,
             ClaimInTime, AssetRefundIsLate, SecretIsTheClaim, CoinsNeedSecret, TypeOK,
             ClaimInFlight, BeforeReveal, Spends, Confirmed, LegStates, chainVars, gateVars,
             makerVars, PageOpen
  <1>1. CASE TakerClaimsBtc
    BY <1>1 DEF TakerClaimsBtc, MaySettle
  <1>2. CASE TakerOpens \/ TakerTriesNextOffer \/ TakerGetsBtcLeg \/ TakerSeesBtcMined \/
            TakerAnchorReached \/ TakerAborts \/ TakerVerifies \/ TakerPostsFunding \/
            TakerRecordsFunding \/ TakerSeesAssetMined \/ TakerAnnounces \/
            TakerStartsSettling \/ TakerFault \/ TakerReloads \/ TakerResumesSettling \/
            TakerResumesLeg \/ TakerAdoptsFunding \/ RedriveStarts \/ RedriveAnchorReached
            \/ RedriveStops \/ RedriveVerifies \/ RedriveScans \/ RedrivePosts \/
            RedriveRecords \/ TakerLearnsSecret \/ TakerRefunds \/ TakerAbandons
    <2>1. UNCHANGED <<btcTip, seqTip, btcLeg, btcPend>>
      BY <1>2 DEF TakerOpens, TakerTriesNextOffer, TakerGetsBtcLeg, NoRec,
         TakerSeesBtcMined, TakerAnchorReached, TakerAborts, TakerVerifies,
         TakerPostsFunding, TakerRecordsFunding, HasTxid, TakerSeesAssetMined,
         TakerAnnounces, TakerStartsSettling, TakerFault, TakerReloads,
         TakerResumesSettling, TakerResumesLeg, TakerAdoptsFunding, RedriveStarts,
         RedriveAnchorReached, RedriveStops, RedriveVerifies, RedriveScans, RedrivePosts,
         RedriveRecords, TakerLearnsSecret, TakerRefunds, TakerAbandons
    <2> QED
      BY <2>1
  <1> QED
    BY <1>1, <1>2
       DEF Taker

LEMMA MakerLateInv ==
    ASSUME SeqFirst, LateInv, Maker
    PROVE  LateParts'
  <1> USE DEF LateInv, LateParts, BtcRefundIsLate, SecretInv, SecretParts, OnlyMinedIsSpent,
             ClaimInTime, AssetRefundIsLate, SecretIsTheClaim, CoinsNeedSecret, TypeOK,
             ClaimInFlight, BeforeReveal, Spends, Confirmed, LegStates, chainVars, gateVars,
             takerVars
  <1>1. CASE MakerPostsBtc
    BY <1>1 DEF MakerPostsBtc
  <1>2. CASE MakerRefundsBtc
    <2>1. CASE mrec = "outpoint" /\ btcLeg = "mined"
      BY <1>2, <2>1 DEF MakerRefundsBtc
    <2>2. CASE ~(mrec = "outpoint" /\ btcLeg = "mined")
      BY <1>2, <2>2 DEF MakerRefundsBtc
    <2> QED
      BY <2>1, <2>2
  <1>3. CASE MakerFault
    BY <1>3 DEF MakerFault, MakerLive
  <1>4. CASE MakerGetsTermsRequest \/ MakerAnnouncesBtc \/ MakerGetsSeqLeg \/ MakerGivesUp
            \/ MakerVerifiesAsset \/ UserCancels \/ MakerGateCancels \/ MakerGatePasses \/
            MakerGateCloses \/ MakerClaims \/ MakerRecordsClaim \/ MakerRecordsRefund \/
            MakerReloads
    <2>1. UNCHANGED <<btcTip, seqTip, btcLeg, btcPend>>
      BY <1>4 DEF MakerGetsTermsRequest, MakerAnnouncesBtc, MakerGetsSeqLeg, MakerGivesUp,
         MakerVerifiesAsset, UserCancels, MakerGateCancels, MakerGatePasses,
         MakerGateCloses, MakerClaims, MakerRecordsClaim, MakerRecordsRefund, MakerReloads
    <2> QED
      BY <2>1
  <1> QED
    BY <1>1, <1>2, <1>3, <1>4
       DEF Maker

LEMMA StepLateInv ==
    ASSUME SeqFirst
    PROVE  LateInv /\ [Next]_vars => LateInv'
  <1>1. LateInv /\ UNCHANGED vars => LateParts'
    BY DEF LateInv, LateParts, BtcRefundIsLate, vars, chainVars, gateVars, takerVars, makerVars
  <1>2. LateInv /\ Next => LateParts'
    BY ChainsLateInv, TakerLateInv, MakerLateInv DEF Next
  <1>3. LateInv /\ [Next]_vars => SecretInv'
    BY StepSecretInv DEF LateInv
  <1> QED
    BY <1>1, <1>2, <1>3 DEF LateInv

LEMMA LateInvariant ==
    ASSUME SeqFirst
    PROVE  Spec => []LateInv
  BY InitLateInv, StepLateInv, PTL DEF Spec

(* ---- The taker's record ------------------------------------------------ *)

\* The asset leg is announced after the record has it, and claimed after that.
AnnouncedFirst ==
    /\ "seq_leg_funded" \in msgs \/ tk = "announce"
          => /\ rec.state # "btc_locked" /\ rd = "none"
             /\ tk \in {"announce", "await", "idle", "off"}
    /\ mk \in {"verify", "gate", "claim"} \/ revealed => "seq_leg_funded" \in msgs

\* One program of the page funds at a time, and none where a funding exists.
OneFunder ==
    /\ fundings = IF seqLeg = "none" THEN 0 ELSE 1
    /\ rd # "none" => tk = "idle"
    /\ tk \in {"fresh", "terms", "conf", "anchor", "verify", "posting"} => seqLeg = "none"
    /\ rd \in {"anchor", "verify", "scan", "posting"} => seqLeg = "none"
    /\ rec.asset \in {"txid", "leg"} \/ tk = "posted" \/ rd = "posted" => seqLeg # "none"

\* The record has the asset leg's script before the leg can be funded, and is
\* over only once the leg is spent.
RecordLeads ==
    /\ tk \in {"fresh", "terms"} => rec = NoRec
    /\ tk \in {"conf", "anchor", "verify"} => rec.asset = "none" /\ rec.state \in {"none", "btc_locked"}
    /\ tk = "posting" => rec.asset = "redeem" /\ rec.state = "btc_locked"
    /\ rd \in {"anchor", "verify"} => rec.state \in {"none", "btc_locked"}
    /\ rd \in {"scan", "posting"} => rec.asset = "redeem" /\ rec.state = "btc_locked"
    /\ rec.state = "btc_locked" => seqPend = {} /\ seqLeg \notin {"claimed", "refunded"}
    /\ rec.state = "refunded"
          => seqTip >= TSeq /\ (seqPend # {} \/ seqLeg \in {"claimed", "refunded"})
    /\ rec.state \in {"btc_claimed", "seq_claimed"} => revealed

RecordParts == AnnouncedFirst /\ OneFunder /\ RecordLeads /\ LockedAssetIsOnRecord

RecordInv == SecretInv /\ RecordParts

LEMMA InitRecordInv == Init => RecordInv
  BY InitSecretInv, HeightsAssumption
     DEF Init, NoRec, RecordInv, RecordParts, AnnouncedFirst, OneFunder, RecordLeads, LockedAssetIsOnRecord, Posting, Confirmed, LegStates

LEMMA ChainsRecordInv ==
    ASSUME ~StaleBeat, ~LossyReads, RecordInv, Chains
    PROVE  RecordParts'
  <1> USE DEF RecordInv, RecordParts, AnnouncedFirst, OneFunder, RecordLeads,
             LockedAssetIsOnRecord, SecretInv, SecretParts, OnlyMinedIsSpent, ClaimInTime,
             AssetRefundIsLate, SecretIsTheClaim, CoinsNeedSecret, TypeOK, ClaimInFlight,
             BeforeReveal, Spends, Confirmed, LegStates, Posting, NoRec, LockedAssetIsOnRecord, gateVars, takerVars,
             makerVars
  <1>1. CASE MineBtc
    BY <1>1, HeightsAssumption, InclusionAssumption DEF MineBtc
  <1>2. CASE MineSeq
    BY <1>2, HeightsAssumption, InclusionAssumption DEF MineSeq
  <1>3. CASE ConfirmBtcFund
    BY <1>3 DEF ConfirmBtcFund
  <1>4. CASE ConfirmSeqFund
    BY <1>4 DEF ConfirmSeqFund
  <1>5. CASE ConfirmBtcSpend
    BY <1>5, HeightsAssumption, InclusionAssumption DEF ConfirmBtcSpend, Spent
  <1>6. CASE ConfirmSeqSpend
    BY <1>6, HeightsAssumption, InclusionAssumption DEF ConfirmSeqSpend, Spent
  <1> QED
    BY <1>1, <1>2, <1>3, <1>4, <1>5, <1>6
       DEF Chains

LEMMA TakerRecordInv ==
    ASSUME ~StaleBeat, ~LossyReads, RecordInv, Taker
    PROVE  RecordParts'
  <1> USE DEF RecordInv, RecordParts, AnnouncedFirst, OneFunder, RecordLeads,
             LockedAssetIsOnRecord, SecretInv, SecretParts, OnlyMinedIsSpent, ClaimInTime,
             AssetRefundIsLate, SecretIsTheClaim, CoinsNeedSecret, TypeOK, ClaimInFlight,
             BeforeReveal, Spends, Confirmed, LegStates, Posting, NoRec, LockedAssetIsOnRecord, chainVars, gateVars,
             makerVars, PageOpen
  <1>1. CASE TakerOpens
    BY <1>1 DEF TakerOpens
  <1>2. CASE TakerTriesNextOffer
    BY <1>2 DEF TakerTriesNextOffer
  <1>3. CASE TakerGetsBtcLeg
    BY <1>3 DEF TakerGetsBtcLeg, NoRec
  <1>4. CASE TakerSeesBtcMined
    BY <1>4 DEF TakerSeesBtcMined
  <1>5. CASE TakerAnchorReached
    BY <1>5 DEF TakerAnchorReached
  <1>6. CASE TakerAborts
    BY <1>6 DEF TakerAborts
  <1>7. CASE TakerVerifies
    BY <1>7, HeightsAssumption, InclusionAssumption DEF TakerVerifies
  <1>8. CASE TakerPostsFunding
    BY <1>8, HeightsAssumption, InclusionAssumption DEF TakerPostsFunding, AssetFundingAccepted
  <1>9. CASE TakerRecordsFunding
    BY <1>9 DEF TakerRecordsFunding, HasTxid
  <1>10. CASE TakerSeesAssetMined
    BY <1>10 DEF TakerSeesAssetMined
  <1>11. CASE TakerAnnounces
    BY <1>11 DEF TakerAnnounces
  <1>12. CASE TakerStartsSettling
    BY <1>12 DEF TakerStartsSettling, MaySettle
  <1>13. CASE TakerFault
    BY <1>13 DEF TakerFault
  <1>14. CASE TakerReloads
    BY <1>14 DEF TakerReloads
  <1>15. CASE TakerResumesSettling
    BY <1>15 DEF TakerResumesSettling
  <1>16. CASE TakerResumesLeg
    BY <1>16 DEF TakerResumesLeg
  <1>17. CASE TakerAdoptsFunding
    BY <1>17 DEF TakerAdoptsFunding, HasTxid, FundingSeen
  <1>18. CASE RedriveStarts
    BY <1>18 DEF RedriveStarts, BeatIsOld, FundingSeen, Reads
  <1>19. CASE RedriveAnchorReached
    BY <1>19 DEF RedriveAnchorReached
  <1>20. CASE RedriveStops
    BY <1>20 DEF RedriveStops
  <1>21. CASE RedriveVerifies
    <2>1. seqLeg = "none" /\ rec.asset \in {"none", "redeem"} /\ rec.state = "btc_locked"
      BY <1>21 DEF RedriveVerifies, RecStates, AssetParts
    <2>2. rec'.asset = "redeem" /\ rec'.state = "btc_locked"
      BY <1>21, <2>1 DEF RedriveVerifies
    <2>3. UNCHANGED <<btcTip, seqTip, btcLeg, btcPend, seqLeg, seqPend, fundings, revealed,
                      msgs, tk, mk>> /\ rd = "verify" /\ rd' = "scan"
      BY <1>21 DEF RedriveVerifies
    <2> QED
      BY <2>1, <2>2, <2>3
  <1>22. CASE RedriveScans
    <2>1. seqLeg = "none" /\ rec.asset \notin {"txid", "leg"} /\ ~FundingSeen
      BY <1>22 DEF RedriveScans, FundingSeen
    <2> QED
      BY <1>22, <2>1 DEF RedriveScans, Reads
  <1>23. CASE RedrivePosts
    BY <1>23, HeightsAssumption, InclusionAssumption DEF RedrivePosts, AssetFundingAccepted
  <1>24. CASE RedriveRecords
    BY <1>24 DEF RedriveRecords, HasTxid
  <1>25. CASE TakerLearnsSecret
    BY <1>25 DEF TakerLearnsSecret, MaySettle, PreimageOnChain
  <1>26. CASE TakerClaimsBtc
    BY <1>26 DEF TakerClaimsBtc, MaySettle
  <1>27. CASE TakerRefunds
    BY <1>27, HeightsAssumption, InclusionAssumption DEF TakerRefunds
  <1>28. CASE TakerAbandons
    BY <1>28 DEF TakerAbandons, AbandonAllowed, NoRec
  <1> QED
    BY <1>1, <1>2, <1>3, <1>4, <1>5, <1>6, <1>7, <1>8, <1>9, <1>10, <1>11, <1>12, <1>13,
       <1>14, <1>15, <1>16, <1>17, <1>18, <1>19, <1>20, <1>21, <1>22, <1>23, <1>24, <1>25,
       <1>26, <1>27, <1>28
       DEF Taker

LEMMA MakerRecordInv ==
    ASSUME ~StaleBeat, ~LossyReads, RecordInv, Maker
    PROVE  RecordParts'
  <1> USE DEF RecordInv, RecordParts, AnnouncedFirst, OneFunder, RecordLeads,
             LockedAssetIsOnRecord, SecretInv, SecretParts, OnlyMinedIsSpent, ClaimInTime,
             AssetRefundIsLate, SecretIsTheClaim, CoinsNeedSecret, TypeOK, ClaimInFlight,
             BeforeReveal, Spends, Confirmed, LegStates, Posting, NoRec, LockedAssetIsOnRecord, chainVars, gateVars,
             takerVars
  <1>1. CASE MakerPostsBtc
    BY <1>1 DEF MakerPostsBtc
  <1>2. CASE MakerGetsSeqLeg
    BY <1>2 DEF MakerGetsSeqLeg
  <1>3. CASE MakerVerifiesAsset
    BY <1>3 DEF MakerVerifiesAsset
  <1>4. CASE MakerGatePasses
    BY <1>4, HeightsAssumption, InclusionAssumption DEF MakerGatePasses, NearSeqRefund
  <1>5. CASE MakerClaims
    BY <1>5, HeightsAssumption, InclusionAssumption DEF MakerClaims
  <1>6. CASE MakerFault
    BY <1>6 DEF MakerFault, MakerLive
  <1>7. CASE MakerGetsTermsRequest \/ MakerAnnouncesBtc \/ MakerGivesUp \/ UserCancels \/
            MakerGateCancels \/ MakerGateCloses \/ MakerRecordsClaim \/ MakerRefundsBtc \/
            MakerRecordsRefund \/ MakerReloads
    <2>1. UNCHANGED <<seqTip, seqLeg, seqPend, fundings, revealed, takerVars>>
          /\ ("seq_leg_funded" \in msgs => "seq_leg_funded" \in msgs')
          /\ ("seq_leg_funded" \in msgs' => "seq_leg_funded" \in msgs)
          /\ (mk' \in {"verify", "gate", "claim"} => mk \in {"verify", "gate", "claim"})
      BY <1>7 DEF MakerGetsTermsRequest, MakerAnnouncesBtc, MakerGivesUp, UserCancels,
         MakerGateCancels, MakerGateCloses, MakerRecordsClaim, MakerRefundsBtc,
         MakerRecordsRefund, MakerReloads
    <2> QED
      BY <2>1
  <1> QED
    BY <1>1, <1>2, <1>3, <1>4, <1>5, <1>6, <1>7
       DEF Maker

LEMMA StepRecordInv ==
    ASSUME ~StaleBeat, ~LossyReads
    PROVE  RecordInv /\ [Next]_vars => RecordInv'
  <1>1. RecordInv /\ UNCHANGED vars => RecordParts'
    BY DEF RecordInv, RecordParts, AnnouncedFirst, OneFunder, RecordLeads, LockedAssetIsOnRecord, Posting, Confirmed, LegStates, vars, chainVars, gateVars, takerVars, makerVars
  <1>2. RecordInv /\ Next => RecordParts'
    BY ChainsRecordInv, TakerRecordInv, MakerRecordInv DEF Next
  <1>3. RecordInv /\ [Next]_vars => SecretInv'
    BY StepSecretInv DEF RecordInv
  <1> QED
    BY <1>1, <1>2, <1>3 DEF RecordInv

LEMMA RecordInvariant ==
    ASSUME ~StaleBeat, ~LossyReads
    PROVE  Spec => []RecordInv
  BY InitRecordInv, StepRecordInv, PTL DEF Spec

(* ---- The maker's record ------------------------------------------------ *)

\* A maker past its lock has the outpoint, or is done with the leg.
OutpointIsKept ==
    /\ mk \in {"recv", "verify", "gate", "claim", "claimSent", "refund", "refundSent", "off"}
          => mrec = "outpoint"
    /\ mk \in {"refundSent", "done"}
          => revealed \/ "refund" \in btcPend \/ btcLeg \in {"claimed", "refunded"}

KeptParts == OutpointIsKept

KeptInv == SecretInv /\ KeptParts

LEMMA InitKeptInv == Init => KeptInv
  BY InitSecretInv, HeightsAssumption
     DEF Init, NoRec, KeptInv, KeptParts, OutpointIsKept

LEMMA ChainsKeptInv ==
    ASSUME ~FundingFault, KeptInv, Chains
    PROVE  KeptParts'
  <1> USE DEF KeptInv, KeptParts, OutpointIsKept, SecretInv, SecretParts, OnlyMinedIsSpent,
             ClaimInTime, AssetRefundIsLate, SecretIsTheClaim, CoinsNeedSecret, TypeOK,
             ClaimInFlight, BeforeReveal, Spends, Confirmed, LegStates, MakerPcs, gateVars,
             takerVars, makerVars
  <1>1. CASE MineBtc
    BY <1>1, HeightsAssumption, InclusionAssumption DEF MineBtc
  <1>2. CASE MineSeq
    BY <1>2, HeightsAssumption, InclusionAssumption DEF MineSeq
  <1>3. CASE ConfirmBtcFund
    BY <1>3 DEF ConfirmBtcFund
  <1>4. CASE ConfirmSeqFund
    BY <1>4 DEF ConfirmSeqFund
  <1>5. CASE ConfirmBtcSpend
    BY <1>5, HeightsAssumption, InclusionAssumption DEF ConfirmBtcSpend, Spent
  <1>6. CASE ConfirmSeqSpend
    BY <1>6, HeightsAssumption, InclusionAssumption DEF ConfirmSeqSpend, Spent
  <1> QED
    BY <1>1, <1>2, <1>3, <1>4, <1>5, <1>6
       DEF Chains

LEMMA TakerKeptInv ==
    ASSUME ~FundingFault, KeptInv, Taker
    PROVE  KeptParts'
  <1> USE DEF KeptInv, KeptParts, OutpointIsKept, SecretInv, SecretParts, OnlyMinedIsSpent,
             ClaimInTime, AssetRefundIsLate, SecretIsTheClaim, CoinsNeedSecret, TypeOK,
             ClaimInFlight, BeforeReveal, Spends, Confirmed, LegStates, MakerPcs, chainVars,
             gateVars, makerVars, PageOpen
  <1>1. CASE TakerClaimsBtc
    BY <1>1 DEF TakerClaimsBtc, MaySettle
  <1>2. CASE TakerOpens \/ TakerTriesNextOffer \/ TakerGetsBtcLeg \/ TakerSeesBtcMined \/
            TakerAnchorReached \/ TakerAborts \/ TakerVerifies \/ TakerPostsFunding \/
            TakerRecordsFunding \/ TakerSeesAssetMined \/ TakerAnnounces \/
            TakerStartsSettling \/ TakerFault \/ TakerReloads \/ TakerResumesSettling \/
            TakerResumesLeg \/ TakerAdoptsFunding \/ RedriveStarts \/ RedriveAnchorReached
            \/ RedriveStops \/ RedriveVerifies \/ RedriveScans \/ RedrivePosts \/
            RedriveRecords \/ TakerLearnsSecret \/ TakerRefunds \/ TakerAbandons
    <2>1. UNCHANGED <<btcLeg, btcPend, revealed, makerVars>>
      BY <1>2 DEF TakerOpens, TakerTriesNextOffer, TakerGetsBtcLeg, NoRec,
         TakerSeesBtcMined, TakerAnchorReached, TakerAborts, TakerVerifies,
         TakerPostsFunding, TakerRecordsFunding, HasTxid, TakerSeesAssetMined,
         TakerAnnounces, TakerStartsSettling, TakerFault, TakerReloads,
         TakerResumesSettling, TakerResumesLeg, TakerAdoptsFunding, RedriveStarts,
         RedriveAnchorReached, RedriveStops, RedriveVerifies, RedriveScans, RedrivePosts,
         RedriveRecords, TakerLearnsSecret, TakerRefunds, TakerAbandons
    <2> QED
      BY <2>1
  <1> QED
    BY <1>1, <1>2
       DEF Taker

LEMMA MakerKeptInv ==
    ASSUME ~FundingFault, KeptInv, Maker
    PROVE  KeptParts'
  <1> USE DEF KeptInv, KeptParts, OutpointIsKept, SecretInv, SecretParts, OnlyMinedIsSpent,
             ClaimInTime, AssetRefundIsLate, SecretIsTheClaim, CoinsNeedSecret, TypeOK,
             ClaimInFlight, BeforeReveal, Spends, Confirmed, LegStates, MakerPcs, chainVars,
             gateVars, takerVars
  <1>1. CASE MakerGetsTermsRequest
    BY <1>1 DEF MakerGetsTermsRequest
  <1>2. CASE MakerPostsBtc
    BY <1>2 DEF MakerPostsBtc
  <1>3. CASE MakerAnnouncesBtc
    BY <1>3 DEF MakerAnnouncesBtc
  <1>4. CASE MakerGetsSeqLeg
    BY <1>4 DEF MakerGetsSeqLeg
  <1>5. CASE MakerGivesUp
    BY <1>5 DEF MakerGivesUp
  <1>6. CASE MakerVerifiesAsset
    BY <1>6 DEF MakerVerifiesAsset
  <1>7. CASE UserCancels
    BY <1>7 DEF UserCancels
  <1>8. CASE MakerGateCancels
    BY <1>8 DEF MakerGateCancels
  <1>9. CASE MakerGatePasses
    BY <1>9, HeightsAssumption, InclusionAssumption DEF MakerGatePasses, NearSeqRefund
  <1>10. CASE MakerGateCloses
    BY <1>10 DEF MakerGateCloses
  <1>11. CASE MakerClaims
    BY <1>11, HeightsAssumption, InclusionAssumption DEF MakerClaims
  <1>12. CASE MakerRecordsClaim
    BY <1>12 DEF MakerRecordsClaim
  <1>13. CASE MakerRefundsBtc
    <2>1. CASE mrec = "outpoint" /\ btcLeg = "mined"
      BY <1>13, <2>1 DEF MakerRefundsBtc
    <2>2. CASE ~(mrec = "outpoint" /\ btcLeg = "mined")
      BY <1>13, <2>2 DEF MakerRefundsBtc
    <2> QED
      BY <2>1, <2>2
  <1>14. CASE MakerRecordsRefund
    BY <1>14 DEF MakerRecordsRefund
  <1>15. CASE MakerFault
    BY <1>15 DEF MakerFault, MakerLive
  <1>16. CASE MakerReloads
    BY <1>16 DEF MakerReloads, Dropped
  <1> QED
    BY <1>1, <1>2, <1>3, <1>4, <1>5, <1>6, <1>7, <1>8, <1>9, <1>10, <1>11, <1>12, <1>13,
       <1>14, <1>15, <1>16
       DEF Maker

LEMMA StepKeptInv ==
    ASSUME ~FundingFault
    PROVE  KeptInv /\ [Next]_vars => KeptInv'
  <1>1. KeptInv /\ UNCHANGED vars => KeptParts'
    BY DEF KeptInv, KeptParts, OutpointIsKept, vars, chainVars, gateVars, takerVars, makerVars
  <1>2. KeptInv /\ Next => KeptParts'
    BY ChainsKeptInv, TakerKeptInv, MakerKeptInv DEF Next
  <1>3. KeptInv /\ [Next]_vars => SecretInv'
    BY StepSecretInv DEF KeptInv
  <1> QED
    BY <1>1, <1>2, <1>3 DEF KeptInv

LEMMA KeptInvariant ==
    ASSUME ~FundingFault
    PROVE  Spec => []KeptInv
  BY InitKeptInv, StepKeptInv, PTL DEF Spec

(* ---- What the invariants give -------------------------------------------- *)

\* The taker never pays for nothing, however long its page stays closed.
THEOREM TakerSafe ==
    ASSUME ~LossyClaim
    PROVE  Spec => []TakerNeverPaysForNothing
  <1>1. DecidedInv => TakerNeverPaysForNothing
    BY DEF DecidedInv, DecidedParts, SecretInv, SecretParts, TakerNeverPaysForNothing,
           MakerDecides, SecretIsTheClaim
  <1> QED
    BY <1>1, DecidedInvariant, PTL

\* The steps that move a leg or show the secret.
Moves == \/ ConfirmBtcFund \/ ConfirmSeqFund \/ ConfirmBtcSpend \/ ConfirmSeqSpend
         \/ TakerPostsFunding \/ RedrivePosts
         \/ MakerPostsBtc \/ MakerClaims \/ MakerFault

LEMMA OthersStutter == Next => Moves \/ UNCHANGED <<btcLeg, seqLeg, revealed>>
  <1> USE DEF Moves, chainVars, gateVars
  <1>1. Chains => Moves \/ UNCHANGED <<btcLeg, seqLeg, revealed>>
    BY DEF Chains, MineBtc, MineSeq
  <1>2. Taker => Moves \/ UNCHANGED <<btcLeg, seqLeg, revealed>>
    BY DEF Taker, TakerOpens, TakerTriesNextOffer, TakerGetsBtcLeg, TakerSeesBtcMined,
           TakerAnchorReached, TakerAborts, TakerVerifies, TakerRecordsFunding,
           TakerSeesAssetMined, TakerAnnounces, TakerStartsSettling, TakerFault,
           TakerReloads, TakerResumesSettling, TakerResumesLeg, TakerAdoptsFunding,
           RedriveStarts, RedriveAnchorReached, RedriveStops, RedriveVerifies,
           RedriveScans, RedriveRecords, TakerLearnsSecret, TakerClaimsBtc,
           TakerRefunds, TakerAbandons
  <1>3. Maker => Moves \/ UNCHANGED <<btcLeg, seqLeg, revealed>>
    BY DEF Maker, MakerGetsTermsRequest, MakerAnnouncesBtc, MakerGetsSeqLeg,
           MakerGivesUp, MakerVerifiesAsset, UserCancels, MakerGateCancels,
           MakerGatePasses, MakerGateCloses, MakerRecordsClaim, MakerRefundsBtc,
           MakerRecordsRefund, MakerReloads
  <1> QED
    BY <1>1, <1>2, <1>3 DEF Next

\* A program that posts the funding does so before any refund of the BTC opens.
LEMMA FundsAgainstLiveBtc ==
    ASSUME SeqFirst, FundedInv, LateInv, TakerPostsFunding \/ RedrivePosts, seqLeg = "none"
    PROVE  btcLeg = "mined" /\ btcPend = {}
  <1> USE DEF FundedInv, SecretInv, SecretParts, TypeOK
  <1>1. Posting
    BY DEF Posting, TakerPostsFunding, RedrivePosts
  <1>2. btcLeg \in Confirmed /\ seqTip < TSeq
    BY <1>1, HeightsAssumption, InclusionAssumption DEF FundedParts, FundedAgainstCoins
  <1>3. btcLeg # "refunded" /\ "refund" \notin btcPend
    BY <1>2, HeightsAssumption DEF LateInv, LateParts, BtcRefundIsLate
  <1>4. btcLeg # "claimed" /\ "claim" \notin btcPend
    BY DEF SecretIsTheClaim, OnlyMinedIsSpent, CoinsNeedSecret
  <1> QED
    BY <1>2, <1>3, <1>4 DEF Confirmed, Spends

\* The asset goes out only against a BTC lock that is mined, not spent and not
\* being refunded, whichever driver of the page funds it, as long as its last
\* window check read the tips.
THEOREM AssetMeetsLiveBtc ==
    ASSUME SeqFirst, ~LossyTips
    PROVE  Spec => AssetLockedAgainstLiveBtc
  <1> DEFINE Live == seqLeg = "none" /\ seqLeg' # "none"
                     => btcLeg = "mined" /\ btcPend = {}
  <1>1. FundedInv /\ LateInv /\ [Next]_vars => Live
    <2> SUFFICES ASSUME FundedInv, LateInv, [Next]_vars, seqLeg = "none", seqLeg' # "none"
                 PROVE  btcLeg = "mined" /\ btcPend = {}
      OBVIOUS
    <2>1. Moves
      BY OthersStutter DEF vars, chainVars
    <2>2. TakerPostsFunding \/ RedrivePosts
      BY <2>1 DEF Moves, ConfirmBtcFund, ConfirmSeqFund, ConfirmBtcSpend, ConfirmSeqSpend,
                  MakerPostsBtc, MakerClaims, MakerFault
    <2> QED
      BY <2>2, FundsAgainstLiveBtc
  <1>2. FundedInv /\ LateInv /\ [Next]_vars => [Live]_vars
    BY <1>1
  <1> QED
    BY FundedInvariant, LateInvariant, <1>2, PTL DEF Spec, AssetLockedAgainstLiveBtc

\* The maker does not start to take the BTC back once its secret is public.
THEOREM RefundShutByReveal ==
    ASSUME ~LossyClaim
    PROVE  Spec => NoRefundOnceRevealed
  <1> DEFINE Shut == revealed => ("refund" \in btcPend' => "refund" \in btcPend)
  <1>1. revealed /\ [Next]_vars => revealed'
    BY OthersStutter
       DEF vars, gateVars, Moves, ConfirmBtcFund, ConfirmSeqFund, ConfirmBtcSpend,
           ConfirmSeqSpend, TakerPostsFunding, RedrivePosts, MakerPostsBtc, MakerClaims,
           MakerFault
  <1>2. DecidedInv' /\ [Next]_vars => Shut
    BY <1>1 DEF DecidedInv, DecidedParts, MakerDecides
  <1>3. DecidedInv' /\ [Next]_vars => [Shut]_vars
    BY <1>2
  <1> QED
    BY <1>3, DecidedInvariant, PTL DEF Spec, NoRefundOnceRevealed

\* Both steps that cannot be taken back are taken when they may be, if the window
\* checks read their tips and no claim's response is lost.
THEOREM StepsSafe ==
    ASSUME SeqFirst, ~LossyClaim, ~LossyTips
    PROVE  Spec => StepsAreSafe
  BY AssetMeetsLiveBtc, RefundShutByReveal DEF StepsAreSafe

\* The page's drivers never fund the asset HTLC twice, and no locked asset is
\* without the material of its refund on record.
THEOREM AssetOnRecord ==
    ASSUME ~StaleBeat, ~LossyReads
    PROVE  Spec => [](AssetFundedOnce /\ LockedAssetIsOnRecord)
  <1>1. RecordInv => AssetFundedOnce /\ LockedAssetIsOnRecord
    BY DEF RecordInv, RecordParts, OneFunder, AssetFundedOnce
  <1> QED
    BY <1>1, RecordInvariant, PTL

\* The maker's locked BTC always has a driver, or an outpoint on record.
THEOREM BtcOnRecord ==
    ASSUME ~FundingFault
    PROVE  Spec => []LockedBtcIsRecoverable
  <1>1. KeptInv => LockedBtcIsRecoverable
    BY DEF KeptInv, KeptParts, SecretInv, SecretParts, TypeOK, OnlyMinedIsSpent,
           OutpointIsKept, LockedBtcIsRecoverable, MakerLive, MakerPcs
  <1> QED
    BY <1>1, KeptInvariant, PTL

\* All of it: nobody pays for nothing, no leg is funded twice, and each locked
\* leg is on record.
THEOREM LegsKept ==
    ASSUME ~LossyClaim, ~StaleBeat, ~LossyReads, ~FundingFault
    PROVE  Spec => []LegsAreKept
  BY TypeCorrect, TakerSafe, MakerSafe, AssetOnRecord, BtcOnRecord, PTL DEF LegsAreKept

(* ---- The refinement of AtomicSwap ---------------------------------------- *)

\* The leg states as the abstract swap sees them, one fact per state.
LEMMA Places ==
    /\ Place("none") = "held" /\ Place("mempool") = "locked"
    /\ Place("mined") = "locked" /\ Place("claimed") = "paid"
    /\ Place("refunded") = "returned"
  BY DEF Place

LEMMA InitRefines == Init => Swap!Init
  BY Places DEF Init, Swap!Init

\* A step that leaves both legs and the secret alone is a stutter.
LEMMA Stutters ==
    UNCHANGED <<btcLeg, seqLeg, revealed>> => UNCHANGED Swap!swapVars
  BY DEF Swap!swapVars

LEMMA StepRefines ==
    ASSUME SeqFirst, ~LossyClaim, DecidedInv, FundedInv, LateInv, Moves
    PROVE  [Swap!Next]_(Swap!swapVars)
  <1> USE DEF DecidedInv, SecretInv, SecretParts, TypeOK, gateVars
  <1>1. CASE ConfirmBtcFund
    BY <1>1, Places DEF ConfirmBtcFund, Swap!swapVars
  <1>2. CASE ConfirmSeqFund
    BY <1>2, Places DEF ConfirmSeqFund, Swap!swapVars
  <1>3. CASE ConfirmBtcSpend
    <2>1. CASE btcLeg' = "claimed"
      <3>1. revealed
        BY <1>3, <2>1 DEF ConfirmBtcSpend, Spent, CoinsNeedSecret
      <3> QED
        BY <1>3, <2>1, <3>1, Places DEF ConfirmBtcSpend, Swap!Next, Swap!TakeCoins
    <2>2. CASE btcLeg' = "refunded"
      <3>1. ~revealed
        BY <1>3, <2>2 DEF ConfirmBtcSpend, Spent, Spends, DecidedParts, MakerDecides
      <3> QED
        BY <1>3, <2>2, <3>1, Places DEF ConfirmBtcSpend, Swap!Next, Swap!ReturnCoins
    <2> QED
      BY <1>3, <2>1, <2>2 DEF ConfirmBtcSpend, Spent
  <1>4. CASE ConfirmSeqSpend
    <2>1. CASE seqLeg' = "claimed"
      <3>1. revealed
        BY <1>4, <2>1 DEF ConfirmSeqSpend, Spent, Spends, SecretIsTheClaim
      <3> QED
        BY <1>4, <2>1, <3>1, Places DEF ConfirmSeqSpend, Swap!Next, Swap!TakeGoods
    <2>2. CASE seqLeg' = "refunded"
      <3>1. "refund" \in seqPend /\ seqLeg = "mined"
        BY <1>4, <2>2 DEF ConfirmSeqSpend, Spent, Spends
      <3>2. "claim" \notin seqPend
        BY <3>1, HeightsAssumption, InclusionAssumption
           DEF AssetRefundIsLate, ClaimInTime, ClaimInFlight
      <3>3. ~revealed
        BY <3>1, <3>2 DEF SecretIsTheClaim
      <3> QED
        BY <1>4, <2>2, <3>3, Places DEF ConfirmSeqSpend, Swap!Next, Swap!ReturnGoods
    <2> QED
      BY <1>4, <2>1, <2>2 DEF ConfirmSeqSpend, Spent
  <1>5. CASE TakerPostsFunding \/ RedrivePosts
    <2>1. CASE seqLeg = "none" /\ seqLeg' = "mempool"
      <3>1. btcLeg = "mined"
        BY <1>5, <2>1, FundsAgainstLiveBtc
      <3>2. UNCHANGED <<btcLeg, revealed>>
        BY <1>5 DEF TakerPostsFunding, RedrivePosts
      <3> QED
        BY <2>1, <3>1, <3>2, Places DEF Swap!Next, Swap!LockGoods
    <2>2. CASE ~(seqLeg = "none" /\ seqLeg' = "mempool")
      BY <1>5, <2>2, Stutters DEF TakerPostsFunding, RedrivePosts, AssetFundingAccepted
    <2> QED
      BY <2>1, <2>2
  <1>6. CASE MakerPostsBtc \/ MakerFault
    <2>1. CASE btcLeg' = btcLeg
      BY <1>6, <2>1, Stutters DEF MakerPostsBtc, MakerFault
    <2>2. CASE btcLeg' # btcLeg
      <3>1. btcLeg = "none" /\ btcLeg' = "mempool" /\ UNCHANGED <<seqLeg, revealed>>
        BY <1>6, <2>2 DEF MakerPostsBtc, MakerFault, OnlyMinedIsSpent
      <3> QED
        BY <3>1, Places DEF Swap!Next, Swap!LockCoins
    <2> QED
      BY <2>1, <2>2
  <1>7. CASE MakerClaims
    <2>1. CASE seqLeg = "mined"
      <3>1. ~revealed /\ revealed'
        BY <1>7, <2>1 DEF MakerClaims, SecretIsTheClaim, BeforeReveal
      <3>2. btcLeg = "mined"
        <4>1. btcLeg \in Confirmed /\ btcLeg # "claimed"
          BY <2>1, <3>1 DEF FundedInv, FundedParts, FundedAgainstCoins, CoinsNeedSecret
        <4>2. btcLeg # "refunded"
          BY <1>7 DEF MakerClaims, DecidedParts, MakerDecides
        <4> QED
          BY <4>1, <4>2 DEF Confirmed
      <3> QED
        BY <1>7, <2>1, <3>1, <3>2, Places DEF MakerClaims, Swap!Next, Swap!Reveal
    <2>2. CASE seqLeg # "mined"
      BY <1>7, <2>2, Stutters DEF MakerClaims
    <2> QED
      BY <2>1, <2>2
  <1> QED
    BY <1>1, <1>2, <1>3, <1>4, <1>5, <1>6, <1>7 DEF Moves

\* Every step of the two programs is a step of the abstract swap, or none, as long
\* as no window check goes by an unread tip.
THEOREM Implements ==
    ASSUME SeqFirst, ~LossyClaim, ~LossyTips
    PROVE  Spec => ImplementsAtomicSwap
  <1>1. DecidedInv /\ FundedInv /\ LateInv /\ [Next]_vars => [Swap!Next]_(Swap!swapVars)
    <2>1. UNCHANGED vars => UNCHANGED <<btcLeg, seqLeg, revealed>>
      BY DEF vars, chainVars, gateVars
    <2> QED
      BY <2>1, StepRefines, OthersStutter, Stutters
  <1> QED
    BY InitRefines, DecidedInvariant, FundedInvariant, LateInvariant, <1>1, PTL
       DEF Spec, ImplementsAtomicSwap, Swap!Spec

(* ---- The abstract swap ---------------------------------------------------- *)

\* Any variables that behave as AtomicSwap allows, not only this module's.
VARIABLES coins, goods, public
Atomic == INSTANCE AtomicSwap

\* Nothing is paid before the secret is public, nothing goes back after.
SecretDecides ==
    /\ (coins = "paid" \/ goods = "paid") => public
    /\ (coins = "returned" \/ goods = "returned") => ~public

AtomicInv == Atomic!TypeOK /\ SecretDecides

LEMMA AtomicStep == AtomicInv /\ [Atomic!Next]_(Atomic!swapVars) => AtomicInv'
  <1> SUFFICES ASSUME AtomicInv, [Atomic!Next]_(Atomic!swapVars) PROVE AtomicInv'
    OBVIOUS
  <1> USE DEF AtomicInv, Atomic!TypeOK, SecretDecides, Atomic!Places
  <1>1. CASE Atomic!LockCoins
    BY <1>1 DEF Atomic!LockCoins
  <1>2. CASE Atomic!LockGoods
    BY <1>2 DEF Atomic!LockGoods
  <1>3. CASE Atomic!Reveal
    BY <1>3 DEF Atomic!Reveal
  <1>4. CASE Atomic!TakeGoods
    BY <1>4 DEF Atomic!TakeGoods
  <1>5. CASE Atomic!TakeCoins
    BY <1>5 DEF Atomic!TakeCoins
  <1>6. CASE Atomic!ReturnGoods
    BY <1>6 DEF Atomic!ReturnGoods
  <1>7. CASE Atomic!ReturnCoins
    BY <1>7 DEF Atomic!ReturnCoins
  <1>8. CASE UNCHANGED Atomic!swapVars
    BY <1>8 DEF Atomic!swapVars
  <1>9. CASE Atomic!RevealAndTake
    BY <1>9 DEF Atomic!RevealAndTake
  <1> QED
    BY <1>1, <1>2, <1>3, <1>4, <1>5, <1>6, <1>7, <1>8, <1>9 DEF Atomic!Next

\* What every module that implements AtomicSwap inherits: one side is never
\* paid while the other gets its own back.
THEOREM Atomicity == Atomic!Spec => []Atomic!AllOrNothing
  <1>1. Atomic!Init => AtomicInv
    BY DEF Atomic!Init, AtomicInv, Atomic!TypeOK, SecretDecides, Atomic!Places
  <1>2. AtomicInv => Atomic!AllOrNothing
    BY DEF AtomicInv, SecretDecides, Atomic!AllOrNothing
  <1> QED
    BY <1>1, <1>2, AtomicStep, PTL DEF Atomic!Spec
=============================================================================
