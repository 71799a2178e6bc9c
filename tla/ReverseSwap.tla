---------------------------- MODULE ReverseSwap ----------------------------
(***************************************************************************)
(* One reverse cross-chain swap: the taker sells an asset on Sequentia for *)
(* BTC on testnet4.  The maker (xmaker.js, RunMakerReverse,                *)
(* refundReverseBtc, resumeMakerSwaps) locks the BTC first and holds the   *)
(* secret; the taker (xrswap.js) locks the asset, and claims the BTC with  *)
(* the secret the maker's claim reveals.                                   *)
(*                                                                         *)
(* The taker's page runs up to three programs on one record: the live      *)
(* driver of driveReverse (tk), the re-driver resumeFundingPhase (rd) and  *)
(* the poll of driveSettle (settle).  Heights, hashes and amounts are      *)
(* abstracted as in ForwardSwap; reorganisations are AnchorGate's.         *)
(***************************************************************************)
EXTENDS Integers

CONSTANTS
    TBtc,              \* T_btc, the BTC leg's refund height: the maker's terms, in
    TSeq,              \* T_seq, the asset leg's: blocks past the tips it minted them at
    ClaimMargin,       \* T.seqClaimMargin of xmaker.js: no reveal that near T_seq
    ClaimWindow,       \* MIN_SEQ_CLAIM_WINDOW of xrswap.js
    BtcClaimWindow,    \* MIN_BTC_CLAIM_WINDOW of xrswap.js
    BtcClaimDelta,     \* MIN_BTC_CLAIM_DELTA of xrswap.js
    MaxSeqLockDelta,   \* MAX_SEQ_LOCK_DELTA of xrswap.js
    SeqSpacing,        \* seconds of a Sequentia block in reverseMinBtcDelta (90)
    BtcSpacing,        \* seconds of a testnet4 block in reverseMinBtcDelta (150)
    BtcClaimMargin,    \* BTC_CLAIM_MARGIN of xrswap.js
    Inclusion,         \* blocks from a gate's tip reading to the mined spend
    MaxTakerFaults,    \* bound: crashes and lost responses of the taker
    MaxMakerFaults,    \* bound: crashes and failed calls of the maker
    SeqFirst,          \* Sequentia reaches T_seq before Bitcoin reaches T_btc
    LossyClaim,        \* a maker fault may hit the await of the claim broadcast
    LossyReads,        \* an explorer or anchor read may fail
    LossyTips,         \* a tip read of a window check may fail; the check then passes
    StaleBeat,         \* the live driver may sit in fund() past the 90 s beat
    FundingFault,      \* a maker fault may hit the BTC funding or its confirmation
    EarlierCancel      \* an earlier lift of this offer was cancelled

ASSUME HeightsAssumption ==
    /\ TBtc \in Nat \ {0} /\ TSeq \in Nat \ {0}
    /\ ClaimMargin \in Nat /\ ClaimWindow \in Nat
    /\ BtcClaimWindow \in Nat /\ BtcClaimDelta \in Nat
    /\ MaxSeqLockDelta \in Nat /\ BtcClaimMargin \in Nat
    /\ SeqSpacing \in Nat \ {0} /\ BtcSpacing \in Nat \ {0}
    /\ MaxTakerFaults \in Nat /\ MaxMakerFaults \in Nat
ASSUME InclusionAssumption ==
    Inclusion \in Nat /\ Inclusion <= ClaimMargin /\ Inclusion <= ClaimWindow
ASSUME SwitchesAssumption ==
    {SeqFirst, LossyClaim, LossyReads, LossyTips, StaleBeat, FundingFault,
     EarlierCancel} \subseteq BOOLEAN

VARIABLES
    btcTip, seqTip,    \* blocks mined since the maker read the tips
    btcLeg, btcPend,   \* the maker's BTC HTLC and the spends broadcast so far
    seqLeg, seqPend,   \* the taker's asset HTLC and the spends broadcast so far
    fundings,          \* how many times the asset HTLC was funded
    anchored,          \* the asset leg's block anchors at or above the BTC leg
    revealed,          \* the preimage has been broadcast
    claimAt,           \* the seq tip the maker's no-reveal margin read
    lockAt,            \* the seq tip the taker's last fund window check read
    msgs,              \* courier frames sent in this session
    tk,                \* where the taker's live driver is
    rd,                \* where resumeFundingPhase is
    settle,            \* driveSettle is polling in this page
    rec,               \* the taker's persisted record (LS_KEY of xrswap.js)
    tkFaults,
    mk,                \* where the maker's driver is
    mrec,              \* the maker's persisted record
    mkFaults,
    userCancel         \* the user cancelled this lift (cancelMakerLift)

chainVars == <<btcTip, seqTip, btcLeg, btcPend, seqLeg, seqPend, fundings, anchored>>
gateVars  == <<revealed, claimAt, lockAt>>
takerVars == <<tk, rd, settle, rec, tkFaults>>
makerVars == <<mk, mrec, mkFaults, userCancel>>
vars == <<chainVars, gateVars, msgs, takerVars, makerVars>>

LegStates == {"none", "mempool", "mined", "claimed", "refunded"}
Spends    == {"claim", "refund"}
Confirmed == {"mined", "claimed", "refunded"}
Frames    == {"terms_request", "btc_leg_locked", "seq_leg_funded",
              "secret_revealed", "taker_fail"}
TakerPcs  == {"fresh", "terms", "conf", "anchor", "verify", "posting", "posted",
              "mined", "announce", "await", "idle", "off"}
RedrivePcs == {"none", "anchor", "verify", "scan", "posting", "posted"}
RecStates == {"none", "btc_locked", "seq_submitted", "seq_claimed",
              "btc_claimed", "refunded", "failed"}
Terminal  == {"btc_claimed", "refunded", "failed"}
\* How much of the asset leg the record holds: nothing, its script
\* (seq_redeem), the funding's txid (seq_fund_txid), the outpoint (seq_leg).
AssetParts == {"none", "redeem", "txid", "leg"}
MakerPcs  == {"idle", "lock", "lockConf", "recv", "verify", "gate", "claim",
              "claimSent", "refund", "refundSent", "done", "off"}
\* What the maker's record holds of the BTC leg once the terms are saved.
MakerRecs == {"none", "terms", "txid", "outpoint"}

NoRec == [state |-> "none", asset |-> "none", secret |-> FALSE]
Reads    == IF LossyReads THEN BOOLEAN ELSE {TRUE}
TipReads == IF LossyTips THEN BOOLEAN ELSE {TRUE}

TypeOK ==
    /\ btcTip \in Nat /\ seqTip \in Nat
    /\ btcLeg \in LegStates /\ seqLeg \in LegStates
    /\ btcPend \subseteq Spends /\ seqPend \subseteq Spends
    /\ fundings \in Nat /\ anchored \in BOOLEAN /\ revealed \in BOOLEAN
    /\ claimAt \in Nat /\ lockAt \in Nat
    /\ msgs \subseteq Frames
    /\ tk \in TakerPcs /\ rd \in RedrivePcs /\ settle \in BOOLEAN
    /\ rec \in [state : RecStates, asset : AssetParts, secret : BOOLEAN]
    /\ tkFaults \in Nat
    /\ mk \in MakerPcs /\ mrec \in MakerRecs /\ mkFaults \in Nat
    /\ userCancel \in BOOLEAN

Init ==
    /\ btcTip = 0 /\ seqTip = 0
    /\ btcLeg = "none" /\ seqLeg = "none" /\ btcPend = {} /\ seqPend = {}
    /\ fundings = 0 /\ anchored = FALSE /\ revealed = FALSE
    /\ claimAt = 0 /\ lockAt = 0 /\ msgs = {}
    /\ tk = "fresh" /\ rd = "none" /\ settle = FALSE /\ rec = NoRec
    /\ tkFaults = 0
    /\ mk = "idle" /\ mrec = "none" /\ mkFaults = 0 /\ userCancel = FALSE

-----------------------------------------------------------------------------
(* The two chains (external: explorers and nodes, as the code uses them).   *)

Posting == tk \in {"posting", "posted"} \/ rd \in {"scan", "posting", "posted"}
ClaimInFlight ==
    \/ mk \in {"claim", "claimSent"}
    \/ seqLeg = "mined" /\ "claim" \in seqPend

\* The model stops each chain at the height where every refund is open.
MineBtc ==
    /\ mk # "idle" /\ btcTip < TBtc
    /\ SeqFirst => (btcTip + 1 < TBtc \/ seqTip >= TSeq)
    /\ btcTip' = btcTip + 1
    /\ UNCHANGED <<seqTip, btcLeg, btcPend, seqLeg, seqPend, fundings, anchored,
                   gateVars, msgs, takerVars, makerVars>>

\* Inclusion: what a gate cleared at a tip is mined (a claim) or broadcast (the
\* asset funding) before the chain leaves that tip by more blocks.
MineSeq ==
    /\ mk # "idle" /\ seqTip < TSeq
    /\ ClaimInFlight => seqTip < claimAt + Inclusion
    /\ Posting => seqTip < lockAt + Inclusion
    /\ seqTip' = seqTip + 1
    /\ UNCHANGED <<btcTip, btcLeg, btcPend, seqLeg, seqPend, fundings, anchored,
                   gateVars, msgs, takerVars, makerVars>>

ConfirmBtcFund ==
    /\ btcLeg = "mempool" /\ btcLeg' = "mined"
    /\ UNCHANGED <<btcTip, seqTip, btcPend, seqLeg, seqPend, fundings, anchored,
                   gateVars, msgs, takerVars, makerVars>>

\* The block's anchor satisfies the ordering or, after a Sequentia
\* reorganisation, does not.
ConfirmSeqFund ==
    /\ seqLeg = "mempool" /\ seqLeg' = "mined"
    /\ anchored' \in BOOLEAN
    /\ UNCHANGED <<btcTip, seqTip, btcLeg, btcPend, seqPend, fundings,
                   gateVars, msgs, takerVars, makerVars>>

Spent(how) == IF how = "claim" THEN "claimed" ELSE "refunded"

ConfirmBtcSpend ==
    /\ btcLeg = "mined"
    /\ \E how \in btcPend : btcLeg' = Spent(how)
    /\ btcPend' = {}
    /\ UNCHANGED <<btcTip, seqTip, seqLeg, seqPend, fundings, anchored,
                   gateVars, msgs, takerVars, makerVars>>

ConfirmSeqSpend ==
    /\ seqLeg = "mined"
    /\ \E how \in seqPend : seqLeg' = Spent(how)
    /\ seqPend' = {}
    /\ UNCHANGED <<btcTip, seqTip, btcLeg, btcPend, fundings, anchored,
                   gateVars, msgs, takerVars, makerVars>>

Chains == \/ MineBtc \/ MineSeq \/ ConfirmBtcFund \/ ConfirmSeqFund
          \/ ConfirmBtcSpend \/ ConfirmSeqSpend

-----------------------------------------------------------------------------
(* The taker's live driver: xrswap.js, driveReverse                         *)

PageOpen == tk \notin {"fresh", "off"}

TakerOpens ==
    /\ tk = "fresh" /\ tk' = "terms"
    /\ msgs' = msgs \union {"terms_request"}
    /\ UNCHANGED <<chainVars, gateVars, rd, settle, rec, tkFaults, makerVars>>

\* No BtcLegLocked in 30 s: 'retry', and onOpen turns to the next offer.
TakerTriesNextOffer ==
    /\ tk = "terms" /\ tk' = "idle"
    /\ UNCHANGED <<chainVars, gateVars, msgs, rd, settle, rec, tkFaults, makerVars>>

\* The testnet4 blocks that outlast that many Sequentia blocks, and a margin.
ReverseMinBtcDelta(seqDelta) ==
    (seqDelta * SeqSpacing + BtcSpacing - 1) \div BtcSpacing + BtcClaimMargin

\* verifyMakerBtcLeg's checks of the two timeouts against the tips.  Tips that
\* do not read refuse the terms, but for the floor of T_seq, read on its own.
TermsAreSafe(tipsRead, floorRead) ==
    /\ tipsRead
    /\ btcTip + BtcClaimDelta <= TBtc
    /\ TSeq <= seqTip + MaxSeqLockDelta
    /\ ReverseMinBtcDelta(TSeq - seqTip) <= TBtc - btcTip
    /\ floorRead => seqTip + ClaimWindow <= TSeq

\* BtcLegLocked arrives: the record is created, or failed at once.
TakerGetsBtcLeg ==
    /\ tk = "terms" /\ "btc_leg_locked" \in msgs
    /\ \E tipsRead, floorRead \in TipReads :
         IF TermsAreSafe(tipsRead, floorRead)
           THEN tk' = "conf" /\ rec' = [NoRec EXCEPT !.state = "btc_locked"]
                /\ UNCHANGED msgs
           ELSE tk' = "idle" /\ rec' = [NoRec EXCEPT !.state = "failed"]
                /\ msgs' = msgs \union {"taker_fail"}
    /\ UNCHANGED <<chainVars, gateVars, rd, settle, tkFaults, makerVars>>

\* waitMakerBtcConf sees the lock mined, or stops: abandoned, or 600 polls.
TakerSeesBtcMined ==
    /\ tk = "conf"
    /\ \/ rec.state = "btc_locked" /\ btcLeg \in Confirmed /\ tk' = "anchor"
          /\ UNCHANGED rec
       \/ rec.state = "none" /\ tk' = "idle" /\ UNCHANGED rec
       \/ rec.state = "btc_locked" /\ tk' = "idle"
          /\ rec' = [rec EXCEPT !.state = "failed"]
    /\ UNCHANGED <<chainVars, gateVars, msgs, rd, settle, tkFaults, makerVars>>

\* Mutant: no windows.
TimelocksOpen(seqRead, btcRead) ==
    (seqRead /\ seqTip >= TSeq) \/ (btcRead /\ btcTip >= TBtc)
\* fundWindowClosed: each tip in a try of its own; one that fails is no verdict.
FundWindowClosed(seqRead, btcRead) ==
    \/ seqRead /\ seqTip + ClaimWindow >= TSeq
    \/ btcRead /\ btcTip + BtcClaimWindow >= TBtc

\* awaitAnchorReachesBtcLeg: our node's anchor has reached the BTC leg.
TakerAnchorReached ==
    /\ tk = "anchor" /\ tk' = "verify"
    /\ UNCHANGED <<chainVars, gateVars, msgs, rd, settle, rec, tkFaults, makerVars>>

\* failAbort: the window closed, the lock is gone, or the record was cleared.
TakerAborts ==
    /\ tk \in {"anchor", "verify"}
    /\ \/ \E seqRead, btcRead \in TipReads : FundWindowClosed(seqRead, btcRead)
       \/ tk = "verify" /\ (btcLeg \notin Confirmed \/ rec.state = "none")
    /\ tk' = "idle" /\ msgs' = msgs \union {"taker_fail"}
    /\ rec' = IF rec.state = "none" THEN rec ELSE [rec EXCEPT !.state = "failed"]
    /\ UNCHANGED <<chainVars, gateVars, rd, settle, tkFaults, makerVars>>

\* Mutant: seq_redeem is saved after the broadcast.

\* The lock still verifies and the window is open: seq_redeem is saved, and
\* the funding is built unless a txid is on record.
TakerVerifies ==
    /\ tk = "verify" /\ rec.state # "none"
    /\ btcLeg \in Confirmed
    /\ \E seqRead, btcRead \in TipReads : ~FundWindowClosed(seqRead, btcRead)
    /\ rec' = [rec EXCEPT !.asset = IF @ = "none" THEN "redeem" ELSE @]
    /\ tk' = IF rec.asset = "txid" THEN "mined" ELSE "posting"
    /\ lockAt' = seqTip
    /\ UNCHANGED <<chainVars, revealed, claimAt, msgs, rd, settle, tkFaults, makerVars>>

AssetFundingAccepted ==
    /\ seqLeg' = IF seqLeg = "none" THEN "mempool" ELSE seqLeg
    /\ fundings' = fundings + 1

\* seqLeg.fund: the node accepts the funding, or the call throws.
TakerPostsFunding ==
    /\ tk = "posting"
    /\ \/ tk' = "posted" /\ AssetFundingAccepted
       \/ tk' = "idle" /\ UNCHANGED <<seqLeg, fundings>>
    /\ UNCHANGED <<btcTip, seqTip, btcLeg, btcPend, seqPend, anchored, gateVars,
                   msgs, rd, settle, rec, tkFaults, makerVars>>

HasTxid(r) == [r EXCEPT !.asset = IF @ = "leg" THEN @ ELSE "txid"]

TakerRecordsFunding ==
    /\ tk = "posted" /\ tk' = "mined"
    /\ rec' = HasTxid(rec)
    /\ UNCHANGED <<chainVars, gateVars, msgs, rd, settle, tkFaults, makerVars>>

\* waitConf returns: seq_leg saved; announced only if its anchor is read good.
TakerSeesAssetMined ==
    /\ tk = "mined" /\ seqLeg \in Confirmed
    /\ rec' = [rec EXCEPT !.state = "seq_submitted", !.asset = "leg"]
    /\ \E readOk \in Reads :
         IF readOk /\ anchored
           THEN tk' = "announce" /\ UNCHANGED msgs
           ELSE tk' = "idle" /\ msgs' = msgs \union {"taker_fail"}
    /\ UNCHANGED <<chainVars, gateVars, rd, settle, tkFaults, makerVars>>

TakerAnnounces ==
    /\ tk = "announce" /\ tk' = "await"
    /\ msgs' = msgs \union {"seq_leg_funded"}
    /\ UNCHANGED <<chainVars, gateVars, rd, settle, rec, tkFaults, makerVars>>

MaySettle == rec.asset = "leg" /\ rec.state \notin {"btc_claimed", "refunded"}

\* The courtesy secret within 20 s, or not; then driveSettle.
TakerStartsSettling ==
    /\ tk = "await" /\ tk' = "idle"
    /\ \/ UNCHANGED rec
       \/ "secret_revealed" \in msgs /\ rec.state # "none"
          /\ rec' = [rec EXCEPT !.secret = TRUE]
    /\ settle' = (settle \/ MaySettle)
    /\ UNCHANGED <<chainVars, gateVars, msgs, rd, tkFaults, makerVars>>

\* A crash or reload at any await (every program of the page ends); or the
\* live driver's await throws in a page that stays open.
TakerFault ==
    /\ PageOpen /\ tkFaults < MaxTakerFaults /\ tkFaults' = tkFaults + 1
    /\ \/ tk' = "off" /\ rd' = "none" /\ settle' = FALSE
       \/ tk \in {"posted", "mined", "announce"} /\ tk' = "idle"
          /\ UNCHANGED <<rd, settle>>
    /\ UNCHANGED <<chainVars, gateVars, msgs, rec, makerVars>>

TakerReloads ==
    /\ tk = "off" /\ tk' = "idle"
    /\ UNCHANGED <<chainVars, gateVars, msgs, rd, settle, rec, tkFaults, makerVars>>

-----------------------------------------------------------------------------
(* The taker's other programs: renderReverse and what it starts             *)

\* Mutant: only a record still waiting for the maker's claim is settled.
ResumesSubmittedOnly ==
    /\ PageOpen /\ ~settle /\ rec.asset = "leg" /\ rec.state = "seq_submitted"
    /\ settle' = TRUE
    /\ UNCHANGED <<chainVars, gateVars, msgs, tk, rd, rec, tkFaults, makerVars>>

\* renderReverse and renderStepper start driveSettle on a record with its leg.
TakerResumesSettling ==
    /\ PageOpen /\ ~settle
    /\ rec.asset = "leg" /\ rec.state \notin Terminal
    /\ settle' = TRUE
    /\ UNCHANGED <<chainVars, gateVars, msgs, tk, rd, rec, tkFaults, makerVars>>

\* Mutant: a record with a txid alone is not resumed.

\* resumeSeqLeg, then driveSettle.  Its reannounceSeqLeg sends nothing: the
\* record driveReverse builds has no session_id or sess_priv.
TakerResumesLeg ==
    /\ PageOpen /\ rec.asset = "txid" /\ rec.state \notin Terminal
    /\ seqLeg \in Confirmed
    /\ rec' = [rec EXCEPT !.state = "seq_submitted", !.asset = "leg"]
    /\ settle' = TRUE
    /\ UNCHANGED <<chainVars, gateVars, msgs, tk, rd, tkFaults, makerVars>>

\* findFundingByAddress lists the unspent outputs of the HTLC address, mempool
\* included, and answers null for "none" and for a failed read alike.
FundingSeen == seqLeg \in {"mempool", "mined"} /\ seqPend = {}

\* STRAND RECOVERY: a script on record and its funding found on chain.
TakerAdoptsFunding ==
    /\ PageOpen /\ rec.asset = "redeem" /\ rec.state \notin Terminal
    /\ FundingSeen
    /\ rec' = HasTxid(rec)
    /\ UNCHANGED <<chainVars, gateVars, msgs, tk, rd, settle, tkFaults, makerVars>>

\* Mutant: no heartbeat.
NoHeartbeat == tk # "fresh"
\* drive_beat_ms is 90 s old: the live driver is gone, or sits in fund().
BeatIsOld == tk = "idle" \/ (StaleBeat /\ tk \in {"posting", "posted"})

\* resumeFundingPhase, entered from renderReverse: the BTC lock is there.
RedriveStarts ==
    /\ PageOpen /\ rd = "none" /\ BeatIsOld
    /\ rec.state = "btc_locked" /\ rec.asset \in {"none", "redeem"}
    /\ rec.asset = "redeem" => \E readOk \in Reads : ~(readOk /\ FundingSeen)
    /\ btcLeg \in Confirmed
    /\ rd' = "anchor"
    /\ UNCHANGED <<chainVars, gateVars, msgs, tk, settle, rec, tkFaults, makerVars>>

RedriveAnchorReached ==
    /\ rd = "anchor" /\ rd' = "verify"
    /\ UNCHANGED <<chainVars, gateVars, msgs, tk, settle, rec, tkFaults, makerVars>>

\* The window closed, the lock is gone, or the record was abandoned.
RedriveStops ==
    /\ rd \in {"anchor", "verify"}
    /\ \/ \E seqRead, btcRead \in TipReads : FundWindowClosed(seqRead, btcRead)
       \/ btcLeg \notin Confirmed \/ rec.state = "none"
    /\ rd' = "none"
    /\ UNCHANGED <<chainVars, gateVars, msgs, tk, settle, rec, tkFaults, makerVars>>

RedriveVerifies ==
    /\ rd = "verify" /\ rec.state # "none"
    /\ btcLeg \in Confirmed
    /\ \E seqRead, btcRead \in TipReads : ~FundWindowClosed(seqRead, btcRead)
    /\ rec' = [rec EXCEPT !.asset = IF @ = "none" THEN "redeem" ELSE @]
    /\ rd' = "scan" /\ lockAt' = seqTip
    /\ UNCHANGED <<chainVars, revealed, claimAt, msgs, tk, settle, tkFaults, makerVars>>

\* Adopt-first: a txid on record, a funding on the address, or none seen.
RedriveScans ==
    /\ rd = "scan"
    /\ \E readOk \in Reads :
         IF rec.asset \in {"txid", "leg"} \/ (readOk /\ FundingSeen)
           THEN rd' = "none" /\ rec' = HasTxid(rec)
           ELSE rd' = "posting" /\ UNCHANGED rec
    /\ UNCHANGED <<chainVars, gateVars, msgs, tk, settle, tkFaults, makerVars>>

RedrivePosts ==
    /\ rd = "posting"
    /\ \/ rd' = "posted" /\ AssetFundingAccepted
       \/ rd' = "none" /\ UNCHANGED <<seqLeg, fundings>>
    /\ UNCHANGED <<btcTip, seqTip, btcLeg, btcPend, seqPend, anchored, gateVars,
                   msgs, tk, settle, rec, tkFaults, makerVars>>

RedriveRecords ==
    /\ rd = "posted" /\ rd' = "none"
    /\ rec' = HasTxid(rec)
    /\ UNCHANGED <<chainVars, gateVars, msgs, tk, settle, tkFaults, makerVars>>

\* readPreimageOnChain: the spend of the asset leg, mempool included.
PreimageOnChain == seqLeg = "claimed" \/ "claim" \in seqPend

TakerLearnsSecret ==
    /\ settle /\ MaySettle /\ ~rec.secret /\ PreimageOnChain
    /\ rec' = [rec EXCEPT !.secret = TRUE, !.state = "seq_claimed"]
    /\ UNCHANGED <<chainVars, gateVars, msgs, tk, rd, settle, tkFaults, makerVars>>

\* claimBtc: accepted and saved; or the response is lost and it is retried.
TakerClaimsBtc ==
    /\ settle /\ MaySettle /\ rec.secret /\ btcLeg = "mined"
    /\ btcPend' = btcPend \union {"claim"}
    /\ \/ rec' = [rec EXCEPT !.state = "btc_claimed"] /\ settle' = FALSE
          /\ UNCHANGED tkFaults
       \/ tkFaults < MaxTakerFaults /\ tkFaults' = tkFaults + 1
          /\ UNCHANGED <<rec, settle>>
    /\ UNCHANGED <<btcTip, seqTip, btcLeg, seqLeg, seqPend, fundings, anchored,
                   gateVars, msgs, tk, rd, makerVars>>

\* onRefundSeq
TakerRefunds ==
    /\ PageOpen /\ rec.asset = "leg"
    /\ rec.state \notin {"btc_claimed", "refunded", "seq_claimed"}
    /\ seqTip >= TSeq /\ seqLeg = "mined"
    /\ seqPend' = seqPend \union {"refund"}
    /\ rec' = [rec EXCEPT !.state = "refunded"] /\ settle' = FALSE
    /\ UNCHANGED <<btcTip, seqTip, btcLeg, btcPend, seqLeg, fundings, anchored,
                   gateVars, msgs, tk, rd, tkFaults, makerVars>>

\* onAbandon.
AbandonAllowed ==
    rec.asset = "none" \/ rec.state \in {"btc_claimed", "refunded"}

TakerAbandons ==
    /\ PageOpen /\ rec.state # "none" /\ AbandonAllowed
    /\ rec' = NoRec /\ settle' = FALSE
    /\ UNCHANGED <<chainVars, gateVars, msgs, tk, rd, tkFaults, makerVars>>

Taker ==
    \/ TakerOpens \/ TakerTriesNextOffer \/ TakerGetsBtcLeg \/ TakerSeesBtcMined
    \/ TakerAnchorReached \/ TakerAborts \/ TakerVerifies \/ TakerPostsFunding
    \/ TakerRecordsFunding \/ TakerSeesAssetMined \/ TakerAnnounces
    \/ TakerStartsSettling \/ TakerFault \/ TakerReloads
    \/ TakerResumesSettling \/ TakerResumesLeg \/ TakerAdoptsFunding
    \/ RedriveStarts \/ RedriveAnchorReached \/ RedriveStops \/ RedriveVerifies
    \/ RedriveScans \/ RedrivePosts \/ RedriveRecords
    \/ TakerLearnsSecret \/ TakerClaimsBtc \/ TakerRefunds \/ TakerAbandons

-----------------------------------------------------------------------------
(* The maker: xmaker.js, RunMakerReverse and refundReverseBtc               *)

MakerLive == mk \notin {"idle", "done", "off"}

\* The secret, the keys and the locktimes are saved before any coins move.
MakerGetsTermsRequest ==
    /\ mk = "idle" /\ "terms_request" \in msgs
    /\ mk' = "lock" /\ mrec' = "terms"
    /\ UNCHANGED <<chainVars, gateVars, msgs, takerVars, mkFaults, userCancel>>

\* btcLeg.fund broadcasts and onBroadcast saves the txid (no vout yet).
MakerPostsBtc ==
    /\ mk = "lock" /\ mk' = "lockConf"
    /\ btcLeg' = "mempool" /\ mrec' = "txid"
    /\ UNCHANGED <<btcTip, seqTip, btcPend, seqLeg, seqPend, fundings, anchored,
                   gateVars, msgs, takerVars, mkFaults, userCancel>>

\* btcWaitConf returns: the outpoint is saved and the lock announced.
MakerAnnouncesBtc ==
    /\ mk = "lockConf" /\ btcLeg \in Confirmed
    /\ mk' = "recv" /\ mrec' = "outpoint"
    /\ msgs' = msgs \union {"btc_leg_locked"}
    /\ UNCHANGED <<chainVars, gateVars, takerVars, mkFaults, userCancel>>

MakerGetsSeqLeg ==
    /\ mk = "recv" /\ "seq_leg_funded" \in msgs /\ mk' = "verify"
    /\ UNCHANGED <<chainVars, gateVars, msgs, takerVars, mrec, mkFaults, userCancel>>

\* recv fails or times out; the asset leg does not confirm or does not read.
MakerGivesUp ==
    /\ mk \in {"recv", "verify"} /\ mk' = "refund"
    /\ UNCHANGED <<chainVars, gateVars, msgs, takerVars, mrec, mkFaults, userCancel>>

\* waitConf, readOutput, then our own BTC leg's height: seq_verified.
MakerVerifiesAsset ==
    /\ mk = "verify" /\ seqLeg \in Confirmed /\ mk' = "gate"
    /\ UNCHANGED <<chainVars, gateVars, msgs, takerVars, mrec, mkFaults, userCancel>>

SeqRefundOpen == seqTip >= TSeq                       \* mutant: no margin
NearSeqRefund == seqTip + ClaimMargin >= TSeq

\* cancelMakerLift aborts the offer's controller; RunMakerReverse holds the
\* signal of the listener's first one, which an earlier cancel has aborted.
UserCancels ==
    /\ MakerLive /\ ~userCancel /\ userCancel' = TRUE
    /\ UNCHANGED <<chainVars, gateVars, msgs, takerVars, mk, mrec, mkFaults>>

SignalAborted == userCancel \/ EarlierCancel

\* The gate loop tests the signal first, then the evidence, then the window.
MakerGateCancels ==
    /\ mk = "gate" /\ SignalAborted /\ mk' = "refund"
    /\ UNCHANGED <<chainVars, gateVars, msgs, takerVars, mrec, mkFaults, userCancel>>

\* The evidence is good, and the no-reveal margin (whose tip must read) clear.
MakerGatePasses ==
    /\ mk = "gate" /\ ~SignalAborted /\ seqLeg \in Confirmed /\ anchored
    /\ ~NearSeqRefund
    /\ mk' = "claim" /\ claimAt' = seqTip
    /\ UNCHANGED <<chainVars, revealed, lockAt, msgs, takerVars, mrec, mkFaults, userCancel>>

MakerGateCloses ==
    /\ mk = "gate" /\ NearSeqRefund /\ mk' = "refund"
    /\ UNCHANGED <<chainVars, gateVars, msgs, takerVars, mrec, mkFaults, userCancel>>

\* Mutant: a claim whose response did not come turns to the refund.

\* seqLeg.claim: s is public once a node accepts it; a refusal throws.
MakerClaims ==
    /\ mk = "claim"
    /\ IF seqLeg = "mined"
         THEN mk' = "claimSent" /\ revealed' = TRUE /\ seqPend' = seqPend \union {"claim"}
         ELSE mk' = "off" /\ UNCHANGED <<revealed, seqPend>>
    /\ UNCHANGED <<btcTip, seqTip, btcLeg, btcPend, seqLeg, fundings, anchored,
                   claimAt, lockAt, msgs, takerVars, mrec, mkFaults, userCancel>>

\* seq_claim_txid saved, secret_revealed sent, the record dropped.
MakerRecordsClaim ==
    /\ mk = "claimSent" /\ mk' = "done" /\ mrec' = "none"
    /\ msgs' = msgs \union {"secret_revealed"}
    /\ UNCHANGED <<chainVars, gateVars, takerVars, mkFaults, userCancel>>

\* refundReverseBtc at T_btc; a refund that cannot be built or is refused
\* throws and ends the loop, record kept.
MakerRefundsBtc ==
    /\ mk = "refund" /\ btcTip >= TBtc
    /\ IF mrec = "outpoint" /\ btcLeg = "mined"
         THEN mk' = "refundSent" /\ btcPend' = btcPend \union {"refund"}
         ELSE mk' = "off" /\ UNCHANGED btcPend
    /\ UNCHANGED <<btcTip, seqTip, btcLeg, seqLeg, seqPend, fundings, anchored,
                   gateVars, msgs, takerVars, mrec, mkFaults, userCancel>>

MakerRecordsRefund ==
    /\ mk = "refundSent" /\ mk' = "done" /\ mrec' = "none"
    /\ UNCHANGED <<chainVars, gateVars, msgs, takerVars, mkFaults, userCancel>>

\* A crash, a closed tab, or a call that throws; at "lock" the funding may
\* have been accepted although its response was lost.
MakerFault ==
    /\ MakerLive /\ mkFaults < MaxMakerFaults
    /\ mk \in {"lock", "lockConf"} => FundingFault
    /\ mk = "claimSent" => LossyClaim
    /\ mkFaults' = mkFaults + 1 /\ mk' = "off"
    /\ \/ UNCHANGED btcLeg
       \/ mk = "lock" /\ btcLeg' = "mempool"
    /\ UNCHANGED <<btcTip, seqTip, btcPend, seqLeg, seqPend, fundings, anchored,
                   gateVars, msgs, takerVars, mrec, userCancel>>

\* Mutant: a record that never got its asset leg is dropped.
\* resumeMakerSwaps drops a record without a BTC leg and refunds any other.
Dropped == {"none", "terms"}

MakerReloads ==
    /\ mk = "off"
    /\ IF mrec \in Dropped
         THEN mk' = "done" /\ mrec' = "none"
         ELSE mk' = "refund" /\ UNCHANGED mrec
    /\ UNCHANGED <<chainVars, gateVars, msgs, takerVars, mkFaults, userCancel>>

Maker ==
    \/ MakerGetsTermsRequest \/ MakerPostsBtc \/ MakerAnnouncesBtc
    \/ MakerGetsSeqLeg \/ MakerGivesUp \/ MakerVerifiesAsset \/ UserCancels
    \/ MakerGateCancels \/ MakerGatePasses \/ MakerGateCloses \/ MakerClaims
    \/ MakerRecordsClaim \/ MakerRefundsBtc \/ MakerRecordsRefund
    \/ MakerFault \/ MakerReloads

Next == Chains \/ Taker \/ Maker

Spec == Init /\ [][Next]_vars

\* The chains keep producing blocks and mine what was broadcast.
ChainFairness ==
    /\ WF_vars(MineBtc) /\ WF_vars(MineSeq)
    /\ WF_vars(ConfirmBtcFund) /\ WF_vars(ConfirmSeqFund)
    /\ WF_vars(ConfirmBtcSpend) /\ WF_vars(ConfirmSeqSpend)

\* An open page runs its promises and timers to the end, a closed one is opened
\* again some day, and its sell tab is rendered.
TakerFairness ==
    /\ WF_vars(TakerPostsFunding) /\ WF_vars(TakerRecordsFunding)
    /\ WF_vars(TakerSeesAssetMined) /\ WF_vars(TakerAnnounces)
    /\ WF_vars(TakerStartsSettling) /\ WF_vars(TakerReloads)
    /\ WF_vars(TakerResumesSettling) /\ WF_vars(TakerResumesLeg)
    /\ WF_vars(TakerAdoptsFunding) /\ WF_vars(RedriveScans)
    /\ WF_vars(RedrivePosts) /\ WF_vars(RedriveRecords)
    /\ WF_vars(TakerLearnsSecret) /\ WF_vars(TakerClaimsBtc)

MakerFairness ==
    /\ WF_vars(MakerPostsBtc) /\ WF_vars(MakerAnnouncesBtc)
    /\ WF_vars(MakerGetsSeqLeg) /\ WF_vars(MakerGivesUp)
    /\ WF_vars(MakerVerifiesAsset) /\ WF_vars(MakerGateCancels)
    /\ WF_vars(MakerGatePasses) /\ WF_vars(MakerGateCloses)
    /\ WF_vars(MakerClaims) /\ WF_vars(MakerRecordsClaim)
    /\ WF_vars(MakerRefundsBtc) /\ WF_vars(MakerRecordsRefund)
    /\ WF_vars(MakerReloads)

FairSpec == Spec /\ ChainFairness /\ TakerFairness /\ MakerFairness

\* FairSpec, and a user who presses the refund button the page offers.
RefundingSpec == FairSpec /\ WF_vars(TakerRefunds)

-----------------------------------------------------------------------------
(* Properties                                                               *)

\* The taker never pays for nothing: once the maker has the asset, the BTC is
\* not refunded, however long the taker's page stays closed (refundReverseBtc:
\* "s is never revealed on any path that reaches here").
TakerNeverPaysForNothing == seqLeg = "claimed" => btcLeg # "refunded"

\* The maker never delivers for nothing: the secret is out only early enough
\* for its asset claim to be mined before T_seq (the "no-reveal margin").
MakerNeverDeliversForNothing == btcLeg = "claimed" => seqLeg # "refunded"

\* The asset HTLC is funded once, whichever of the page's drivers gets there
\* (resumeFundingPhase: "the two can never race a double-fund").
AssetFundedOnce == fundings <= 1

\* The asset is only funded against a BTC lock that is mined, not spent and not
\* being refunded, whichever driver funds it.
AssetLockedAgainstLiveBtc ==
    [][seqLeg = "none" /\ seqLeg' # "none"
       => btcLeg = "mined" /\ btcPend = {}]_vars

\* A locked asset always has the material of its refund on record (onAbandon:
\* "NEVER discard a reverse swap that still holds (or MIGHT hold) a locked
\* ASSET leg").
LockedAssetIsOnRecord ==
    seqLeg \in {"mempool", "mined"} => rec.asset # "none" \/ seqPend # {} \/ revealed

\* The maker's locked BTC always has a driver, or a record that a reload can
\* refund it from (RunMakerReverse: "PERSIST-BEFORE-CONFIRM").
LockedBtcIsRecoverable ==
    btcLeg \in {"mempool", "mined"} =>
        MakerLive \/ mrec = "outpoint" \/ "refund" \in btcPend \/ revealed

\* The maker never starts to take the BTC back once its secret is public.
NoRefundOnceRevealed ==
    [][revealed => ("refund" \in btcPend' => "refund" \in btcPend)]_vars

\* A seller turned to the next offer has left no maker's BTC behind (driveReverse:
\* "NO maker committed any BTC, so return 'retry'").
RetryLeavesNothingLocked ==
    [][tk = "terms" /\ tk' = "idle" /\ rec' = rec => btcLeg = "none"]_vars

\* A lift is cancelled only when its user cancels it (cancelMakerLift: "A fresh
\* controller replaces the spent one so the next lift is cancellable too").
CancelIsOwn ==
    [][mk = "gate" /\ mk' = "refund" => userCancel \/ NearSeqRefund]_vars

\* A lock announced while it is fresh, with Sequentia at most where the terms
\* found it and Bitcoin one block on, is not refused: the maker's terms leave
\* Bitcoin the longer time (xmaker.js:629: "the maker reclaims its BTC after the
\* (longer) T_btc").
FreshLockIsTaken ==
    [][tk = "terms" /\ rec'.state = "failed" => seqTip > 0 \/ btcTip > 1]_vars

\* Once the secret is public the taker gets the BTC.
RevealedTakerIsPaid == revealed ~> btcLeg = "claimed"

\* No leg stays locked: each one is eventually claimed or refunded.
BtcLegResolves == btcLeg = "mined" ~> btcLeg \in {"claimed", "refunded"}
SeqLegResolves == seqLeg = "mined" ~> seqLeg \in {"claimed", "refunded"}

\* The abstract swap this one implements, with BTC as the coins.
Place(leg) == CASE leg = "none" -> "held"
                [] leg \in {"mempool", "mined"} -> "locked"
                [] leg = "claimed" -> "paid"
                [] leg = "refunded" -> "returned"

Swap == INSTANCE AtomicSwap
            WITH coins <- Place(btcLeg), goods <- Place(seqLeg), public <- revealed

\* Every behaviour of the two programs is one the abstract swap allows.
ImplementsAtomicSwap == Swap!Spec

\* What is on chain is on record: nobody pays for nothing, no leg is funded twice,
\* and no locked leg is without the record its refund or claim needs.
LegsAreKept ==
    /\ TypeOK
    /\ TakerNeverPaysForNothing /\ MakerNeverDeliversForNothing
    /\ AssetFundedOnce /\ LockedAssetIsOnRecord /\ LockedBtcIsRecoverable

\* The two steps that cannot be taken back: the asset goes out only against a BTC
\* leg on chain, and the maker does not refund once it has shown the secret.
StepsAreSafe == AssetLockedAgainstLiveBtc /\ NoRefundOnceRevealed

\* Every leg is claimed or refunded in the end, and a revealed secret is used.
SwapEnds == RevealedTakerIsPaid /\ BtcLegResolves /\ SeqLegResolves
=============================================================================
