---------------------------- MODULE ForwardSwap ----------------------------
(***************************************************************************)
(* One forward cross-chain swap: the taker pays BTC on Bitcoin testnet4    *)
(* and receives an asset on Sequentia.  The taker is xswap.js (the live    *)
(* courier run, its persisted record, the resume hooks and the refund      *)
(* off-ramps); the maker is xmaker.js (RunMakerForward, settleMakerForward *)
(* and resumeMakerSwaps).  The two HTLC outputs and the two chains are     *)
(* what both programs read and write through C.btcLeg and C.seqLeg.        *)
(*                                                                         *)
(* Heights are counted from the two tips the maker reads when it issues    *)
(* its terms, so T_btc and T_seq are constants.  Hashes, keys, amounts and *)
(* scripts are abstracted: both parties run this repository's code, so the *)
(* legs they fund match the terms.  Bitcoin reorganisations are the        *)
(* subject of AnchorGate; here a leg, once mined, stays mined.             *)
(***************************************************************************)
EXTENDS Integers

CONSTANTS
    TBtc,              \* T_btc, the BTC leg's refund height (btc tip + 100)
    TSeq,              \* T_seq, the asset leg's refund height (seq tip + 240)
    SeqRefundMargin,   \* SEQ_REFUND_MARGIN of xswap.js
    BtcMargin,         \* awaitAnchor's MARGIN before T_btc
    ClaimWindow,       \* MIN_SEQ_CLAIM_WINDOW / T.minSeqClaimWindow
    BtcClaimWindow,    \* T.minBtcClaimWindow of xmaker.js
    Inclusion,         \* blocks from a gate's tip reading to the mined spend
    MaxTakerFaults,    \* bound: crashes and lost responses of the taker
    MaxMakerFaults,    \* bound: crashes and failed calls of the maker
    SeqFirst,          \* Sequentia reaches T_seq before Bitcoin reaches T_btc
    LossyClaim,        \* a fault may hit the await of the claim broadcast
    LossyReads,        \* an explorer read may fail
    LossyTips,         \* a tip read inside a gate may fail (both gates then pass)
    StubInterference,  \* a render or an Abandon may hit the stub of a lock
    FundingFault       \* a maker fault may hit the asset funding's confirmation

ASSUME HeightsAssumption ==
    /\ TBtc \in Nat \ {0} /\ TSeq \in Nat \ {0}
    /\ SeqRefundMargin \in Nat /\ BtcMargin \in Nat
    /\ ClaimWindow \in Nat /\ BtcClaimWindow \in Nat
    /\ MaxTakerFaults \in Nat /\ MaxMakerFaults \in Nat
ASSUME InclusionAssumption ==
    Inclusion \in Nat /\ Inclusion <= SeqRefundMargin /\ Inclusion <= ClaimWindow
ASSUME SwitchesAssumption ==
    {SeqFirst, LossyClaim, LossyReads, LossyTips, StubInterference, FundingFault}
        \subseteq BOOLEAN

VARIABLES
    btcTip, seqTip,    \* blocks mined since the terms
    btcLeg, btcPend,   \* the BTC HTLC and the spends of it broadcast so far
    seqLeg, seqPend,   \* the asset HTLC and the spends of it broadcast so far
    anchored,          \* the asset leg's block anchors at or above the BTC leg
    revealed,          \* the preimage has been broadcast
    claimAt,           \* the seq tip the taker's last claim gate read
    lockAt,            \* the seq tip the maker's last fund window check read
    msgs,              \* courier frames sent in this session
    tk,                \* where the taker's page is
    rec,               \* the taker's persisted record (swk.sequentia.xswap)
    parked,            \* the parked list's entry for this swap
    watch,             \* startBtcConfWatcher is polling in this page
    tkFaults,
    mk,                \* where the maker's driver is
    mrec,              \* the maker's persisted record (swk.sequentia.xmaker)
    mkFaults

chainVars == <<btcTip, seqTip, btcLeg, btcPend, seqLeg, seqPend, anchored>>
gateVars  == <<revealed, claimAt, lockAt>>
takerVars == <<tk, rec, parked, watch, tkFaults>>
makerVars == <<mk, mrec, mkFaults>>
vars == <<chainVars, gateVars, msgs, takerVars, makerVars>>

LegStates  == {"none", "mempool", "mined", "claimed", "refunded"}
Spends     == {"claim", "refund"}
Confirmed  == {"mined", "claimed", "refunded"}
Frames     == {"terms_request", "terms", "btc_leg_funded", "seq_leg_locked",
               "taker_fail", "maker_fail"}
TakerPcs   == {"fresh", "terms", "confirm", "posting", "posted", "announce",
               "await", "gate", "claiming", "acked", "idle", "off"}
RecStates  == {"none", "pending", "seq_locked", "seq_claimed", "refunded"}
Outpoints  == {"null", "txid", "vout"}
MakerPcs   == {"idle", "waitBtc", "verify", "anchor", "recheck", "fund", "conf",
               "settle", "claim", "claimSent", "refund", "refundSent",
               "done", "off"}
MakerRecs  == {"none", "terms", "btc_verified", "failed", "funding",
               "seq_locked", "secret_learned"}

\* clearSwap(): no record at all.
NoRec == [state |-> "none", leg |-> "null", mined |-> FALSE]
\* What an explorer read may answer when the fact asked for is TRUE.
Reads    == IF LossyReads THEN BOOLEAN ELSE {TRUE}
TipReads == IF LossyTips THEN BOOLEAN ELSE {TRUE}

TypeOK ==
    /\ btcTip \in Nat /\ seqTip \in Nat
    /\ btcLeg \in LegStates /\ seqLeg \in LegStates
    /\ btcPend \subseteq Spends /\ seqPend \subseteq Spends
    /\ anchored \in BOOLEAN /\ revealed \in BOOLEAN
    /\ claimAt \in Nat /\ lockAt \in Nat
    /\ msgs \subseteq Frames
    /\ tk \in TakerPcs
    /\ rec \in [state : RecStates, leg : Outpoints, mined : BOOLEAN]
    /\ parked \in {"no", "yes", "done"}
    /\ watch \in BOOLEAN /\ tkFaults \in Nat
    /\ mk \in MakerPcs /\ mrec \in MakerRecs /\ mkFaults \in Nat

Init ==
    /\ btcTip = 0 /\ seqTip = 0
    /\ btcLeg = "none" /\ seqLeg = "none" /\ btcPend = {} /\ seqPend = {}
    /\ anchored = FALSE /\ revealed = FALSE /\ claimAt = 0 /\ lockAt = 0
    /\ msgs = {}
    /\ tk = "fresh" /\ rec = NoRec /\ parked = "no" /\ watch = FALSE
    /\ tkFaults = 0
    /\ mk = "idle" /\ mrec = "none" /\ mkFaults = 0

-----------------------------------------------------------------------------
(* The two chains (external: explorers and nodes, as the code uses them).   *)

\* The taker's claim is on its way: its gate has read the tip and the spend
\* is not mined yet.
ClaimInFlight ==
    \/ tk \in {"claiming", "acked"}
    \/ seqLeg = "mined" /\ "claim" \in seqPend

\* The model stops each chain at the height where every refund is open.
MineBtc ==
    /\ mk # "idle" /\ btcTip < TBtc
    /\ SeqFirst => (btcTip + 1 < TBtc \/ seqTip >= TSeq)
    /\ btcTip' = btcTip + 1
    /\ UNCHANGED <<seqTip, btcLeg, btcPend, seqLeg, seqPend, anchored,
                   gateVars, msgs, takerVars, makerVars>>

\* Inclusion: what a gate cleared at a tip is mined (a claim) or broadcast
\* (the maker's funding) before the chain leaves that tip by more blocks.
MineSeq ==
    /\ mk # "idle" /\ seqTip < TSeq
    /\ ClaimInFlight => seqTip < claimAt + Inclusion
    /\ mk = "fund" => seqTip < lockAt + Inclusion
    /\ seqTip' = seqTip + 1
    /\ UNCHANGED <<btcTip, btcLeg, btcPend, seqLeg, seqPend, anchored,
                   gateVars, msgs, takerVars, makerVars>>

ConfirmBtcFund ==
    /\ btcLeg = "mempool" /\ btcLeg' = "mined"
    /\ UNCHANGED <<btcTip, seqTip, btcPend, seqLeg, seqPend, anchored,
                   gateVars, msgs, takerVars, makerVars>>

\* The funding lands in a block whose Bitcoin anchor satisfies the ordering,
\* or, after a Sequentia reorganisation, in one whose anchor does not.
ConfirmSeqFund ==
    /\ seqLeg = "mempool" /\ seqLeg' = "mined"
    /\ anchored' \in BOOLEAN
    /\ UNCHANGED <<btcTip, seqTip, btcLeg, btcPend, seqPend,
                   gateVars, msgs, takerVars, makerVars>>

Spent(how) == IF how = "claim" THEN "claimed" ELSE "refunded"

ConfirmBtcSpend ==
    /\ btcLeg = "mined"
    /\ \E how \in btcPend : btcLeg' = Spent(how)
    /\ btcPend' = {}
    /\ UNCHANGED <<btcTip, seqTip, seqLeg, seqPend, anchored,
                   gateVars, msgs, takerVars, makerVars>>

ConfirmSeqSpend ==
    /\ seqLeg = "mined"
    /\ \E how \in seqPend : seqLeg' = Spent(how)
    /\ seqPend' = {}
    /\ UNCHANGED <<btcTip, seqTip, btcLeg, btcPend, anchored,
                   gateVars, msgs, takerVars, makerVars>>

Chains == \/ MineBtc \/ MineSeq \/ ConfirmBtcFund \/ ConfirmSeqFund
          \/ ConfirmBtcSpend \/ ConfirmSeqSpend

-----------------------------------------------------------------------------
(* The taker: xswap.js                                                      *)

PageOpen == tk \notin {"fresh", "off"}

\* runForwardCourier opens the session and asks for terms; nothing persisted.
TakerOpens ==
    /\ tk = "fresh" /\ tk' = "terms"
    /\ msgs' = msgs \union {"terms_request"}
    /\ UNCHANGED <<chainVars, gateVars, rec, parked, watch, tkFaults, makerVars>>

\* The maker's terms pass: T_btc ahead of the tip, T_seq a window away.
TakerAcceptsTerms ==
    /\ tk = "terms" /\ "terms" \in msgs
    /\ btcTip < TBtc
    /\ seqTip + ClaimWindow <= TSeq
    /\ tk' = "confirm"
    /\ UNCHANGED <<chainVars, gateVars, msgs, rec, parked, watch, tkFaults, makerVars>>

\* Refused terms, no answer in PRELOCK_TERMS_MS, or "Cancel" in the modal.
\* abortTerms and Cancel tell the maker; a timeout only closes the socket.
TakerLeavesBeforeLock ==
    /\ tk \in {"terms", "confirm"} /\ tk' = "idle"
    /\ \/ msgs' = msgs \union {"taker_fail"}
       \/ tk = "terms" /\ msgs' = msgs
    /\ UNCHANGED <<chainVars, gateVars, rec, parked, watch, tkFaults, makerVars>>

\* Mutant: the broadcast before the stub.
BroadcastBeforeStub ==
    /\ tk = "confirm" /\ tk' = "posting" /\ rec' = NoRec
    /\ UNCHANGED <<chainVars, gateVars, msgs, parked, watch, tkFaults, makerVars>>

\* confirmLockModal, then lockBtcLeg persists the stub before the broadcast.
TakerPersistsStub ==
    /\ tk = "confirm" /\ tk' = "posting"
    /\ rec' = [state |-> "pending", leg |-> "null", mined |-> FALSE]
    /\ UNCHANGED <<chainVars, gateVars, msgs, parked, watch, tkFaults, makerVars>>

\* The funding POST is accepted, or refused: lockBtcLeg throws, the taker is
\* sent back to the composer and the stub stays on disk.
TakerPostsFunding ==
    /\ tk = "posting"
    /\ \/ tk' = "posted" /\ btcLeg' = "mempool"
       \/ tk' = "idle" /\ UNCHANGED btcLeg
    /\ UNCHANGED <<btcTip, seqTip, btcPend, seqLeg, seqPend, anchored, gateVars,
                   msgs, rec, parked, watch, tkFaults, makerVars>>

\* onBroadcast and the return of fund() write the outpoint at height 0.  With
\* the record cleared meanwhile SWAP is null and the assignment throws.
TakerRecordsOutpoint ==
    /\ tk = "posted"
    /\ IF rec.state = "none"
         THEN tk' = "idle" /\ UNCHANGED <<rec, watch>>
         ELSE /\ tk' = "announce" /\ watch' = TRUE
              /\ rec' = [rec EXCEPT !.leg = "vout", !.mined = FALSE]
    /\ UNCHANGED <<chainVars, gateVars, msgs, parked, tkFaults, makerVars>>

TakerAnnounces ==
    /\ tk = "announce" /\ tk' = "await"
    /\ msgs' = msgs \union {"btc_leg_funded"}
    /\ UNCHANGED <<chainVars, gateVars, rec, parked, watch, tkFaults, makerVars>>

\* recv throws: the socket closed, the maker failed the session, or a window
\* ended near a timelock.  The catch keeps the record for the resume hooks.
TakerLosesSession ==
    /\ tk \in {"announce", "await"} /\ tk' = "idle"
    /\ UNCHANGED <<chainVars, gateVars, msgs, rec, parked, watch, tkFaults, makerVars>>

\* SeqLegLocked arrives.  Parked meanwhile, SWAP is null and the write throws.
TakerGetsSeqLeg ==
    /\ tk = "await" /\ "seq_leg_locked" \in msgs
    /\ IF rec.state = "none"
         THEN tk' = "idle" /\ UNCHANGED rec
         ELSE tk' = "gate" /\ rec' = [rec EXCEPT !.state = "seq_locked"]
    /\ UNCHANGED <<chainVars, gateVars, msgs, parked, watch, tkFaults, makerVars>>

\* verifyAnchorFull: our own lock has a mined height, the asset leg's block is
\* known and anchors at or above it.
AnchorVerdictOk == rec.mined /\ seqLeg \in Confirmed /\ anchored
SeqRefundOpen   == seqTip >= TSeq              \* mutant: no margin
NearSeqRefund   == seqTip + SeqRefundMargin >= TSeq

\* verifyAnchorFull returns ok and claimSeq's own checks pass: an unreadable tip
\* (-1) passes the refund margin.  Neither looks at the state: a refund clicked
\* during their awaits does not stop the claim.
TakerGatePasses ==
    /\ tk = "gate" /\ rec.state \in {"seq_locked", "refunded"}
    /\ AnchorVerdictOk
    /\ \E tipRead \in TipReads : ~(tipRead /\ NearSeqRefund)
    /\ tk' = "claiming" /\ claimAt' = seqTip
    /\ UNCHANGED <<chainVars, revealed, lockAt, msgs, rec, parked, watch, tkFaults, makerVars>>

\* Terminal: anchored below the lock, a refund window near, swap not active.
TakerGateGivesUp ==
    /\ tk = "gate" /\ tk' = "idle"
    /\ \/ rec.state # "seq_locked"
       \/ rec.mined /\ seqLeg \in Confirmed /\ ~anchored
       \/ btcTip + BtcMargin >= TBtc /\ ~AnchorVerdictOk
       \/ NearSeqRefund
    /\ UNCHANGED <<chainVars, gateVars, msgs, rec, parked, watch, tkFaults, makerVars>>

\* broadcastSeqTx: the preimage is public once a node accepts the claim.
TakerBroadcastsClaim ==
    /\ tk = "claiming"
    /\ IF seqLeg = "mined"
         THEN tk' = "acked" /\ revealed' = TRUE /\ seqPend' = seqPend \union {"claim"}
         ELSE tk' = "idle" /\ UNCHANGED <<revealed, seqPend>>
    /\ UNCHANGED <<btcTip, seqTip, btcLeg, btcPend, seqLeg, anchored, claimAt, lockAt,
                   msgs, rec, parked, watch, tkFaults, makerVars>>

TakerRecordsClaim ==
    /\ tk = "acked" /\ tk' = "idle"
    /\ rec' = IF rec.state = "none" THEN rec ELSE [rec EXCEPT !.state = "seq_claimed"]
    /\ UNCHANGED <<chainVars, gateVars, msgs, parked, watch, tkFaults, makerVars>>

\* A crash or reload at any await; or the response to a broadcast is lost and
\* the await throws in a page that stays open.
TakerFault ==
    /\ PageOpen /\ tkFaults < MaxTakerFaults /\ tkFaults' = tkFaults + 1
    /\ tk = "acked" => LossyClaim
    /\ \/ tk' = "off" /\ watch' = FALSE
       \/ tk \in {"posted", "acked"} /\ tk' = "idle" /\ UNCHANGED watch
    /\ UNCHANGED <<chainVars, gateVars, msgs, rec, parked, makerVars>>

TakerReloads ==
    /\ tk = "off" /\ tk' = "idle"
    /\ UNCHANGED <<chainVars, gateVars, msgs, rec, parked, watch, tkFaults, makerVars>>

\* resumeAnchorClaim
TakerResumesClaim ==
    /\ tk = "idle" /\ rec.state = "seq_locked" /\ tk' = "gate"
    /\ UNCHANGED <<chainVars, gateVars, msgs, rec, parked, watch, tkFaults, makerVars>>

\* resumeFunding repairs a PENDING record whose outpoint has no mined height,
\* and drops one without an outpoint unless the address scan finds a funding:
\* findFundingByAddress answers null for "nothing there" and for a failed read.
ResumeAllowed == tk = "idle" \/ (StubInterference /\ tk \in {"posting", "posted"})

TakerResumesFunding ==
    /\ ResumeAllowed /\ rec.state = "pending" /\ ~rec.mined
    /\ \/ /\ rec.leg # "null"
          /\ \E readOk \in Reads :
               IF readOk /\ btcLeg \in Confirmed
                 THEN rec' = [rec EXCEPT !.leg = "vout", !.mined = TRUE] /\ UNCHANGED watch
                 ELSE watch' = (watch \/ readOk) /\ UNCHANGED rec
       \/ /\ rec.leg = "null"
          /\ \E readOk \in Reads :
               rec' = IF readOk /\ btcLeg \in {"mempool", "mined"}
                        THEN [rec EXCEPT !.leg = "txid"] ELSE NoRec
          /\ UNCHANGED watch
    /\ UNCHANGED <<chainVars, gateVars, msgs, tk, parked, tkFaults, makerVars>>

\* resumeCourierStranded finds the maker's leg unspent at its HTLC address.
\* (Nothing found changes no funds: the record stays PENDING and is retried.)
\* renderXswap runs resumeFunding first, so the height is known or watched
\* unless that read failed.
TakerFindsStrandedLeg ==
    /\ tk = "idle" /\ rec.state = "pending" /\ rec.leg = "vout"
    /\ rec.mined \/ watch \/ LossyReads
    /\ seqLeg \in {"mempool", "mined"} /\ seqPend = {}
    /\ rec' = [rec EXCEPT !.state = "seq_locked"]
    /\ watch' = (watch \/ ~rec.mined)
    /\ tk' = "gate"
    /\ UNCHANGED <<chainVars, gateVars, msgs, parked, tkFaults, makerVars>>

\* startBtcConfWatcher fills in the mined height, whatever the state.
TakerWatcherSeesBlock ==
    /\ PageOpen /\ watch /\ rec.leg # "null" /\ ~rec.mined /\ btcLeg \in Confirmed
    /\ rec' = [rec EXCEPT !.leg = "vout", !.mined = TRUE]
    /\ watch' = FALSE
    /\ UNCHANGED <<chainVars, gateVars, msgs, tk, parked, tkFaults, makerVars>>

\* The taker's BTC refund is broadcast and a node accepts it.
BtcRefundAccepted ==
    /\ btcTip >= TBtc /\ btcLeg \in {"mempool", "mined"}
    /\ btcPend' = btcPend \union {"refund"}
    /\ UNCHANGED <<btcTip, seqTip, btcLeg, seqLeg, seqPend, anchored>>

\* Mutant: the button survives completion.
RefundOfferedWhenComplete == rec.leg = "vout" /\ rec.state # "refunded"

\* The refund button: an outpoint, and a swap neither complete nor refunded.
RefundOffered == rec.leg = "vout" /\ rec.state \in {"pending", "seq_locked"}

\* onRefundBtc
TakerRefunds ==
    /\ PageOpen /\ RefundOffered
    /\ BtcRefundAccepted
    /\ rec' = [rec EXCEPT !.state = "refunded"]
    /\ UNCHANGED <<gateVars, msgs, tk, parked, watch, tkFaults, makerVars>>

\* parkEligible: locked BTC and nothing claimable (and the mutant without the
\* second half).
ParkEligibleAnyState == rec.state # "none" /\ rec.leg # "null"
ParkEligible == rec.state = "pending" /\ rec.leg # "null"

\* onPark, also from onAbandon
TakerParks ==
    /\ PageOpen /\ ParkEligible
    /\ parked' = "yes" /\ rec' = NoRec
    /\ UNCHANGED <<chainVars, gateVars, msgs, tk, watch, tkFaults, makerVars>>

\* resumeParkedRefunds broadcasts the refund once the timelock has opened.
TakerSweeps ==
    /\ PageOpen /\ parked = "yes" /\ BtcRefundAccepted
    /\ parked' = "done"
    /\ UNCHANGED <<gateVars, msgs, tk, rec, watch, tkFaults, makerVars>>

\* onAbandon / Clear: the slot is freed unless it holds an unrefunded outpoint.
ClearAllowed ==
    \/ rec.state \in {"seq_claimed", "refunded"}
    \/ /\ StubInterference /\ tk \in {"idle", "posting", "posted"}
       /\ rec.state = "pending" /\ rec.leg = "null"

TakerAbandons ==
    /\ PageOpen /\ ClearAllowed
    /\ rec' = NoRec
    /\ UNCHANGED <<chainVars, gateVars, msgs, tk, parked, watch, tkFaults, makerVars>>

Taker ==
    \/ TakerOpens \/ TakerAcceptsTerms \/ TakerLeavesBeforeLock
    \/ TakerPersistsStub \/ TakerPostsFunding \/ TakerRecordsOutpoint
    \/ TakerAnnounces \/ TakerLosesSession \/ TakerGetsSeqLeg
    \/ TakerGatePasses \/ TakerGateGivesUp \/ TakerBroadcastsClaim
    \/ TakerRecordsClaim \/ TakerFault \/ TakerReloads
    \/ TakerResumesClaim \/ TakerResumesFunding \/ TakerFindsStrandedLeg
    \/ TakerWatcherSeesBlock \/ TakerRefunds \/ TakerParks \/ TakerSweeps
    \/ TakerAbandons

-----------------------------------------------------------------------------
(* The maker: xmaker.js                                                     *)

\* The driver promise ends; only the next page load resumes from the record.
MakerLive == mk \notin {"idle", "done", "off"}

\* terms_request: keys and locktimes persisted, then the terms are sent.
MakerSendsTerms ==
    /\ mk = "idle" /\ "terms_request" \in msgs
    /\ mk' = "waitBtc" /\ mrec' = "terms"
    /\ msgs' = msgs \union {"terms"}
    /\ UNCHANGED <<chainVars, gateVars, takerVars, mkFaults>>

\* btc_leg_funded: amount and redeem script match (both run this code).
MakerGetsBtcLeg ==
    /\ mk = "waitBtc" /\ "btc_leg_funded" \in msgs /\ mk' = "verify"
    /\ UNCHANGED <<chainVars, gateVars, msgs, takerVars, mrec, mkFaults>>

\* btcFundWait or seqLockWait runs out, or the taker failed the session.
MakerGivesUp ==
    /\ mk \in {"waitBtc", "verify"}
    /\ mk' = "off" /\ msgs' = msgs \union {"maker_fail"}
    /\ UNCHANGED <<chainVars, gateVars, takerVars, mrec, mkFaults>>

\* findFunding sees the output confirmed (it does not look at its spend).
MakerVerifiesBtc ==
    /\ mk = "verify" /\ btcLeg \in Confirmed
    /\ mk' = "anchor" /\ mrec' = "btc_verified"
    /\ UNCHANGED <<chainVars, gateVars, msgs, takerVars, mkFaults>>

\* awaitAnchorReachesBtcLeg: the node's anchor reaches the BTC leg.
MakerAnchorCatchesUp ==
    /\ mk = "anchor" /\ mk' = "recheck"
    /\ UNCHANGED <<chainVars, gateVars, msgs, takerVars, mrec, mkFaults>>

TimelocksOpen == seqTip >= TSeq \/ btcTip >= TBtc       \* mutant: no windows
FundWindowClosed ==
    \/ seqTip + ClaimWindow >= TSeq
    \/ btcTip + BtcClaimWindow >= TBtc

\* The wait, or the recheck after it, finds the window closed.
MakerDeclinesToFund ==
    /\ mk \in {"anchor", "recheck"} /\ FundWindowClosed
    /\ mk' = "off" /\ mrec' = "failed"
    /\ msgs' = msgs \union {"maker_fail"}
    /\ UNCHANGED <<chainVars, gateVars, takerVars, mkFaults>>

\* The BTC leg still verifies and the window is not known to be closed (an
\* unreadable tip gives no verdict): go and fund.
MakerRechecks ==
    /\ mk = "recheck" /\ btcLeg \in Confirmed
    /\ \E tipRead \in TipReads : ~(tipRead /\ FundWindowClosed)
    /\ mk' = "fund" /\ lockAt' = seqTip
    /\ UNCHANGED <<chainVars, revealed, claimAt, msgs, takerVars, mrec, mkFaults>>

\* seqLeg.fund broadcasts; st.seq_fund_txid is persisted, st.seq_leg is not.
MakerFundsAsset ==
    /\ mk = "fund" /\ mk' = "conf" /\ mrec' = "funding"
    /\ seqLeg' = "mempool"
    /\ UNCHANGED <<btcTip, seqTip, btcLeg, btcPend, seqPend, anchored, gateVars,
                   msgs, takerVars, mkFaults>>

\* waitConf returns: seq_leg is persisted, and announced; or withheld, when the
\* block's anchor is below the BTC leg or cannot be read.
MakerSeesAssetMined ==
    /\ mk = "conf" /\ seqLeg \in Confirmed
    /\ mk' = "settle" /\ mrec' = "seq_locked"
    /\ \E readOk \in Reads :
         msgs' = msgs \union {IF readOk /\ anchored THEN "seq_leg_locked" ELSE "maker_fail"}
    /\ UNCHANGED <<chainVars, gateVars, takerVars, mkFaults>>

\* settleMakerForward reads the spend of the asset leg (mempool included).
PreimageOnChain == seqLeg = "claimed" \/ "claim" \in seqPend

MakerLearnsSecret ==
    /\ mk = "settle" /\ PreimageOnChain
    /\ mk' = "claim" /\ mrec' = "secret_learned"
    /\ UNCHANGED <<chainVars, gateVars, msgs, takerVars, mkFaults>>

\* A rejected broadcast throws and ends the watcher, record kept.
MakerClaimsBtc ==
    /\ mk = "claim"
    /\ IF btcLeg = "mined"
         THEN mk' = "claimSent" /\ btcPend' = btcPend \union {"claim"}
         ELSE mk' = "off" /\ UNCHANGED btcPend
    /\ UNCHANGED <<btcTip, seqTip, btcLeg, seqLeg, seqPend, anchored, gateVars,
                   msgs, takerVars, mrec, mkFaults>>

\* No preimage seen (a failed read counts) and the tip has reached T_seq.
MakerTurnsToRefund ==
    /\ mk = "settle" /\ seqTip >= TSeq
    /\ \E readOk \in Reads : ~(readOk /\ PreimageOnChain)
    /\ mk' = "refund"
    /\ UNCHANGED <<chainVars, gateVars, msgs, takerVars, mrec, mkFaults>>

MakerRefundsAsset ==
    /\ mk = "refund"
    /\ IF seqLeg = "mined"
         THEN mk' = "refundSent" /\ seqPend' = seqPend \union {"refund"}
         ELSE mk' = "off" /\ UNCHANGED seqPend
    /\ UNCHANGED <<btcTip, seqTip, btcLeg, btcPend, seqLeg, anchored, gateVars,
                   msgs, takerVars, mrec, mkFaults>>

\* "settled" or "refunded" is emitted and the record dropped.
MakerDropsSettled ==
    /\ mk \in {"claimSent", "refundSent"} /\ mk' = "done" /\ mrec' = "none"
    /\ UNCHANGED <<chainVars, gateVars, msgs, takerVars, mkFaults>>

\* A crash, a closed tab, waitConf running out, or a call that throws.
MakerFault ==
    /\ MakerLive /\ mkFaults < MaxMakerFaults
    /\ mk = "conf" => FundingFault
    /\ mkFaults' = mkFaults + 1 /\ mk' = "off"
    /\ UNCHANGED <<chainVars, gateVars, msgs, takerVars, mrec>>

\* resumeMakerSwaps: watch a record that has seq_leg, drop one that has not
\* (mutants: only one of the two states that carry it).
ResumesOnlyLocked  == {"seq_locked"}
ResumesOnlyLearned == {"secret_learned"}
Resumable          == {"seq_locked", "secret_learned"}

MakerReloads ==
    /\ mk = "off"
    /\ IF mrec \in Resumable
         THEN mk' = "settle" /\ UNCHANGED mrec
         ELSE mk' = "done" /\ mrec' = "none"
    /\ UNCHANGED <<chainVars, gateVars, msgs, takerVars, mkFaults>>

Maker ==
    \/ MakerSendsTerms \/ MakerGetsBtcLeg \/ MakerGivesUp \/ MakerVerifiesBtc
    \/ MakerAnchorCatchesUp \/ MakerDeclinesToFund \/ MakerRechecks
    \/ MakerFundsAsset \/ MakerSeesAssetMined \/ MakerLearnsSecret
    \/ MakerClaimsBtc \/ MakerTurnsToRefund \/ MakerRefundsAsset
    \/ MakerDropsSettled \/ MakerFault \/ MakerReloads

Next == Chains \/ Taker \/ Maker

Spec == Init /\ [][Next]_vars

\* The chains keep producing blocks and mine what was broadcast.
ChainFairness ==
    /\ WF_vars(MineBtc) /\ WF_vars(MineSeq)
    /\ WF_vars(ConfirmBtcFund) /\ WF_vars(ConfirmSeqFund)
    /\ WF_vars(ConfirmBtcSpend) /\ WF_vars(ConfirmSeqSpend)

\* An open page runs its promises and timers to the end, and a closed one is
\* opened again some day.
TakerFairness ==
    /\ WF_vars(TakerPostsFunding) /\ WF_vars(TakerRecordsOutpoint)
    /\ WF_vars(TakerAnnounces) /\ WF_vars(TakerLosesSession)
    /\ WF_vars(TakerGetsSeqLeg) /\ WF_vars(TakerGatePasses)
    /\ WF_vars(TakerGateGivesUp) /\ WF_vars(TakerBroadcastsClaim)
    /\ WF_vars(TakerRecordsClaim) /\ WF_vars(TakerReloads)
    /\ WF_vars(TakerResumesClaim) /\ WF_vars(TakerResumesFunding)
    /\ WF_vars(TakerFindsStrandedLeg) /\ WF_vars(TakerWatcherSeesBlock)
    /\ WF_vars(TakerSweeps)

\* A read that may fail does not fail for ever: MakerLearnsSecret is strong.
MakerFairness ==
    /\ WF_vars(MakerGetsBtcLeg) /\ WF_vars(MakerGivesUp)
    /\ WF_vars(MakerVerifiesBtc) /\ WF_vars(MakerAnchorCatchesUp)
    /\ WF_vars(MakerDeclinesToFund) /\ WF_vars(MakerRechecks)
    /\ WF_vars(MakerFundsAsset) /\ WF_vars(MakerSeesAssetMined)
    /\ SF_vars(MakerLearnsSecret) /\ WF_vars(MakerClaimsBtc)
    /\ WF_vars(MakerTurnsToRefund) /\ WF_vars(MakerRefundsAsset)
    /\ WF_vars(MakerDropsSettled) /\ WF_vars(MakerReloads)

FairSpec == Spec /\ ChainFairness /\ TakerFairness /\ MakerFairness

\* FairSpec, and a user who presses the refund button the page offers.
RefundingSpec == FairSpec /\ WF_vars(TakerRefunds)

-----------------------------------------------------------------------------
(* Properties                                                               *)

\* The taker never pays for nothing: once the preimage is out, the maker can
\* no longer take the asset back, so a claimed BTC leg (claimSeq revealed s,
\* settleMakerForward used it) never meets a refunded asset leg.  It rests on
\* claimSeq's SEQ_REFUND_MARGIN, whatever either party crashes into.
TakerNeverPaysForNothing == btcLeg = "claimed" => seqLeg # "refunded"

\* The maker never delivers for nothing: if the taker got the asset, the BTC
\* leg was not refunded, however long the maker's page stays closed.
MakerNeverDeliversForNothing == seqLeg = "claimed" => btcLeg # "refunded"

\* An outpoint, once persisted, is never dropped while the BTC is still
\* locked (onAbandon: "NEVER discard a swap that still holds locked BTC").
OutpointNeverForgotten ==
    [][/\ rec.leg # "null" /\ rec'.leg = "null"
       /\ btcLeg \in {"mempool", "mined"}
       => (parked' = "yes" \/ "refund" \in btcPend \/ revealed)]_vars

\* Locked BTC is always covered by a record or a parked entry on disk
\* (lockBtcLeg: "an interrupted funding is never stranded").
LockedBtcIsOnRecord ==
    btcLeg \in {"mempool", "mined"} =>
        rec.state # "none" \/ parked # "no" \/ "refund" \in btcPend \/ revealed

\* The asset leg is only ever funded against a BTC leg that is mined, not
\* spent and not being refunded (RunMakerForward's step 5c).
AssetLockedAgainstLiveBtc ==
    [][seqLeg = "none" /\ seqLeg' # "none"
       => btcLeg = "mined" /\ btcPend = {}]_vars

\* The maker's page forgets a locked asset leg only after it has broadcast
\* the spend that ends the swap.
LockedAssetStaysOnRecord ==
    [][/\ mrec \in {"seq_locked", "secret_learned"}
       /\ mrec' = "none"
       => (\/ "claim" \in btcPend \/ btcLeg = "claimed"
           \/ "refund" \in seqPend \/ seqLeg = "refunded")]_vars

\* Neither side's page forgets a leg of its own that is still locked: both of
\* the above (onAbandon, and the filter of resumeMakerSwaps).
RecordsAreKept == OutpointNeverForgotten /\ LockedAssetStaysOnRecord

\* Every asset leg on chain has a live driver or a record that resumes one
\* (resumeMakerSwaps: "Nothing is at risk before the asset is locked").
LockedAssetIsWatched ==
    seqLeg \in {"mempool", "mined"} =>
        MakerLive \/ mrec \in {"seq_locked", "secret_learned"}
        \/ "refund" \in seqPend \/ "claim" \in btcPend \/ btcLeg = "claimed"

\* Once the preimage is public the maker is paid, even if its page was closed
\* when the taker claimed (resumeMakerSwaps: "the maker MUST claim the BTC leg
\* or lose the asset for nothing - settleMakerForward does exactly that").
RevealedMakerIsPaid == revealed ~> btcLeg = "claimed"

\* No leg stays locked: each one is eventually claimed or refunded.
BtcLegResolves == btcLeg = "mined" ~> btcLeg \in {"claimed", "refunded"}
SeqLegResolves == seqLeg = "mined" ~> seqLeg \in {"claimed", "refunded"}

\* A record holding the asset leg learns its BTC lock's mined height, without
\* which the claim gate never passes (startBtcConfWatcher: "the resume path
\* (resumeFunding on reload) picks the height up later").
MinedHeightIsLearned ==
    (rec.state = "seq_locked" /\ btcLeg = "mined")
        ~> (rec.mined \/ rec.state # "seq_locked" \/ btcLeg # "mined")

\* The abstract swap this one implements.
Place(leg) == CASE leg = "none" -> "held"
                [] leg \in {"mempool", "mined"} -> "locked"
                [] leg = "claimed" -> "paid"
                [] leg = "refunded" -> "returned"

Swap == INSTANCE AtomicSwap
            WITH coins <- Place(btcLeg), goods <- Place(seqLeg), public <- revealed

\* Every behaviour of the two programs is one the abstract swap allows.
ImplementsAtomicSwap == Swap!Spec

\* Every locked leg has the record its owner's refund or claim needs.
LegsAreOnRecord == LockedBtcIsOnRecord /\ LockedAssetIsWatched

\* Every locked leg is claimed or refunded in the end.
LegsResolve == BtcLegResolves /\ SeqLegResolves
=============================================================================
