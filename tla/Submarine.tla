----------------------------- MODULE Submarine -----------------------------
(***************************************************************************)
(* One peer-to-peer trade of an asset on Sequentia against BTC over        *)
(* Lightning, from the taker's page: a buy (the maker locks the asset, the *)
(* taker pays an invoice on H and claims with the preimage it learns) or a *)
(* sell (the taker locks the asset and settles the maker's held payment    *)
(* with its own preimage, or takes the asset back at T_seq).               *)
(*                                                                         *)
(* Two actors of one page share the trade's record: the driver that lifted *)
(* the offer (subswap.js under swap.js's driveSubswap) and the resume hook *)
(* a timer fires every two minutes (resumeOneSubswap), with nothing        *)
(* between them.  A page may close between any two of their steps; a boot  *)
(* adopts the list's record, or else its rescue copy.                      *)
(***************************************************************************)
EXTENDS Integers

CONSTANTS
    TSeq,            \* T_seq, the height at which the asset HTLC's funder may refund it
    Margin,          \* claimMargin (a buy) and minSeqClaimWindow (a sell)
    Cltv,            \* blocks a Lightning payment on H may stay in flight
    SettleBy,        \* blocks in which a maker settles the payment it was sent
    Drift,           \* blocks between a tip or status reading and the call it clears
    Absence,         \* blocks from the maker's settling until a claim got through
    MaxFaults,       \* bound: page closes and failed calls
    RepayGoesOut,    \* a resume may send a payment that never left or that failed
    TickMidFunding,  \* the hook may read the chain between 'funding' and the broadcast
    StatusFails,     \* a status read of the held invoice may fail
    LateMaker,       \* the seller's maker may pay so late that T_seq passes meanwhile
    LateReorg        \* a reorganisation may undo a bought leg after the gate it passed

ASSUME HeightsAssumption ==
    /\ TSeq \in Nat \ {0} /\ Margin \in Nat /\ Cltv \in Nat /\ SettleBy \in Nat
    /\ Drift \in Nat /\ Absence \in Nat /\ MaxFaults \in Nat
ASSUME SwitchesAssumption ==
    {RepayGoesOut, TickMidFunding, StatusFails, LateMaker, LateReorg} \subseteq BOOLEAN

VARIABLES
    kind,     \* which of the two trades this is
    seq,      \* height of Sequentia
    htlc,     \* the asset HTLC
    ln,       \* the payment on H, in either direction
    mark,     \* the tip read by the pay gate, then the height of the latest step of ln
    told,     \* terms were requested (a buy), or the funded leg announced (a sell)
    rec,      \* the record both actors hold a reference to
    listed,   \* it is in SUBSWAPS, and so in the stored list
    rescue,   \* its copy under swk.rescue.subswaps
    open,     \* the page is open
    driver,   \* where the driver is
    tick,     \* where the resume hook is
    readAt,   \* the tip when the hook last read the invoice's status
    faults

tradeVars == <<kind, seq, htlc, ln, mark, told>>
storeVars == <<rec, listed, rescue>>
pageVars  == <<open, driver, tick, readAt, faults>>
vars == <<tradeVars, storeVars, pageVars>>

Terminal == {"settled", "refunded", "failed"}
States   == {"starting", "awaiting-lock", "anchor-wait", "paying", "claiming",
             "funding", "settling"} \cup Terminal
\* leg: nothing, the redeem script alone, or a funded outpoint; p: the preimage is in it.
Records == [state : States, leg : {"none", "planned", "funded"}, p : BOOLEAN]
NewRec == [state |-> "starting", leg |-> "none", p |-> FALSE]
NoRec  == [NewRec EXCEPT !.state = "failed"]

DriverPcs == {"off", "terms", "locked", "anchor", "pay", "paying", "claim",
              "mint", "fund", "conf", "watch", "settle", "close"}
TickPcs == {"idle", "claim", "repay", "learn", "find", "found", "status", "settle",
            "tip", "refund", "close", "refunded"}

TypeOK ==
    /\ kind \in {"buy", "sell"}
    /\ seq \in Nat /\ mark \in Nat /\ readAt \in Nat /\ faults \in Nat
    /\ htlc \in {"none", "seen", "locked", "claimed", "refunded", "gone"}
    /\ ln \in {"none", "minted", "inflight", "settled", "failed", "expired"}
    /\ told \in BOOLEAN /\ listed \in BOOLEAN /\ open \in BOOLEAN
    /\ rec \in Records /\ rescue \in Records
    /\ driver \in DriverPcs /\ tick \in TickPcs

Init ==
    /\ kind \in {"buy", "sell"}
    /\ seq = 0 /\ htlc = "none" /\ ln = "none" /\ mark = 0 /\ told = FALSE
    /\ rec = NewRec /\ listed = TRUE /\ rescue = NoRec
    /\ open = TRUE /\ driver = "terms" /\ tick = "idle" /\ readAt = 0 /\ faults = 0

Buy == kind = "buy"
Sell == kind = "sell"
Fault == faults < MaxFaults /\ faults' = faults + 1

\* What recovers the trade, and what a resume would go by.
Recovers(r) ==
    \/ Buy /\ r.leg = "funded" /\ (r.p \/ r.state = "paying") /\ r.state \notin Terminal
    \/ Sell /\ r.leg # "none" /\ r.p /\ r.state \in {"funding", "settling"}
Stored == IF listed THEN rec ELSE rescue

\* resumeReversePay: behind the claim window it does not even look the payment up.
LookUpAllowed == TSeq > seq + Margin
CanClaim == \/ driver \in {"paying", "claim"} \/ tick \in {"learn", "claim"}
            \/ Recovers(Stored) /\ (Stored.p \/ LookUpAllowed)

-----------------------------------------------------------------------------
(* Sequentia, the Lightning network and the maker (external).               *)

\* The rates: a payment follows its gate and a refund its reads, is resolved within its timelock, and a buyer
\* whose payment was settled is back with a claim that gets through if it can be.
MineSeq ==
    /\ seq < TSeq
    /\ driver = "pay" => seq < mark + Drift
    /\ tick \in {"tip", "refund"} => seq < readAt + Drift
    /\ ln = "inflight" => seq < mark + Cltv
    /\ Buy /\ ln = "settled" /\ htlc = "locked" /\ CanClaim => seq < mark + Absence
    /\ seq' = seq + 1
    /\ UNCHANGED <<kind, htlc, ln, mark, told, storeVars, pageVars>>

\* A leg is mined: one Sequentia block, whose Bitcoin anchor need not be buried.
HtlcDeepens ==
    /\ htlc = "seen" /\ htlc' = "locked"
    /\ UNCHANGED <<kind, seq, ln, mark, told, storeVars, pageVars>>

MakerLocks ==
    /\ Buy /\ told /\ htlc = "none" /\ seq < TSeq /\ htlc' = "seen"
    /\ UNCHANGED <<kind, seq, ln, mark, told, storeVars, pageVars>>

\* A conflicting spend replaces a leg in the mempool; a reorganisation takes a mined one
\* back there, or undoes it, and only a switch lets it come after the gate.
NothingRests == ln \in {"none", "failed"} /\ driver # "pay"
MakerUnlocks ==
    /\ Buy
    /\ \/ htlc = "seen" /\ htlc' = "gone"
       \/ htlc = "locked" /\ (NothingRests \/ LateReorg) /\ htlc' \in {"seen", "gone"}
    /\ UNCHANGED <<kind, seq, ln, mark, told, storeVars, pageVars>>

MakerRefunds ==
    /\ Buy /\ htlc \in {"seen", "locked"} /\ seq >= TSeq /\ htlc' = "refunded"
    /\ UNCHANGED <<kind, seq, ln, mark, told, storeVars, pageVars>>

\* The maker pays the seller's hold invoice for the leg it was told of.
MakerPays ==
    /\ Sell /\ told /\ ln = "minted" /\ htlc = "locked"
    /\ LateMaker \/ seq + Cltv < TSeq
    /\ ln' = "inflight" /\ mark' = seq
    /\ UNCHANGED <<kind, seq, htlc, told, storeVars, pageVars>>

\* The maker settles the buyer's payment, which shows the buyer the preimage.
MakerSettles ==
    /\ Buy /\ ln = "inflight" /\ seq <= mark + SettleBy
    /\ ln' = "settled" /\ mark' = seq
    /\ UNCHANGED <<kind, seq, htlc, told, storeVars, pageVars>>

\* The hosted node settles a plain invoice by itself: it was minted with the preimage.
NodeSettles ==
    /\ Sell /\ ln = "inflight"
    /\ ln' = "settled" /\ mark' = seq
    /\ UNCHANGED <<kind, seq, htlc, told, storeVars, pageVars>>

\* A payment in flight fails back, or an unpaid invoice expires.
PaymentFails ==
    /\ \/ ln = "inflight" /\ ln' = "failed"
       \/ ln = "minted" /\ ln' = "expired"
    /\ mark' = seq
    /\ UNCHANGED <<kind, seq, htlc, told, storeVars, pageVars>>

\* With the preimage the settled hold showed it, the seller's maker claims the asset.
MakerClaims ==
    /\ Sell /\ ln = "settled" /\ htlc = "locked" /\ htlc' = "claimed"
    /\ UNCHANGED <<kind, seq, ln, mark, told, storeVars, pageVars>>

World == \/ MineSeq \/ HtlcDeepens \/ MakerLocks \/ MakerUnlocks \/ MakerRefunds
         \/ MakerPays \/ MakerSettles \/ NodeSettles \/ PaymentFails \/ MakerClaims

-----------------------------------------------------------------------------
(* The record: saveSubswap, rescueSubswapUpsert, clearSubswap.  Every change *)
(* of it is saved at once, so the stored list holds it exactly while it is   *)
(* listed; a record dropped from the list lives on in its driver.            *)

Save(r) == rec' = r /\ UNCHANGED <<listed, rescue>>
SaveBoth(r) == rec' = r /\ rescue' = r /\ UNCHANGED listed
Drop == listed' = FALSE /\ rescue' = NoRec /\ UNCHANGED rec

\* driveSubswap's catch: a record that can recover something is kept as it is.
Caught == IF rec.p \/ rec.leg = "funded" THEN rec ELSE [rec EXCEPT !.state = "failed"]

-----------------------------------------------------------------------------
(* The buyer's driver: runTakerReverseSubmarine.                            *)

DriverAsks ==
    /\ Buy /\ driver = "terms"
    /\ told' = TRUE /\ Save([rec EXCEPT !.state = "awaiting-lock"])
    /\ driver' = "locked"
    /\ UNCHANGED <<kind, seq, htlc, ln, mark, open, tick, readAt, faults>>

\* verifySeqLeg and the first claim-window gate.
DriverVerifies ==
    /\ Buy /\ driver = "locked" /\ htlc # "none"
    /\ IF htlc \in {"seen", "locked"} /\ TSeq > seq + Margin
       THEN Save([rec EXCEPT !.state = "anchor-wait"]) /\ driver' = "anchor"
       ELSE Save(Caught) /\ driver' = "off"
    /\ UNCHANGED <<tradeVars, open, tick, readAt, faults>>

\* The second claim-window gate and holdCltvSafeVsTseq: even the latest settling of
\* this payment leaves the buyer the margin before T_seq.
PayGateWindowOnly == TSeq > seq + Margin
PayGate == TSeq > seq + Margin /\ seq + Cltv + Margin < TSeq

\* What waitAnchorBuried waits for under minAnchorDepth 0 and max0ConfAtoms 0: that the
\* leg's funding is confirmed, however shallow its block's anchor.
LegAnnounced == htlc \in {"seen", "locked"}
LegConfirmed == htlc = "locked"

\* The pay gates after the anchor wait, and onAboutToPay's two saves before the payment.
DriverGates ==
    /\ Buy /\ driver = "anchor" /\ LegConfirmed
    /\ IF PayGate
       THEN /\ SaveBoth([rec EXCEPT !.state = "paying", !.leg = "funded"])
            /\ driver' = "pay" /\ mark' = seq
       ELSE Save(Caught) /\ driver' = "off" /\ UNCHANGED mark
    /\ UNCHANGED <<kind, seq, htlc, ln, told, open, tick, readAt, faults>>

\* nodePay starts; a payment of this hash that is already known is not sent again.
DriverPays ==
    /\ Buy /\ driver = "pay"
    /\ IF ln = "none" THEN ln' = "inflight" /\ mark' = seq ELSE UNCHANGED <<ln, mark>>
    /\ driver' = "paying"
    /\ UNCHANGED <<kind, seq, htlc, told, storeVars, open, tick, readAt, faults>>

DriverLearns ==
    /\ Buy /\ driver = "paying" /\ ln \in {"settled", "failed"}
    /\ IF ln = "settled"
       THEN SaveBoth([rec EXCEPT !.state = "claiming", !.p = TRUE]) /\ driver' = "claim"
       ELSE Save(Caught) /\ driver' = "off"
    /\ UNCHANGED <<tradeVars, open, tick, readAt, faults>>

\* The claim's broadcast; an HTLC already spent is refused.
DriverClaims ==
    /\ Buy /\ driver = "claim"
    /\ IF htlc = "locked"
       THEN htlc' = "claimed" /\ driver' = "close" /\ UNCHANGED storeVars
       ELSE Save(Caught) /\ driver' = "off" /\ UNCHANGED htlc
    /\ UNCHANGED <<kind, seq, ln, mark, told, open, tick, readAt, faults>>

\* onClaimed, onSettled: after the call's response.
DriverCloses ==
    /\ driver = "close" /\ Save([rec EXCEPT !.state = "settled"]) /\ driver' = "off"
    /\ UNCHANGED <<tradeVars, open, tick, readAt, faults>>

-----------------------------------------------------------------------------
(* The seller's driver: runTakerSubmarine.                                  *)

\* The maker's terms, the refund-window gate, and the minting of the hold invoice.
DriverMints ==
    /\ Sell /\ driver = "terms"
    /\ IF TSeq > seq /\ TSeq - seq >= Margin
       THEN ln' = "minted" /\ driver' = "mint" /\ UNCHANGED storeVars
       ELSE Save(Caught) /\ driver' = "off" /\ UNCHANGED ln
    /\ UNCHANGED <<kind, seq, htlc, mark, told, open, tick, readAt, faults>>

\* onAboutToFund: preimage, refund key and redeem script are saved before the broadcast.
DriverPlans ==
    /\ Sell /\ driver = "mint"
    /\ SaveBoth([rec EXCEPT !.state = "funding", !.leg = "planned", !.p = TRUE])
    /\ driver' = "fund"
    /\ UNCHANGED <<tradeVars, open, tick, readAt, faults>>

DriverFunds ==
    /\ Sell /\ driver = "fund" /\ htlc = "none"
    /\ htlc' = "seen" /\ driver' = "conf"
    /\ UNCHANGED <<kind, seq, ln, mark, told, storeVars, open, tick, readAt, faults>>

\* waitConf, onFunded and the announcement.
DriverAnnounces ==
    /\ Sell /\ driver = "conf" /\ htlc = "locked"
    /\ SaveBoth([rec EXCEPT !.state = "settling", !.leg = "funded", !.p = TRUE])
    /\ told' = TRUE /\ driver' = "watch"
    /\ UNCHANGED <<kind, seq, htlc, ln, mark, open, tick, readAt, faults>>

\* What a read of the invoice's status may answer.
Held == ln = "inflight"
StatusRead(answer) == answer \in IF StatusFails THEN {ln, "unknown"} ELSE {ln}

\* The hold loop: settled, held, or the two hours are over.
DriverWatches ==
    /\ Sell /\ driver = "watch"
    /\ \/ ln = "settled" /\ driver' = "close"
       \/ Held /\ driver' = "settle"
       \/ ~Held /\ ln # "settled" /\ driver' = "off"
    /\ UNCHANGED <<tradeVars, storeVars, open, tick, readAt, faults>>

\* nodeSettle captures the payment and shows the maker the preimage.
SettleHold == Held /\ ln' = "settled" /\ mark' = seq

DriverSettles ==
    /\ Sell /\ driver = "settle"
    /\ \/ SettleHold /\ driver' = "close"
       \/ ~Held /\ driver' = "off" /\ UNCHANGED <<ln, mark>>
    /\ UNCHANGED <<kind, seq, htlc, told, storeVars, open, tick, readAt, faults>>

\* A call of the driver throws, before or after it had its effect; the courier or the
\* anchor wait gives up.
DriverThrows ==
    /\ driver # "off" /\ Fault
    /\ Save(Caught) /\ driver' = "off"
    /\ UNCHANGED <<tradeVars, open, tick, readAt>>

Driver == \/ DriverAsks \/ DriverVerifies \/ DriverGates \/ DriverPays \/ DriverLearns
          \/ DriverClaims \/ DriverCloses \/ DriverMints \/ DriverPlans \/ DriverFunds
          \/ DriverAnnounces \/ DriverWatches \/ DriverSettles

-----------------------------------------------------------------------------
(* The resume hook: resumeOneSubswap, at a boot and on the timer.           *)

\* The hook without its look-up of a payment sent, or of a funding broadcast, earlier.
BlockWithPreimage(r) ==
    CASE Buy /\ r.p /\ r.leg = "funded"                   -> "claim"
      [] Sell /\ r.leg = "funded" /\ r.state = "settling" -> "status"
      [] OTHER                                            -> "idle"
\* Which of its blocks the record falls into; a record in none of them is dropped.
Block(r) ==
    CASE Buy /\ r.p /\ r.leg = "funded"                       -> "claim"
      [] Buy /\ ~r.p /\ r.leg = "funded" /\ r.state = "paying" -> "repay"
      [] Sell /\ r.p /\ r.leg = "planned"                     -> "find"
      [] Sell /\ r.leg = "funded" /\ r.state = "settling"     -> "status"
      [] OTHER                                                -> "idle"

TickStarts ==
    /\ open /\ listed /\ tick = "idle"
    /\ IF rec.state \in Terminal \/ Block(rec) = "idle"
       THEN Drop /\ UNCHANGED tick
       ELSE tick' = Block(rec) /\ UNCHANGED storeVars
    /\ UNCHANGED <<tradeVars, open, driver, readAt, faults>>

\* claimReverseSeqLeg with a persisted preimage: no window gate for this kind.
TickClaims ==
    /\ tick = "claim"
    /\ IF htlc = "locked" THEN htlc' = "claimed" /\ tick' = "close"
       ELSE tick' = "idle" /\ UNCHANGED htlc
    /\ UNCHANGED <<kind, seq, ln, mark, told, storeVars, open, driver, readAt, faults>>

\* resumeReversePay.
TickRepays ==
    /\ tick = "repay"
    /\ \/ ~LookUpAllowed /\ tick' = "idle" /\ UNCHANGED <<ln, mark>>
       \/ LookUpAllowed /\ tick' = "learn" /\ UNCHANGED <<ln, mark>>
       \/ /\ LookUpAllowed /\ RepayGoesOut /\ ln \in {"none", "failed"}
          /\ ln' = "inflight" /\ mark' = seq /\ tick' = "learn"
    /\ UNCHANGED <<kind, seq, htlc, told, storeVars, open, driver, readAt, faults>>

\* It has the preimage in a local only, until the claim has been answered.
TickLearns ==
    /\ tick = "learn"
    /\ IF ln = "settled" /\ htlc = "locked" THEN htlc' = "claimed" /\ tick' = "close"
       ELSE tick' = "idle" /\ UNCHANGED htlc
    /\ UNCHANGED <<kind, seq, ln, mark, told, storeVars, open, driver, readAt, faults>>

TickCloses ==
    /\ tick = "close"
    /\ Save([rec EXCEPT !.state = "settled", !.p = TRUE]) /\ tick' = "idle"
    /\ UNCHANGED <<tradeVars, open, driver, readAt, faults>>

\* findFundingByAddressStrict: an address that is definitely empty drops the record.
TickFinds ==
    /\ tick = "find"
    /\ \/ /\ htlc = "none" /\ (driver = "fund" => TickMidFunding)
          /\ Drop /\ tick' = "idle"
       \/ htlc # "none" /\ tick' = "found" /\ UNCHANGED storeVars
    /\ UNCHANGED <<tradeVars, open, driver, readAt, faults>>

\* The funding's confirmation, or the failed wait for it, and the save of its outpoint.
TickFound ==
    /\ tick = "found" /\ IF htlc = "seen" THEN Fault ELSE UNCHANGED faults
    /\ Save([rec EXCEPT !.state = "settling", !.leg = "funded"]) /\ tick' = "status"
    /\ UNCHANGED <<tradeVars, open, driver, readAt>>

TickReadsStatus ==
    /\ tick = "status"
    /\ \E answer \in {"unknown", ln} :
         /\ StatusRead(answer)
         /\ tick' = CASE answer = "settled"  -> "close"
                      [] answer = "inflight" -> "settle"
                      [] OTHER               -> "tip"
    /\ readAt' = seq
    /\ UNCHANGED <<tradeVars, storeVars, open, driver, faults>>

TickSettles ==
    /\ tick = "settle"
    /\ \/ SettleHold /\ tick' = "close"
       \/ ~Held /\ tick' = "idle" /\ UNCHANGED <<ln, mark>>
    /\ UNCHANGED <<kind, seq, htlc, told, storeVars, open, driver, readAt, faults>>

RefundOpen == seq >= TSeq

TickReadsTip ==
    /\ tick = "tip"
    /\ tick' = IF RefundOpen THEN "refund" ELSE "idle"
    /\ UNCHANGED <<tradeVars, storeVars, open, driver, readAt, faults>>

TickRefunds ==
    /\ tick = "refund"
    /\ IF htlc \in {"seen", "locked"} THEN htlc' = "refunded" /\ tick' = "refunded"
       ELSE tick' = "idle" /\ UNCHANGED htlc
    /\ UNCHANGED <<kind, seq, ln, mark, told, storeVars, open, driver, readAt, faults>>

TickRefunded ==
    /\ tick = "refunded"
    /\ Save([rec EXCEPT !.state = "refunded"]) /\ tick' = "idle"
    /\ UNCHANGED <<tradeVars, open, driver, readAt, faults>>

\* A call of the hook throws, before or after its effect: caught, and only noted.
TickThrows ==
    /\ tick # "idle" /\ Fault /\ tick' = "idle"
    /\ UNCHANGED <<tradeVars, storeVars, open, driver, readAt>>

Tick == \/ TickStarts \/ TickClaims \/ TickRepays \/ TickLearns \/ TickCloses
        \/ TickFinds \/ TickFound \/ TickReadsStatus \/ TickSettles \/ TickReadsTip
        \/ TickRefunds \/ TickRefunded

-----------------------------------------------------------------------------
(* The page and its user.                                                   *)

\* The Clear button (subswapClearable).
UserClears ==
    /\ open /\ listed /\ rec.state \in {"starting", "awaiting-lock", "failed"}
    /\ Drop
    /\ UNCHANGED <<tradeVars, pageVars>>

\* reapStalledCrossings: three minutes in 'starting'.
Reaps ==
    /\ open /\ listed /\ rec.state = "starting" /\ ~rec.p
    /\ Save([rec EXCEPT !.state = "failed"])
    /\ UNCHANGED <<tradeVars, pageVars>>

\* A page that shows no trade may be reloaded at any time.
PageCloses ==
    /\ open /\ IF listed THEN Fault ELSE UNCHANGED faults
    /\ open' = FALSE /\ driver' = "off" /\ tick' = "idle"
    /\ UNCHANGED <<tradeVars, storeVars, readAt>>

\* A boot: the stored list first, then the rescue copies that are not in it.
PageOpens ==
    /\ ~open /\ open' = TRUE
    /\ rec' = IF listed THEN rec ELSE rescue
    /\ listed' = (listed \/ rescue # NoRec)
    /\ UNCHANGED <<tradeVars, rescue, driver, tick, readAt, faults>>

Next == World \/ Driver \/ DriverThrows \/ Tick \/ TickThrows
        \/ UserClears \/ Reaps \/ PageCloses \/ PageOpens

Spec == Init /\ [][Next]_vars

\* Fairness: blocks come, broadcast legs are mined; a maker that has the preimage of a
\* leg claims it; a running driver proceeds; the timer fires; a closed page is opened.
FairSpec ==
    /\ Spec
    /\ WF_vars(MineSeq) /\ WF_vars(HtlcDeepens) /\ WF_vars(MakerClaims)
    /\ WF_vars(Driver) /\ WF_vars(Tick) /\ WF_vars(PageOpens)

-----------------------------------------------------------------------------
(* Properties.                                                              *)

\* A buyer whose payment the maker settled never finds the asset taken back: the pay
\* gates (subswap.js:603-654) and the resume keep every late settling claimable, and the
\* leg paid for is a confirmed one.
BuyerNeverPaysForNothing == Buy /\ ln = "settled" => htlc \notin {"refunded", "gone"}

\* A seller never has the payment and the asset: the hook refunds only what it has
\* read to be neither held nor settled (swap.js:6620-6640).
SellerNeverHasBoth == Sell /\ ln = "settled" => htlc # "refunded"

\* While something of the user's is out, what recovers it is stored: in the list, or in
\* the rescue copy when the record was cleared under its driver (swap.js:5716-5740).
Outstanding ==
    \/ Buy /\ ln \in {"inflight", "settled"} /\ htlc = "locked"
    \/ Sell /\ htlc \in {"seen", "locked"} /\ ln # "settled"
OutstandingIsOnRecord == Outstanding => (listed /\ Recovers(rec)) \/ Recovers(rescue)

\* The trade is an atomic swap of the asset HTLC against the Lightning payment.
Place(h) == CASE h = "none" -> "held" [] h \in {"seen", "locked"} -> "locked"
              [] h = "claimed" -> "paid" [] OTHER -> "returned"
Payment == CASE ln \in {"none", "minted", "expired"} -> "held" [] ln = "inflight" -> "locked"
             [] ln = "settled" -> "paid" [] ln = "failed" -> "returned"
Swap == INSTANCE AtomicSwap WITH
    coins <- Place(htlc), goods <- Payment, public <- ln = "settled"
ImplementsAtomicSwap == Swap!Spec

\* A record cleared under its driver, whose rescue copy waits for the next boot.
Waits == ~listed /\ Recovers(rescue)

\* A buyer who paid gets the asset, from the driver or the hook (swap.js:6522-6550).
PaidIsClaimed == (Buy /\ ln = "settled" /\ htlc = "locked") ~> (htlc = "claimed" \/ Waits)

\* A funded sell does not stay locked: it is settled and claimed, or refunded at T_seq
\* (swap.js:6587-6643).
SellResolves == (Sell /\ htlc = "locked") ~> (htlc \in {"claimed", "refunded"} \/ Waits)

\* A claim or refund that was broadcast ends its record too (swap.js:6530).
RecordEnds == (htlc \in {"claimed", "refunded"}) ~> (rec.state \in Terminal \/ ~listed)

\* No side has both legs, and what the wallet has outstanding it can still find.
TradeIsSafe ==
    /\ TypeOK
    /\ BuyerNeverPaysForNothing /\ SellerNeverHasBoth /\ OutstandingIsOnRecord

\* A trade ends: a bought asset is claimed, a sold one is paid for or refunded.
TradeResolves == PaidIsClaimed /\ SellResolves
=============================================================================
