----------------------------- MODULE TakeTerms -----------------------------
(***************************************************************************)
(* The arithmetic a taker's terms rest on: the price of a slice of a       *)
(* signed offer and the guard that keeps both of its legs spendable        *)
(* (xswap.js, xrswap.js), the size of a take against one book entry        *)
(* (subswap.js, single-step-book.mjs), the gate on how long a Lightning    *)
(* payment may stay held before a Sequentia timeout (subswap.js), and the  *)
(* fee of the bridge's refund and of its replacements (leg-bridge.mjs).    *)
(*                                                                         *)
(* Pure operators over natural numbers, run over bounded inputs by         *)
(* PriceTerms.                                                             *)
(***************************************************************************)
EXTENDS Integers

CONSTANTS
    BTC_DUST_LIMIT,        \* sats a Bitcoin output must keep
    LEG_SPEND_FEE_FLOOR,   \* sats the guard counts for one spend of a leg
    EXCHANGE_RATE_SCALE,   \* the unit of a published fee rate
    FeeShare, FeeBase,     \* the maker's fee: a share of the leg, and a base
    BtcSpendFee,           \* what btcHtlcSpend pays: its vsize at the flat rate
    SeqSpendFee            \* what a spend of an asset leg costs in native sats

ASSUME TakeAssumption ==
    /\ {BTC_DUST_LIMIT, FeeBase, BtcSpendFee, SeqSpendFee} \subseteq Nat
    /\ {LEG_SPEND_FEE_FLOOR, EXCHANGE_RATE_SCALE, FeeShare} \subseteq Nat \ {0}
    /\ BtcSpendFee <= LEG_SPEND_FEE_FLOOR
    /\ SeqSpendFee <= LEG_SPEND_FEE_FLOOR

CeilDiv(a, b)  == (a + b - 1) \div b
Larger(a, b)   == IF a >= b THEN a ELSE b
Smaller(a, b)  == IF a <= b THEN a ELSE b

\* An answer that refuses, and the amounts it then names.
Refused == [ok |-> FALSE, asset |-> 0, btc |-> 0]
Granted(asset, btc) == [ok |-> TRUE, asset |-> asset, btc |-> btc]
-----------------------------------------------------------------------------
(* The price of a slice.  An offer signs an asset amount and a BTC amount. *)

\* The buyer pays the ceiling, the maker is never underpaid.
ProportionalBtcCeil(btc, take, whole) ==
    IF whole <= 0 \/ take >= whole THEN btc ELSE CeilDiv(btc * take, whole)

\* The seller receives the floor, in the maker's favour.
ProportionalBtcFloor(btc, take, whole) ==
    IF whole <= 0 \/ take >= whole THEN btc ELSE (btc * take) \div whole

\* The least a leg of a partial may hold: dust and two spends of it.  The
\* asset's spend is worth the same fee at its published rate (0: unpriced).
MinSafeBtcLeg == BTC_DUST_LIMIT + 2 * LEG_SPEND_FEE_FLOOR
AssetFee(sats, rate) ==
    IF rate = 0 THEN sats
    ELSE Larger(1, CeilDiv(sats * EXCHANGE_RATE_SCALE, rate))
MinSafeAssetLeg(rate) == 1 + 2 * AssetFee(LEG_SPEND_FEE_FLOOR, rate)

SubDust(take, whole, btc, rate) ==
    take < whole /\ (btc < MinSafeBtcLeg \/ take < MinSafeAssetLeg(rate))

\* The amount the guard calls the whole: the signed offer's, not the terms'.
GuardedByTerms(o, t) == t.seq
GuardedWhole(o, t) == o.seq

\* runForwardCourier on a maker's terms t for a slice `asked` of the offer o.
ForwardTake(o, asked, t, rate) ==
    LET want == IF asked > 0 /\ asked < o.seq THEN asked ELSE o.seq
        fund == ProportionalBtcCeil(t.btc, want, t.seq)
    IN  IF /\ t.seq = want
           /\ t.btc = ProportionalBtcCeil(o.btc, want, o.seq)
           /\ fund > 0
           /\ ~SubDust(want, GuardedWhole(o, t), fund, rate)
           /\ t.fee <= fund \div FeeShare + FeeBase
        THEN Granted(want, fund)
        ELSE Refused

\* driveReverse before it opens a session: the seller's slice of a bid.
ReverseTake(o, asked, rate) ==
    LET btc == ProportionalBtcFloor(o.btc, asked, o.seq)
    IN  IF /\ asked > 0 /\ asked <= o.seq /\ btc > 0
           /\ ~SubDust(asked, o.seq, btc, rate)
        THEN Granted(asked, btc)
        ELSE Refused

\* What the spend of a leg leaves: btcHtlcSpend takes its fee off the output,
\* a claim of the asset pays in the asset, at most half of it.
BtcLeft(btc) == btc - BtcSpendFee
AssetSpendFee(rate) == IF rate = 0 THEN 1 ELSE AssetFee(SeqSpendFee, rate)
AssetFeePaid(asset, rate) ==
    Smaller(AssetSpendFee(rate), Larger(1, asset \div 2))
-----------------------------------------------------------------------------
(* The size of a take against one entry of the book.                       *)

\* sizeSubswapTake: an offer [seq, btc, minFill]; side "buy" or "sell".
SubswapPrice(btc, take, whole, side) ==
    IF side = "sell" THEN (btc * take) \div whole ELSE CeilDiv(btc * take, whole)
MinFloor(o) == IF o.minFill > 0 THEN Smaller(o.minFill, o.seq) ELSE 1
SizeSubswapTake(want, o, side) ==
    CASE want <= 0 \/ o.seq <= 0 ->
            [take |-> 0, btc |-> 0, belowMin |-> FALSE]
      [] want > 0 /\ o.seq > 0 /\ want >= o.seq ->
            [take |-> o.seq, btc |-> o.btc, belowMin |-> FALSE]
      [] OTHER ->
            LET take == Larger(want, MinFloor(o))
            IN  [take |-> take, btc |-> SubswapPrice(o.btc, take, o.seq, side),
                 belowMin |-> want < MinFloor(o)]

\* sizeEntry: the most of an entry [num, den, max, min, lot] that `pay` buys.  A
\* covenant order fills whole or leaves at least its lot.
LotLeft(e, r) ==
    IF e.lot > 0 /\ r < e.max /\ e.max - r < e.lot THEN e.max - e.lot ELSE r
SizeEntry(e, pay) ==
    LET r == LotLeft(e, Smaller((pay * e.den) \div e.num, e.max))
    IN  IF pay > 0 /\ r > 0 /\ r >= e.min
        THEN Granted(r, CeilDiv(r * e.num, e.den))
        ELSE Refused
-----------------------------------------------------------------------------
(* How long a payment may be held.  h: [cltv, tip, lock, margin] in blocks *)
(* of their own chains; `slow` seconds of a Bitcoin block over `fast` of a *)
(* Sequentia block is the rate one is converted to the other at.           *)

\* The last Sequentia height at which a hold of so many Bitcoin blocks settles.
SettleDeadline(h, cltv, slow, fast) == h.tip + CeilDiv(cltv * slow, fast)
Claimable(h) == h.lock - h.tip - h.margin

MaxSafeCltv(h, slow, fast) ==
    Larger(0, ((Claimable(h) - 1) * fast) \div slow)

HoldCltvSafe(h, slow, fast) ==
    SettleDeadline(h, h.cltv, slow, fast) + h.margin < h.lock
-----------------------------------------------------------------------------
(* The fee of a refund of the bridge's HTLC: f: [amount, floor, ceil], an  *)
(* estimate in sats, and the fee of the broadcast it replaces (0: none),   *)
(* raised by the factor 3/2 at least.                                      *)
RefundCeil(f) ==
    IF f.amount > BTC_DUST_LIMIT
    THEN Smaller(f.ceil, f.amount - BTC_DUST_LIMIT)
    ELSE f.ceil
BumpFloor(last) == CeilDiv(last * 3, 2)
SizeRefundFee(f, estimate, last) ==
    Smaller(Larger(Larger(estimate, BumpFloor(last)), f.floor), RefundCeil(f))

\* refundBump rebroadcasts only a strictly higher fee.
Bumped(f, estimate, last) ==
    LET fee == SizeRefundFee(f, estimate, last)
    IN  IF fee > last THEN fee ELSE last
=============================================================================
