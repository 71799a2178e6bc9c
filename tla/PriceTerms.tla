----------------------------- MODULE PriceTerms -----------------------------
(***************************************************************************)
(* One question to the arithmetic of TakeTerms or MakerQuotes, and its     *)
(* answer: every question of a bounded kind is asked once, and what the    *)
(* answer must keep is stated beside a definition of its own.              *)
(***************************************************************************)
EXTENDS TakeTerms, MakerQuotes, Sequences

CONSTANTS
    MaxAmount,   \* the largest amount of an offer, an entry or a holding
    Offers,      \* asset amounts of a signed offer
    Prices,      \* BTC amounts of a signed offer
    FeeRates,    \* published rates of the asset, 0 for none
    Readings,    \* readings of the feed, 0 for none
    Coins        \* the number of coins of one asset

ASSUME PricesAssumption ==
    /\ MaxAmount \in Nat /\ Coins \in Nat
    /\ Offers \subseteq Nat \ {0} /\ Prices \subseteq Nat \ {0}
    /\ FeeRates \subseteq Nat /\ Readings \subseteq Nat /\ 0 \in Readings

VARIABLES ask, reply

priceVars == <<ask, reply>>

answer == reply.is
-----------------------------------------------------------------------------
(* The questions.                                                          *)

\* A maker's terms for the slice asked of an offer: of the slice or of the whole
\* offer, at its price or a sat beside it, with a fee at the bound or past it.
AskBuy ==
    \E o \in [seq : Offers, btc : Prices], asked \in 0 .. MaxAmount,
       rate \in FeeRates, whole \in BOOLEAN, d \in {-1, 0, 1}, over \in {0, 1} :
        LET slice == IF asked > 0 /\ asked < o.seq THEN asked ELSE o.seq
            seq   == IF whole THEN o.seq ELSE slice
            btc   == CeilDiv(o.btc * seq, o.seq) + d
        IN  ask = [kind |-> "buy", o |-> o, asked |-> asked, rate |-> rate,
                   t |-> [seq |-> seq, btc |-> btc,
                          fee |-> btc \div FeeShare + FeeBase + over]]

AskSell ==
    \E o \in [seq : Offers, btc : Prices], asked \in 0 .. MaxAmount + 1,
       rate \in FeeRates :
        ask = [kind |-> "sell", o |-> o, asked |-> asked, rate |-> rate]

AskSize ==
    \E num \in 1 .. 4, den \in 1 .. 3, max \in 1 .. MaxAmount,
       min \in 1 .. 3, lot \in {0, 1, 3}, pay \in 0 .. 2 * MaxAmount :
        /\ lot > 0 => min = lot
        /\ ask = [kind |-> "size", pay |-> pay,
                  e |-> [num |-> num, den |-> den, max |-> max,
                         min |-> min, lot |-> lot]]

AskHold ==
    \E h \in [cltv : 0 .. MaxAmount, tip : {5}, lock : 0 .. 20, margin : {2}],
       slow \in {1, 3, 5}, fast \in {1, 2} :
        ask = [kind |-> "hold", h |-> h, slow |-> slow, fast |-> fast]

AskRefund ==
    \E f \in [amount : 1 .. 2 * MaxAmount, floor : {1, 4}, ceil : {10, 40}],
       estimates \in [1 .. 3 -> {0, 3, 9, 25}] :
        ask = [kind |-> "refund", f |-> f, estimates |-> estimates]

AskQuotes ==
    \E h \in [num : {1, 3}, den : {2}, have : 0 .. MaxAmount, min : {1, 3},
              levels : 1 .. 3, step : {0, 1, 3}, growth : {1, 2}, first : {0, 2}],
       room \in {0, 1, 2, 5, 100} :
        ask = [kind |-> "quotes", h |-> h, room |-> room]

AskFeed ==
    \E readings \in [1 .. 5 -> Readings] :
        ask = [kind |-> "feed", readings |-> readings]

Coin(value, kind, free) == [value |-> value, kind |-> kind, free |-> free]
CoinKinds ==
    {Coin(1, "board", TRUE), Coin(3, "board", TRUE), Coin(1, "round", TRUE),
     Coin(2, "round", TRUE), Coin(3, "round", TRUE), Coin(1, "round", FALSE),
     Coin(1, "transfer", TRUE)}
AskMerge ==
    \E coins \in [1 .. Coins -> CoinKinds], cap \in {2, 3}, most \in {0, 4} :
        ask = [kind |-> "merge", coins |-> coins, cap |-> cap, small |-> 1,
               most |-> most]

Question == \/ AskBuy \/ AskSell \/ AskSize \/ AskHold
            \/ AskRefund \/ AskQuotes \/ AskFeed \/ AskMerge

PriceInit == reply = [given |-> FALSE] /\ Question
-----------------------------------------------------------------------------
(* The answers.                                                            *)

Answers(kind, a) ==
    /\ ~reply.given /\ ask.kind = kind
    /\ reply' = [given |-> TRUE, is |-> a]
    /\ UNCHANGED ask

AnswerBuy  == Answers("buy", ForwardTake(ask.o, ask.asked, ask.t, ask.rate))
AnswerSell == Answers("sell", ReverseTake(ask.o, ask.asked, ask.rate))
AnswerSize == Answers("size", SizeEntry(ask.e, ask.pay))
AnswerHold ==
    Answers("hold", [ok |-> HoldCltvSafe(ask.h, ask.slow, ask.fast),
                     cap |-> MaxSafeCltv(ask.h, ask.slow, ask.fast)])

\* A refund at the first estimate, and a block later its replacement, twice.
AnswerRefund ==
    LET first  == SizeRefundFee(ask.f, ask.estimates[1], 0)
        second == Bumped(ask.f, ask.estimates[2], first)
    IN  Answers("refund", <<first, second, Bumped(ask.f, ask.estimates[3], second)>>)

AnswerQuotes == Answers("quotes", CapQuotes(LadderQuotes(ask.h), ask.room))
AnswerFeed   == Answers("feed", Quoted(ask.readings, 5))
AnswerMerge ==
    Answers("merge", CoinsToMerge(ask.coins, ask.cap, ask.small, ask.most))

PriceNext ==
    \/ AnswerBuy \/ AnswerSell \/ AnswerSize \/ AnswerHold
    \/ AnswerRefund \/ AnswerQuotes \/ AnswerFeed \/ AnswerMerge

PriceSpec == PriceInit /\ [][PriceNext]_priceVars
-----------------------------------------------------------------------------
Answered(kind) == reply.given /\ ask.kind = kind

\* Every answer has its form: amounts are naturals, what is granted is not zero,
\* a quote's least is no more than its most.
TakeTypeOK ==
    /\ \A kind \in {"buy", "sell", "size"} : Answered(kind) =>
            /\ answer \in [ok : BOOLEAN, asset : Nat, btc : Nat]
            /\ answer.ok => answer.asset > 0
    /\ Answered("hold") => answer \in [ok : BOOLEAN, cap : Nat]
    /\ Answered("refund") => answer \in Seq(Nat)
QuoteTypeOK ==
    /\ Answered("quotes") =>
            \A q \in answer : 0 < q.min /\ q.min <= q.max /\ q.num > 0 /\ q.den > 0
    /\ Answered("feed") => \A i \in 0 .. 5 : answer[i] \in Readings
    /\ Answered("merge") => answer \subseteq 1 .. Coins

\* A slice is taken at the ratio the maker signed and no maker's terms move it: a
\* buyer pays it rounded up, a seller receives it rounded down, and never a sat
\* further.
PriceIsTheSignedRatio ==
    /\ Answered("buy") /\ answer.ok =>
        /\ answer.btc * ask.o.seq >= ask.o.btc * answer.asset
        /\ (answer.btc - 1) * ask.o.seq < ask.o.btc * answer.asset
        /\ answer.asset <= ask.o.seq
    /\ Answered("sell") /\ answer.ok =>
        /\ answer.btc * ask.o.seq <= ask.o.btc * answer.asset
        /\ (answer.btc + 1) * ask.o.seq > ask.o.btc * answer.asset
        /\ answer.asset <= ask.o.seq

\* A part of an offer that the guard lets through can be spent on both chains: its
\* BTC leg leaves more than dust, and its asset leg pays the whole fee of a claim,
\* not the half of its amount a smaller leg is cut to.
SliceIsSpendable ==
    (Answered("buy") \/ Answered("sell")) /\ answer.ok /\ answer.asset < ask.o.seq =>
        /\ BtcLeft(answer.btc) >= BTC_DUST_LIMIT
        /\ AssetFeePaid(answer.asset, ask.rate) = AssetSpendFee(ask.rate)
        /\ AssetFeePaid(answer.asset, ask.rate) < answer.asset

\* An entry gives the most that `pay` buys of it: no larger amount it may give
\* (all of it, or what leaves a lot of it) costs no more.
SizedAsMuchAsPays ==
    Answered("size") =>
        LET e == ask.e
            May(r) == /\ r >= e.min /\ (r = e.max \/ e.max - r >= e.lot)
                      /\ CeilDiv(r * e.num, e.den) <= ask.pay
            all == {r \in 1 .. e.max : May(r)}
        IN  IF all = {} THEN ~answer.ok
            ELSE /\ answer.ok /\ answer.asset = Max(all)
                 /\ answer.btc = CeilDiv(answer.asset * e.num, e.den)

\* The bound the driver puts on its own payment's delay is the gate itself: a hold
\* passes exactly when it is within that bound, and one as long as the bound is
\* over with the claim margin left before the asset's timeout.
CapIsTheGate ==
    Answered("hold") =>
        /\ answer.ok <=> Claimable(ask.h) > 0 /\ ask.h.cltv <= answer.cap
        /\ answer.ok =>
            SettleDeadline(ask.h, answer.cap, ask.slow, ask.fast) + ask.h.margin
                < ask.h.lock

\* No refund of the bridge burns its output: whatever the estimates, it still pays
\* more than dust, and no fee is past the configured most.
RefundPaysOut ==
    Answered("refund") =>
        \A i \in 1 .. 3 :
            /\ answer[i] <= ask.f.ceil
            /\ ask.f.amount > BTC_DUST_LIMIT =>
                ask.f.amount - answer[i] >= BTC_DUST_LIMIT

\* A refund that does not confirm is raised at every replacement, even when the
\* estimate stays, until nothing more may be spent on it.
RefundEscalates ==
    Answered("refund") =>
        \A i \in 1 .. 2 : answer[i + 1] > answer[i] \/ answer[i] = RefundCeil(ask.f)

\* What the maker publishes it also sells: for every amount a published quote
\* carries, the firm offer is given, within the holding, and asks no more than the
\* quote's price rounded up, nor less than the maker's own rate.
FirmHonoursQuote ==
    Answered("quotes") =>
        \A q \in answer : \A give \in q.min .. q.max :
            LET want == Firm(ask.h, ask.room, give)
            IN  /\ 0 < want /\ want <= DivUp(give * q.num, q.den)
                /\ want <= ask.room /\ give <= ask.h.have
                /\ want * ask.h.den >= give * ask.h.num

\* A single wrong reading of the feed moves no quote: a rate far from the one
\* quoted just before it replaces that one only as the last of JUMP_READS readings
\* in a row that are all far from it.
JumpIsSustained ==
    Answered("feed") =>
        \A i \in 1 .. 5 :
            answer[i] # 0 /\ answer[i - 1] # 0 /\ Far(answer[i - 1], answer[i]) =>
                /\ i >= JUMP_READS /\ answer[i] = ask.readings[i]
                /\ \A j \in i - JUMP_READS + 1 .. i :
                        /\ ask.readings[j] # 0
                        /\ Far(answer[i - 1], ask.readings[j])

\* One pass of merging gives up only coins that are free to move, no more than one
\* merge may hold, never takes the count below its target, and leaves it above only
\* when no further coin could be added.
MergeIsBounded ==
    Answered("merge") =>
        LET live == Cardinality(1 .. Coins)
            left == live - Cardinality(answer) + 1
            Value(S) == SumOf([i \in S |-> ask.coins[i].value])
        IN  /\ answer # {} =>
                /\ live > ask.cap /\ Cardinality(answer) \in 2 .. MergePerPass
                /\ \A i \in answer :
                        ask.coins[i].free /\ ask.coins[i].kind # "transfer"
                /\ ask.most # 0 => Value(answer) <= ask.most
                /\ left >= MergeTarget(ask.coins, ask.cap)
            /\ answer # {} /\ left > MergeTarget(ask.coins, ask.cap) =>
                \/ Cardinality(answer) = MergePerPass
                \/ \A i \in Mergeable(ask.coins, ask.cap, ask.small) \ answer :
                        ask.most # 0 /\ Value(answer \union {i}) > ask.most
-----------------------------------------------------------------------------
\* What the sources say and the code does not keep.

\* leaf-maker.mjs:474: a far rate "is taken only once `JUMP_READS` readings in a row
\* say so": here the readings agree with one another, and a reading that is missing
\* does not make the next one trusted at once.
JumpIsConfirmed ==
    Answered("feed") =>
        \A i \in 1 .. 5 : \A k \in 0 .. i - 1 :
            /\ answer[i] # 0 /\ answer[k] # 0 /\ Far(answer[k], answer[i])
            /\ \A j \in k + 1 .. i - 1 : answer[j] = 0
            => /\ i >= JUMP_READS
               /\ \A j \in i - JUMP_READS + 1 .. i :
                    ask.readings[j] # 0 /\ ~Far(ask.readings[j], answer[i])

\* leaf-maker.mjs:159: at twice the cap, "the smallest coins of all".
SmallestFirst ==
    Answered("merge") /\ Full(ask.coins, ask.cap) /\ answer # {} =>
        \A i \in answer :
            \A j \in Mergeable(ask.coins, ask.cap, ask.small) \ answer :
                ask.coins[i].value <= ask.coins[j].value

\* The arithmetic of a take, and of the fees and delays around it.
TakesAreSound ==
    /\ TakeTypeOK
    /\ PriceIsTheSignedRatio /\ SliceIsSpendable /\ SizedAsMuchAsPays
    /\ CapIsTheGate /\ RefundPaysOut /\ RefundEscalates

\* The arithmetic of what the leaf maker quotes and keeps.
QuotesAreSound ==
    QuoteTypeOK /\ FirmHonoursQuote /\ JumpIsSustained /\ MergeIsBounded
=============================================================================
