---------------------------- MODULE MakerQuotes ----------------------------
(***************************************************************************)
(* What the leaf maker quotes and keeps (leaf-maker.mjs and its ladder):   *)
(* the slices its holding is split into and the quotes that publish them,  *)
(* the cut to the room left in its budget, what a firm offer then wants,   *)
(* which reading of the price feed replaces a rate, and which coins one    *)
(* pass merges.  One pair, one asset: every function below is applied to   *)
(* each on its own.                                                        *)
(*                                                                         *)
(* A rate is num / den atoms wanted per atom given.  Growth is an integer  *)
(* here; the code's floating-point growth only changes the sizes.          *)
(***************************************************************************)
EXTENDS Integers, FiniteSetsExt

CONSTANTS
    BpsUnit,      \* the unit of a level's step (10000)
    LeastNum,     \* the numerator a rate is scaled up to (10^8)
    JUMP_READS,   \* far readings in a row that replace a rate
    FarFactor,    \* a rate beyond this factor of the current one is far (2)
    MergePerPass  \* coins merged in one pass at most

ASSUME QuotesAssumption ==
    {BpsUnit, LeastNum, JUMP_READS, FarFactor, MergePerPass} \subseteq Nat \ {0}

DivUp(a, b) == (a + b - 1) \div b
SumOf(f) == MapThenSumSet(LAMBDA x : f[x], DOMAIN f)
Power(g, k) == LET p[i \in 0 .. k] == IF i = 0 THEN 1 ELSE g * p[i - 1] IN p[k]
-----------------------------------------------------------------------------
(* The ladder.  h: [num, den, have, min, levels, step, growth, first];     *)
(* first = 0 splits the holding over the levels.  Levels count from 0.     *)

\* ladderOf's scale: a small rate with several levels gets a larger numerator.
Scale(h) ==
    IF h.levels > 1 /\ h.num < LeastNum THEN DivUp(LeastNum, h.num) ELSE 1
RateNum(h, k) == DivUp(h.num * Scale(h) * (BpsUnit + h.step * k), BpsUnit)
RateDen(h) == h.den * Scale(h)

\* The sizes when the holding is split over n levels: the last takes the rest.
Split(h, n) ==
    LET weight == [k \in 0 .. n - 1 |-> Power(h.growth, k)]
        Share(k) == (h.have * weight[k]) \div SumOf(weight)
    IN  [k \in 0 .. n - 1 |->
            IF k = n - 1 THEN h.have - SumOf([j \in 0 .. n - 2 |-> Share(j)])
            ELSE Share(k)]

\* The sizes that grow from `first`, as far as the holding reaches.
Grown(h, k) == Max({h.first * Power(h.growth, k), h.min})
LeftOver(h, k) == h.have - SumOf([j \in 0 .. k - 1 |-> Grown(h, j)])
FixedSize(h, k) ==
    IF Grown(h, k) > LeftOver(h, k) \/ k = h.levels - 1
    THEN LeftOver(h, k) ELSE Grown(h, k)
Fixed(h) ==
    [k \in {k \in 0 .. h.levels - 1 : LeftOver(h, k) > 0 /\ FixedSize(h, k) >= h.min}
        |-> FixedSize(h, k)]

\* slicesOf: as many levels as leave each at least min, or one.
Sizes(h) ==
    IF h.have < h.min THEN [k \in {} |-> 0]
    ELSE IF h.first > 0 THEN Fixed(h)
    ELSE LET Fits(n) == n = 1 \/ \A k \in 0 .. n - 1 : Split(h, n)[k] >= h.min
         IN  Split(h, Max({n \in 1 .. h.levels : Fits(n)}))

\* What the first k levels hold together.
Depth(sizes, k) == SumOf([j \in {j \in DOMAIN sizes : j < k} |-> sizes[j]])

\* ladderQuotes: quote k carries slice k's rate and the depth of slices 0..k.
QuoteAtTouch(h, sizes, k) ==
    [num |-> RateNum(h, 0), den |-> RateDen(h), min |-> h.min, max |-> Depth(sizes, k + 1)]
QuoteAt(h, sizes, k) ==
    [num |-> RateNum(h, k), den |-> RateDen(h), min |-> h.min, max |-> Depth(sizes, k + 1)]
LadderQuotes(h) ==
    LET sizes == Sizes(h) IN {QuoteAt(h, sizes, k) : k \in DOMAIN sizes}

\* walkWant: what a firm offer of `give` wants, 0 when the ladder cannot carry it.
Part(sizes, give, k) == Max({0, Min({sizes[k], give - Depth(sizes, k)})})
WalkWant(h, give) ==
    LET sizes == Sizes(h)
        ends == {k \in DOMAIN sizes : Depth(sizes, k + 1) >= give}
        worth == SumOf([k \in DOMAIN sizes |-> Part(sizes, give, k) * RateNum(h, k)])
    IN  IF give <= 0 \/ ends = {} THEN 0
        ELSE Min({DivUp(worth, RateDen(h)),
                  DivUp(give * RateNum(h, Min(ends)), RateDen(h))})

\* capQuotes: a quote that may want more than the room is cut to what it buys, and
\* one cut below its least is not published (the pair is named for later).
Fit(q, room) == (room * q.den) \div q.num
CapQuotes(quotes, room) ==
    LET over == {q \in quotes : DivUp(q.max * q.num, q.den) > room}
        cut  == {[q EXCEPT !.max = Fit(q, room)] : q \in over}
    IN  (quotes \ over) \union {q \in cut : q.max >= q.min}

\* POST /v1/firm: what it asks for `give`, 0 when it refuses.
Firm(h, room, give) ==
    LET want == IF give >= h.min THEN WalkWant(h, give) ELSE 0
    IN  IF want > room THEN 0 ELSE want
-----------------------------------------------------------------------------
(* steadyRate, over the readings of one pair in order.  A reading of 0 is  *)
(* one the feed could not give.                                            *)
Far(rate, reading) ==
    reading > FarFactor * rate \/ FarFactor * reading < rate

NoRate == [rate |-> 0, jumps |-> 0]
SteadyRate(s, reading) ==
    CASE s.rate = 0 \/ reading = 0 -> [rate |-> reading, jumps |-> 0]
      [] s.rate # 0 /\ reading # 0 /\ ~Far(s.rate, reading) ->
            [rate |-> reading, jumps |-> 0]
      [] OTHER ->
            IF s.jumps + 1 < JUMP_READS THEN [s EXCEPT !.jumps = @ + 1]
            ELSE [rate |-> reading, jumps |-> 0]

\* The rate quoted after each reading; at 0, before the first.
Quoted(readings, n) ==
    LET s[i \in 0 .. n] ==
            IF i = 0 THEN NoRate ELSE SteadyRate(s[i - 1], readings[i])
    IN  [i \in 0 .. n |-> s[i].rate]
-----------------------------------------------------------------------------
(* coinsToMerge.  coins: a function of numbered coins [value, kind, free], *)
(* kind "board", "round" or "transfer", free when it is not settling and   *)
(* no order rests on it; `small` the maker's coin size, `most` the bound   *)
(* on one merge (0: none).                                                 *)
Precedes(coins, byValue, i, j) ==
    LET b(k) == IF coins[k].kind = "board" THEN 0 ELSE 1
        key(k) == IF byValue THEN <<coins[k].value, b(k), k>>
                  ELSE <<b(k), coins[k].value, k>>
        less(x, y) == \/ x[1] < y[1]
                      \/ x[1] = y[1] /\ x[2] < y[2]
                      \/ x[1] = y[1] /\ x[2] = y[2] /\ x[3] < y[3]
    IN  less(key(i), key(j))

Full(coins, cap) == Cardinality(DOMAIN coins) >= 2 * cap
MergeTarget(coins, cap) ==
    IF Full(coins, cap) THEN 2 * cap - Max({1, cap \div 4}) ELSE (3 * cap) \div 4

\* The coins that may go into the merge: under twice the cap only boards and
\* coins of at most `small`, and with `most` the smallest that fit under it.
Mergeable(coins, cap, small) ==
    {i \in DOMAIN coins :
        /\ coins[i].free /\ coins[i].kind # "transfer"
        /\ Full(coins, cap) \/ coins[i].kind = "board" \/ coins[i].value <= small}
Pool(coins, cap, small, most) ==
    LET all == Mergeable(coins, cap, small)
        UpTo(i) == {j \in all : j = i \/ Precedes(coins, TRUE, j, i)}
        Held(i) == SumOf([j \in UpTo(i) |-> coins[j].value])
    IN  IF most = 0 THEN all ELSE {i \in all : Held(i) <= most}

CoinsToMerge(coins, cap, small, most) ==
    LET pool == Pool(coins, cap, small, most)
        live == Cardinality(DOMAIN coins)
        n == Min({MergePerPass, live - MergeTarget(coins, cap) + 1, Cardinality(pool)})
        Before(i) == {j \in pool : Precedes(coins, most # 0, j, i)}
    IN  IF live <= cap \/ n < 2 THEN {}
        ELSE {i \in pool : Cardinality(Before(i)) < n}
=============================================================================
