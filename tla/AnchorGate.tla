---------------------------- MODULE AnchorGate -----------------------------
(***************************************************************************)
(* The two chains a cross-chain trade spans, and what the wallet checks so *)
(* that a Bitcoin reorganisation undoes both of its legs or neither.       *)
(*                                                                         *)
(* A Sequentia block commits to a Bitcoin block, its anchor, and leaves    *)
(* the chain with it.  A leg of asset in a block anchored at or above the  *)
(* height of the BTC leg therefore goes when the BTC leg's block goes.     *)
(* The one who funds the asset leg waits for that first (xrswap.js         *)
(* driveReverse and resumeFundingPhase for a selling taker, xmaker.js      *)
(* RunMakerForward for a selling maker); the one who claims it reads the   *)
(* anchor of its block before the secret is revealed (xswap.js             *)
(* verifyAnchorFull, xmaker.js RunMakerReverse).  Heights are recorded     *)
(* when a leg confirms and are not read again, except where the code does. *)
(*                                                                         *)
(* Both directions are modelled, and so is a peer that checks nothing.     *)
(***************************************************************************)
EXTENDS Integers

CONSTANTS MaxHeight,      \* bound: the Bitcoin heights there are
          MaxReorgs,      \* bound: Bitcoin's reorganisations
          MaxSeqReorgs,   \* bound: Sequentia's own
          ReverseRemines  \* a selling taker waits again this often; the code's is 10

ASSUME AnchorGateAssumption ==
    MaxHeight \in Nat \ {0} /\ {MaxReorgs, MaxSeqReorgs, ReverseRemines} \subseteq Nat

VARIABLES
    btcTip, legH,     \* Bitcoin: its tip, the BTC leg's block (0: unconfirmed)
    dead,             \* the BTC leg's input was spent otherwise
    live,             \* Sequentia: the anchor of its tip
    seqLeg,           \* the asset leg: "none", "mempool" or "mined"
    a, certified,     \* the anchor of its block; the committee certified it
    side, honest,     \* the direction; who of the two checks
    reported,         \* the claimant's node has the field poscertified
    fu, cl,           \* the funder and the claimant
    reorgs,
    moved,            \* Bitcoin took a leg's block between the end of the
                      \* funder's wait and the claimed leg's confirmation
    shaken,           \* Sequentia moved the asset leg: "no", before it was
                      \* announced ("early") or since ("late")
    exact,            \* at its gate the claimant's height was the BTC leg's
    undone            \* Bitcoin took the asset leg's block since the gate

btc  == <<btcTip, legH, dead>>
seq  == <<live, seqLeg, a, certified>>
who  == <<side, honest, reported>>
seen == <<moved, shaken, exact, undone>>
vars == <<btc, seq, who, fu, cl, reorgs, seen>>

Heights == 0..MaxHeight
Larger(x, y)  == IF x >= y THEN x ELSE y
Smaller(x, y) == IF x <= y THEN x ELSE y

FunderChecks   == honest \in {"funder", "both"}
ClaimantChecks == honest \in {"claimant", "both"}
Forward == side = "forward"
Standing == legH > 0 /\ ~dead
TakenOnChain == cl.pc = "claimed" /\ seqLeg = "mined"

Init ==
    /\ btcTip = 1 /\ legH \in 0..1 /\ dead = FALSE
    /\ live = 1 /\ seqLeg = "none" /\ a = -1 /\ certified = FALSE
    /\ side \in {"forward", "reverse"}
    /\ honest \in {"funder", "claimant", "both"} /\ reported \in BOOLEAN
    /\ fu = [pc |-> "confirm", h |-> 0, found |-> 0, remines |-> 0, conf |-> -1]
    /\ cl = [pc |-> "confirm", hp |-> 0]
    /\ reorgs = [btc |-> 0, seq |-> 0]
    /\ moved = FALSE /\ shaken = "no" /\ exact = FALSE /\ undone = FALSE
-----------------------------------------------------------------------------
(* The chains.                                                             *)

BtcBlock ==
    /\ btcTip < MaxHeight
    /\ btcTip' = btcTip + 1
    /\ IF legH = 0 /\ ~dead
       THEN \/ legH' \in {0, btcTip + 1} /\ UNCHANGED dead
            \/ dead' = TRUE /\ UNCHANGED legH
       ELSE UNCHANGED <<legH, dead>>
    /\ UNCHANGED <<seq, who, fu, cl, reorgs, seen>>

\* The blocks above f are replaced by one more than there were, and with them
\* go the Sequentia blocks anchored above f.  The BTC leg comes back in
\* another block, waits, or is double-spent.
BtcReorg(f) ==
    /\ reorgs.btc < MaxReorgs
    /\ f < btcTip /\ btcTip < MaxHeight
    /\ reorgs' = [reorgs EXCEPT !.btc = @ + 1]
    /\ btcTip' = btcTip + 1
    /\ IF legH > f
       THEN \/ legH' \in {0} \cup (f + 1)..(btcTip + 1) /\ UNCHANGED dead
            \/ legH' = 0 /\ dead' = TRUE
       ELSE UNCHANGED <<legH, dead>>
    /\ live' = Smaller(live, f)
    /\ moved' = (moved \/ (~TakenOnChain /\ (legH > f \/ a > f)))
    /\ IF a > f
       THEN /\ seqLeg' = "mempool" /\ a' = -1 /\ certified' = FALSE
            /\ undone' = TRUE
       ELSE UNCHANGED <<seqLeg, a, certified, undone>>
    /\ UNCHANGED <<who, fu, cl, shaken, exact>>

\* Anchors never go backwards along a chain.
SeqBlock ==
    /\ live' \in live..Smaller(live + 1, btcTip)
    /\ \/ seqLeg = "mempool" /\ seqLeg' = "mined" /\ a' = live'
       \/ UNCHANGED <<seqLeg, a>>
    /\ UNCHANGED <<btc, certified, who, fu, cl, reorgs, seen>>

Certify ==
    /\ seqLeg = "mined" /\ ~certified
    /\ certified' = TRUE
    /\ UNCHANGED <<btc, live, seqLeg, a, who, fu, cl, reorgs, seen>>

\* Another branch of Sequentia wins: it carries the asset leg in a block with
\* another anchor, or not yet.  A certified block stays.
SeqReorg ==
    /\ reorgs.seq < MaxSeqReorgs
    /\ seqLeg = "mined" /\ ~certified
    /\ reorgs' = [reorgs EXCEPT !.seq = @ + 1]
    /\ live' \in 0..live
    /\ \/ seqLeg' = "mined" /\ a' \in 0..live'
       \/ seqLeg' = "mempool" /\ a' = -1
    /\ shaken' = IF fu.pc = "announced" THEN "late" ELSE IF shaken = "no" THEN "early" ELSE shaken
    /\ UNCHANGED <<btc, certified, who, fu, cl, moved, exact, undone>>

-----------------------------------------------------------------------------
(* The funder of the asset leg.                                            *)

FunderAt(pc) == FunderChecks /\ fu.pc = pc
FunderStep == UNCHANGED <<btc, who, cl, reorgs, exact, undone>>
FunderOnly == FunderStep /\ UNCHANGED <<seq, moved, shaken>>

\* The BTC leg confirms.  A maker takes the taker's height if that is higher.
MeasuredHeight == IF Forward THEN Larger(legH, cl.hp) ELSE legH
FunderConfirms ==
    /\ FunderAt("confirm")
    /\ Standing
    /\ fu' = [fu EXCEPT !.pc = "anchor", !.found = legH, !.h = MeasuredHeight]
    /\ FunderOnly

\* awaitAnchorReachesBtcLeg(h + 1)
Target(h) == h + 1
AnchorReached ==
    /\ FunderAt("anchor")
    /\ live >= Target(fu.h)
    /\ fu' = [fu EXCEPT !.pc = "look"]
    /\ moved' = FALSE
    /\ FunderStep /\ UNCHANGED <<seq, shaken>>

\* The timelocks may leave no room for a claim at any poll.
WindowCloses ==
    /\ FunderAt("anchor")
    /\ fu' = [fu EXCEPT !.pc = "failed"]
    /\ FunderOnly

\* The look right before the asset moves: the leg is on chain where it was.
LegGone == ~Standing
NeverMoved == FALSE
LegMoved == legH # fu.found
Remines == IF Forward THEN 0 ELSE ReverseRemines
FunderLooks ==
    /\ FunderAt("look")
    /\ \E closed \in BOOLEAN :
       fu' = IF LegGone \/ closed \/ (LegMoved /\ fu.remines >= Remines)
             THEN [fu EXCEPT !.pc = "failed"]
             ELSE IF LegMoved
             THEN [fu EXCEPT !.pc = "anchor", !.found = legH, !.h = legH, !.remines = @ + 1]
             ELSE [fu EXCEPT !.pc = "fund"]
    /\ FunderOnly

FunderFunds ==
    /\ FunderAt("fund")
    /\ fu' = [fu EXCEPT !.pc = "mined"]
    /\ seqLeg' = "mempool"
    /\ FunderStep /\ UNCHANGED <<live, a, certified, moved, shaken>>

FunderSeesBlock ==
    /\ FunderAt("mined")
    /\ seqLeg = "mined"
    /\ fu' = [fu EXCEPT !.pc = "check", !.conf = a]
    /\ FunderOnly

\* The check after the funding: the taker's by the leg's txid, where it is
\* now; the maker's by the hash of the block that confirmed it.
AnchorByHash == fu.conf
AnchorRead == IF Forward THEN fu.conf ELSE a
FunderAnnounces ==
    /\ FunderAt("check")
    /\ fu' = [fu EXCEPT !.pc = IF AnchorRead >= fu.h THEN "announced" ELSE "withheld"]
    /\ FunderOnly

\* A peer that checks nothing locks its leg as soon as it likes.
PeerFunds ==
    /\ ~FunderChecks
    /\ fu.pc = "confirm"
    /\ fu' = [fu EXCEPT !.pc = "announced"]
    /\ seqLeg' = "mempool"
    /\ FunderStep /\ UNCHANGED <<live, a, certified, moved, shaken>>
-----------------------------------------------------------------------------
(* The claimant of the asset leg, who locked the BTC leg.                  *)

ClaimantAt(pc) == ClaimantChecks /\ cl.pc = pc
ClaimantOnly == UNCHANGED <<btc, seq, who, fu, reorgs, moved, shaken, undone>>

ClaimantConfirms ==
    /\ cl.pc = "confirm"
    /\ Standing
    /\ cl' = [cl EXCEPT !.pc = "gate", !.hp = legH]
    /\ ClaimantOnly /\ UNCHANGED exact

\* The evidence is of the block that holds the leg now.  A node that does not
\* report the certificate (null) passes: the gate is then anchor-only.
NotRefused == reported => certified
GateOneShort == seqLeg = "mined" /\ a + 1 >= cl.hp /\ NotRefused      \* mutant
Gate == seqLeg = "mined" /\ a >= cl.hp /\ NotRefused
GatePasses ==
    /\ ClaimantAt("gate")
    /\ fu.pc = "announced"
    /\ Gate
    /\ cl' = [cl EXCEPT !.pc = "claim"]
    /\ exact' = (cl.hp = legH)
    /\ undone' = FALSE
    /\ UNCHANGED <<btc, seq, who, fu, reorgs, moved, shaken>>

\* It waits as long as the window is open, and not for an anchor that is fixed
\* below the lock.
GateStops ==
    /\ ClaimantAt("gate")
    /\ cl' = [cl EXCEPT !.pc = "refund"]
    /\ ClaimantOnly /\ UNCHANGED exact

\* The window is read once more, and the claim reveals the secret.
ClaimantClaims ==
    /\ ClaimantAt("claim")
    /\ \E closed \in BOOLEAN :
          cl' = [cl EXCEPT !.pc = IF closed THEN "refund" ELSE "claimed"]
    /\ ClaimantOnly /\ UNCHANGED exact

\* A peer that checks nothing claims a leg it finds, announced or not.
PeerClaims ==
    /\ ~ClaimantChecks
    /\ cl.pc \in {"confirm", "gate"}
    /\ seqLeg # "none"
    /\ cl' = [cl EXCEPT !.pc = "claimed"]
    /\ undone' = FALSE
    /\ UNCHANGED <<btc, seq, who, fu, reorgs, moved, shaken, exact>>

Funder == \/ FunderConfirms \/ AnchorReached \/ WindowCloses \/ FunderLooks
          \/ FunderFunds \/ FunderSeesBlock \/ FunderAnnounces
Claimant == ClaimantConfirms \/ GatePasses \/ GateStops \/ ClaimantClaims

\* Bound: the chains are followed as long as a leg is at stake.
AtStake == cl.pc # "refund" /\ fu.pc # "failed"

Next ==
    \/ AtStake /\ BtcBlock
    \/ AtStake /\ \E f \in Heights : BtcReorg(f)
    \/ AtStake /\ (SeqBlock \/ Certify \/ SeqReorg)
    \/ Funder \/ PeerFunds
    \/ Claimant \/ PeerClaims

Spec == Init /\ [][Next]_vars
-----------------------------------------------------------------------------
(* Properties.                                                             *)

ChainTypes ==
    /\ btcTip \in Heights /\ live \in 0..btcTip
    /\ legH \in 0..btcTip /\ (dead => legH = 0)
    /\ seqLeg \in {"none", "mempool", "mined"}
    /\ IF seqLeg = "mined" THEN a \in 0..live ELSE a = -1 /\ ~certified
PartyTypes ==
    /\ fu \in [pc : {"confirm", "anchor", "look", "fund", "mined", "check",
                     "announced", "withheld", "failed"},
               h : Heights, found : Heights, remines : 0..ReverseRemines,
               conf : -1..MaxHeight]
    /\ cl \in [pc : {"confirm", "gate", "claim", "claimed", "refund"}, hp : Heights]
    /\ reorgs \in [btc : 0..MaxReorgs, seq : 0..MaxSeqReorgs]
    /\ side \in {"forward", "reverse"} /\ honest \in {"funder", "claimant", "both"}
FlagTypes ==
    /\ dead \in BOOLEAN /\ certified \in BOOLEAN /\ moved \in BOOLEAN
    /\ exact \in BOOLEAN /\ undone \in BOOLEAN
    /\ reported \in BOOLEAN /\ shaken \in {"no", "early", "late"}
TypeOK == ChainTypes /\ PartyTypes /\ FlagTypes

\* The claimant has the asset and the secret is out, yet the BTC leg is gone,
\* and no reorganisation of Bitcoin has taken the asset leg along.
Outlived == TakenOnChain /\ ~undone /\ ~Standing

\* "An anchored Sequentia leg cannot outlive the Bitcoin leg" (README.md), for
\* the one who gives the asset: whatever the claimant does, and however
\* Bitcoin reorganises after the claim, if both legs stayed where they were
\* from the end of the funder's wait to the claim.
FunderIsSafe == FunderChecks /\ ~moved /\ shaken = "no" => ~Outlived

\* The same from the claimant's gate alone, whenever the peer funded: the gate
\* suffices as long as the height it compares with is still the BTC leg's and,
\* where the node does not report the certificate, Sequentia leaves the announced
\* leg where it is.
ClaimantIsSafe ==
    ClaimantChecks /\ exact /\ (reported \/ shaken # "late") => ~Outlived

\* "A Sequentia reorg can still land our funding on a lower-anchored branch
\* ... do NOT invite the claim" (xrswap.js): a selling taker and a maker that
\* keep to the protocol are safe from such a reorganisation before the leg is
\* announced, whatever height the maker recorded.
WithheldLegIsSafe ==
    honest = "both" /\ ~Forward /\ ~moved /\ shaken # "late" => ~Outlived

\* What is not so.  Violated: a gate without the certificate passes a leg that
\* Sequentia then moves, the claimant's height is not read again, and a maker's
\* check after the funding asks for a block by its hash.
AnchorOnlyIsSafe == ClaimantChecks /\ exact => ~Outlived
NeverOutlived == honest = "both" /\ ~moved => ~Outlived
WithheldByMakerIsSafe ==
    honest = "both" /\ Forward /\ ~moved /\ shaken # "late" => ~Outlived
=============================================================================
