-------------------------- MODULE AnchorGateProofs --------------------------
(***************************************************************************)
(* What the two anchor checks are worth, proved for any number of heights  *)
(* and of reorganisations of either chain.                                 *)
(*                                                                         *)
(* FunderIsSafe is not inductive: it speaks of the claim only.  FunderInv  *)
(* follows the BTC leg from the end of the funder's wait: where the look   *)
(* found it, it is buried by Sequentia's anchor, and the block that takes  *)
(* the asset leg inherits that anchor.  ClaimantInv is the same fact from  *)
(* the claimant's gate on, where the certificate keeps the block, or, if   *)
(* the node reports none, Sequentia leaving the announced leg alone does.  *)
(***************************************************************************)
EXTENDS AnchorGate, TLAPS

ClaimantInv ==
    /\ ClaimantChecks /\ cl.pc = "gate" => cl.hp > 0
    /\ ClaimantChecks /\ cl.pc \in {"claim", "claimed"} => fu.pc = "announced"
    /\ /\ ClaimantChecks /\ cl.pc \in {"claim", "claimed"} /\ exact /\ ~undone
       /\ reported \/ shaken # "late"
       => Standing /\ seqLeg = "mined" /\ (reported => certified) /\ legH <= a

BeforeFunding == fu.pc \in {"confirm", "anchor", "look", "fund", "failed"}
Funded        == fu.pc \in {"mined", "check", "announced", "withheld"}

\* Sequentia has not moved the leg, or its funder looked again since.
Unshaken == \/ shaken = "no"
            \/ honest = "both" /\ ~Forward /\ shaken = "early" /\ fu.pc = "announced"

\* The BTC leg's block is no later than the one the asset leg's block answers
\* to, or the next block will answer to.
Buried == Standing /\ (IF seqLeg = "mined" THEN legH <= a ELSE legH <= live)

NothingYet == BeforeFunding => seqLeg = "none"
FoundIsPast ==
    fu.pc \notin {"confirm", "failed"} =>
        0 < fu.found /\ fu.found <= fu.h /\ fu.found <= btcTip
LookIsBuried == fu.pc = "look" /\ ~moved /\ legH = fu.found => legH <= live
FundIsBuried == fu.pc = "fund" /\ ~moved => Standing /\ legH <= live
StaysFound ==
    honest = "both" /\ fu.pc \in {"fund", "mined", "check"} /\ ~moved
        => Standing /\ legH = fu.found
FundedIsBuried ==
    Funded /\ ~moved /\ Unshaken /\ ~(cl.pc = "claimed" /\ undone) => Buried

FunderInv ==
    FunderChecks => /\ FoundIsPast /\ LookIsBuried /\ FundIsBuried
                    /\ StaysFound /\ FundedIsBuried

GateInv == TypeOK /\ NothingYet /\ ClaimantInv /\ FunderInv
-----------------------------------------------------------------------------
LEMMA TypeStep ==
    ASSUME TypeOK, NothingYet, [Next]_vars PROVE TypeOK' /\ NothingYet'
  <1> USE AnchorGateAssumption
      DEF TypeOK, NothingYet, BeforeFunding, ChainTypes, PartyTypes, FlagTypes, Heights,
          btc, seq, who, seen, FunderAt, FunderStep, FunderOnly,
          ClaimantAt, ClaimantOnly
  <1>1. ASSUME BtcBlock PROVE TypeOK' /\ NothingYet'
    <2>1. ChainTypes'
      BY <1>1 DEF BtcBlock
    <2>2. PartyTypes'
      BY <1>1 DEF BtcBlock
    <2>3. FlagTypes'
      BY <1>1 DEF BtcBlock
    <2>4. NothingYet'
      BY <1>1 DEF BtcBlock
    <2> QED BY <2>1, <2>2, <2>3, <2>4
  <1>2. ASSUME NEW f \in Heights, BtcReorg(f) PROVE TypeOK' /\ NothingYet'
    <2>1. ChainTypes'
      BY <1>2 DEF BtcReorg, Smaller
    <2>2. PartyTypes'
      BY <1>2 DEF BtcReorg, Smaller
    <2>3. FlagTypes'
      BY <1>2 DEF BtcReorg, Smaller
    <2>4. NothingYet'
      BY <1>2 DEF BtcReorg, Smaller
    <2> QED BY <2>1, <2>2, <2>3, <2>4
  <1>3. ASSUME SeqBlock PROVE TypeOK' /\ NothingYet'
    BY <1>3 DEF SeqBlock, Smaller
  <1>4. ASSUME Certify PROVE TypeOK' /\ NothingYet'
    BY <1>4 DEF Certify
  <1>5. ASSUME SeqReorg PROVE TypeOK' /\ NothingYet'
    BY <1>5 DEF SeqReorg
  <1>6. ASSUME FunderConfirms PROVE TypeOK' /\ NothingYet'
    <2>0. legH \in Heights
      OBVIOUS
    <2>1. ChainTypes'
      BY <1>6 DEF FunderConfirms, Standing, MeasuredHeight, Larger
    <2>2. PartyTypes'
      BY <2>0, <1>6 DEF FunderConfirms, Standing, MeasuredHeight, Larger
    <2>3. FlagTypes'
      BY <1>6 DEF FunderConfirms, Standing, MeasuredHeight, Larger
    <2>4. NothingYet'
      BY <1>6 DEF FunderConfirms, Standing, MeasuredHeight, Larger
    <2> QED BY <2>1, <2>2, <2>3, <2>4
  <1>7. ASSUME AnchorReached PROVE TypeOK' /\ NothingYet'
    <2>1. ChainTypes'
      BY <1>7 DEF AnchorReached
    <2>2. PartyTypes'
      BY <1>7 DEF AnchorReached
    <2>3. FlagTypes'
      BY <1>7 DEF AnchorReached
    <2>4. NothingYet'
      BY <1>7 DEF AnchorReached
    <2> QED BY <2>1, <2>2, <2>3, <2>4
  <1>8. ASSUME WindowCloses PROVE TypeOK' /\ NothingYet'
    BY <1>8 DEF WindowCloses
  <1>9. ASSUME FunderLooks PROVE TypeOK' /\ NothingYet'
    <2>0. legH \in Heights
      OBVIOUS
    <2>1. ChainTypes'
      BY <1>9 DEF FunderLooks, LegMoved, Remines
    <2>2. PartyTypes'
      <3>1. ReverseRemines \in Nat /\ 0 \in 0..ReverseRemines
        OBVIOUS
      <3>2. PICK closed \in BOOLEAN :
              fu' = IF LegGone \/ closed \/ (LegMoved /\ fu.remines >= Remines)
                    THEN [fu EXCEPT !.pc = "failed"]
                    ELSE IF LegMoved
                    THEN [fu EXCEPT !.pc = "anchor", !.found = legH, !.h = legH,
                    !.remines = @ + 1]
                    ELSE [fu EXCEPT !.pc = "fund"]
        BY <1>9 DEF FunderLooks
      <3>3. CASE LegMoved /\ ~(fu.remines >= Remines)
        <4>1. fu.remines + 1 \in 0..ReverseRemines
          BY <3>1, <3>3 DEF Remines
        <4> QED BY <1>9, <2>0, <3>2, <4>1 DEF FunderLooks
      <3>4. CASE ~(LegMoved /\ ~(fu.remines >= Remines))
        <4>1. fu' \in {[fu EXCEPT !.pc = "failed"], [fu EXCEPT !.pc = "fund"]}
          BY <3>2, <3>4
        <4> QED BY <1>9, <4>1 DEF FunderLooks
      <3> QED BY <3>3, <3>4
    <2>3. FlagTypes'
      BY <1>9 DEF FunderLooks, LegMoved, Remines
    <2>4. NothingYet'
      BY <1>9 DEF FunderLooks, LegMoved, Remines
    <2> QED BY <2>1, <2>2, <2>3, <2>4
  <1>10. ASSUME FunderFunds PROVE TypeOK' /\ NothingYet'
    <2>1. ChainTypes'
      BY <1>10 DEF FunderFunds
    <2>2. PartyTypes'
      BY <1>10 DEF FunderFunds
    <2>3. FlagTypes'
      BY <1>10 DEF FunderFunds
    <2>4. NothingYet'
      BY <1>10 DEF FunderFunds
    <2> QED BY <2>1, <2>2, <2>3, <2>4
  <1>11. ASSUME FunderSeesBlock PROVE TypeOK' /\ NothingYet'
    <2>0. a \in -1..MaxHeight
      OBVIOUS
    <2>1. ChainTypes'
      BY <1>11 DEF FunderSeesBlock
    <2>2. PartyTypes'
      BY <2>0, <1>11 DEF FunderSeesBlock
    <2>3. FlagTypes'
      BY <1>11 DEF FunderSeesBlock
    <2>4. NothingYet'
      BY <1>11 DEF FunderSeesBlock
    <2> QED BY <2>1, <2>2, <2>3, <2>4
  <1>12. ASSUME FunderAnnounces PROVE TypeOK' /\ NothingYet'
    BY <1>12 DEF FunderAnnounces
  <1>13. ASSUME PeerFunds PROVE TypeOK' /\ NothingYet'
    <2>1. ChainTypes'
      BY <1>13 DEF PeerFunds
    <2>2. PartyTypes'
      BY <1>13 DEF PeerFunds
    <2>3. FlagTypes'
      BY <1>13 DEF PeerFunds
    <2>4. NothingYet'
      BY <1>13 DEF PeerFunds
    <2> QED BY <2>1, <2>2, <2>3, <2>4
  <1>14. ASSUME ClaimantConfirms PROVE TypeOK' /\ NothingYet'
    <2>0. legH \in Heights
      OBVIOUS
    <2>1. ChainTypes'
      BY <1>14 DEF ClaimantConfirms, Standing
    <2>2. PartyTypes'
      BY <2>0, <1>14 DEF ClaimantConfirms, Standing
    <2>3. FlagTypes'
      BY <1>14 DEF ClaimantConfirms, Standing
    <2>4. NothingYet'
      BY <1>14 DEF ClaimantConfirms, Standing
    <2> QED BY <2>1, <2>2, <2>3, <2>4
  <1>15. ASSUME GatePasses PROVE TypeOK' /\ NothingYet'
    <2>1. ChainTypes'
      BY <1>15 DEF GatePasses
    <2>2. PartyTypes'
      BY <1>15 DEF GatePasses
    <2>3. FlagTypes'
      BY <1>15 DEF GatePasses
    <2>4. NothingYet'
      BY <1>15 DEF GatePasses
    <2> QED BY <2>1, <2>2, <2>3, <2>4
  <1>16. ASSUME GateStops PROVE TypeOK' /\ NothingYet'
    BY <1>16 DEF GateStops
  <1>17. ASSUME ClaimantClaims PROVE TypeOK' /\ NothingYet'
    BY <1>17 DEF ClaimantClaims
  <1>18. ASSUME PeerClaims PROVE TypeOK' /\ NothingYet'
    <2>1. ChainTypes'
      BY <1>18 DEF PeerClaims
    <2>2. PartyTypes'
      BY <1>18 DEF PeerClaims
    <2>3. FlagTypes'
      BY <1>18 DEF PeerClaims
    <2>4. NothingYet'
      BY <1>18 DEF PeerClaims
    <2> QED BY <2>1, <2>2, <2>3, <2>4
  <1>19. ASSUME UNCHANGED vars PROVE TypeOK' /\ NothingYet'
    BY <1>19 DEF vars
  <1> QED
    BY <1>1, <1>2, <1>3, <1>4, <1>5, <1>6, <1>7, <1>8, <1>9, <1>10, <1>11, <1>12, <1>13,
    <1>14, <1>15, <1>16, <1>17, <1>18, <1>19 DEF Next, Funder, Claimant

LEMMA ClaimantStep == ASSUME TypeOK, ClaimantInv, [Next]_vars PROVE ClaimantInv'
  <1> USE AnchorGateAssumption
      DEF TypeOK, ChainTypes, PartyTypes, FlagTypes, ClaimantInv, ClaimantChecks,
          FunderChecks, Standing, Heights, btc, seq, who, seen, FunderAt,
          FunderStep, FunderOnly, ClaimantAt, ClaimantOnly
  <1>1. ASSUME BtcBlock PROVE ClaimantInv'
    BY <1>1 DEF BtcBlock
  <1>2. ASSUME NEW f \in Heights, BtcReorg(f) PROVE ClaimantInv'
    BY <1>2 DEF BtcReorg, Smaller
  <1>3. ASSUME SeqBlock PROVE ClaimantInv'
    BY <1>3 DEF SeqBlock, Smaller
  <1>4. ASSUME Certify PROVE ClaimantInv'
    BY <1>4 DEF Certify
  <1>5. ASSUME SeqReorg PROVE ClaimantInv'
    BY <1>5 DEF SeqReorg
  <1>6. ASSUME FunderConfirms PROVE ClaimantInv'
    BY <1>6 DEF FunderConfirms
  <1>7. ASSUME AnchorReached PROVE ClaimantInv'
    BY <1>7 DEF AnchorReached
  <1>8. ASSUME WindowCloses PROVE ClaimantInv'
    BY <1>8 DEF WindowCloses
  <1>9. ASSUME FunderLooks PROVE ClaimantInv'
    BY <1>9 DEF FunderLooks
  <1>10. ASSUME FunderFunds PROVE ClaimantInv'
    BY <1>10 DEF FunderFunds
  <1>11. ASSUME FunderSeesBlock PROVE ClaimantInv'
    BY <1>11 DEF FunderSeesBlock
  <1>12. ASSUME FunderAnnounces PROVE ClaimantInv'
    BY <1>12 DEF FunderAnnounces
  <1>13. ASSUME PeerFunds PROVE ClaimantInv'
    BY <1>13 DEF PeerFunds
  <1>14. ASSUME ClaimantConfirms PROVE ClaimantInv'
    BY <1>14 DEF ClaimantConfirms
  <1>15. ASSUME GatePasses PROVE ClaimantInv'
    <2>1. CASE cl.hp = legH
      BY <1>15, <2>1 DEF GatePasses, Gate, NotRefused
    <2>2. CASE cl.hp # legH
      <3>1. exact' = FALSE
        BY <1>15, <2>2 DEF GatePasses
      <3> QED BY <1>15, <3>1 DEF GatePasses
    <2> QED BY <2>1, <2>2
  <1>16. ASSUME GateStops PROVE ClaimantInv'
    BY <1>16 DEF GateStops
  <1>17. ASSUME ClaimantClaims PROVE ClaimantInv'
    BY <1>17 DEF ClaimantClaims
  <1>18. ASSUME PeerClaims PROVE ClaimantInv'
    BY <1>18 DEF PeerClaims
  <1>19. ASSUME UNCHANGED vars PROVE ClaimantInv'
    BY <1>19 DEF vars
  <1> QED
    BY <1>1, <1>2, <1>3, <1>4, <1>5, <1>6, <1>7, <1>8, <1>9, <1>10, <1>11, <1>12, <1>13,
    <1>14, <1>15, <1>16, <1>17, <1>18, <1>19 DEF Next, Funder, Claimant

LEMMA FunderInvStep ==
    ASSUME TypeOK, NothingYet, ClaimantInv, FunderInv, [Next]_vars PROVE FunderInv'
  <1> USE AnchorGateAssumption
      DEF TypeOK, ChainTypes, PartyTypes, FlagTypes, ClaimantInv, FunderInv, NothingYet,
          FoundIsPast, LookIsBuried, FundIsBuried,
          StaysFound, FundedIsBuried, BeforeFunding, Funded, Unshaken, Buried,
          ClaimantChecks, FunderChecks, Standing, Forward, Heights, btc, seq, who, seen,
          FunderAt, FunderStep, FunderOnly, ClaimantAt, ClaimantOnly
  <1>1. ASSUME BtcBlock PROVE FunderInv'
    BY <1>1 DEF BtcBlock
  <1>2. ASSUME NEW f \in Heights, BtcReorg(f) PROVE FunderInv'
    <2>1. UNCHANGED <<who, fu, cl, shaken>> /\ live' = Smaller(live, f) /\ btcTip' =
    btcTip + 1
      BY <1>2 DEF BtcReorg
    <2>2. legH <= f => legH' = legH /\ dead' = dead
      BY <1>2 DEF BtcReorg
    <2>3. IF a > f THEN undone' /\ seqLeg' = "mempool" ELSE UNCHANGED <<seqLeg, a,
    undone>>
      BY <1>2 DEF BtcReorg
    <2>4. ~moved' => ~moved /\ (TakenOnChain \/ (legH <= f /\ a <= f))
      <3>1. ~moved' => ~moved /\ (TakenOnChain \/ ~(legH > f \/ a > f))
        BY <1>2, Zenon DEF BtcReorg
      <3>2. ~(legH > f \/ a > f) => legH <= f /\ a <= f
        OBVIOUS
      <3> QED BY <3>1, <3>2
    <2>6. FunderChecks => FoundIsPast'
      BY <2>1
    <2>7. FunderChecks => LookIsBuried'
      BY <2>1, <2>2, <2>4 DEF Smaller, TakenOnChain
    <2>8. FunderChecks => FundIsBuried'
      BY <2>1, <2>2, <2>4 DEF Smaller, TakenOnChain
    <2>9. FunderChecks => StaysFound'
      BY <2>1, <2>2, <2>4 DEF TakenOnChain
    <2>10. FunderChecks => FundedIsBuried'
      <3>1. CASE a > f
        <4>1. TakenOnChain => cl'.pc = "claimed" /\ undone'
          BY <2>1, <2>3, <3>1 DEF TakenOnChain
        <4>2. ~TakenOnChain => moved'
          BY <2>4, <3>1
        <4> QED BY <4>1, <4>2
      <3>2. CASE a <= f
        BY <2>1, <2>2, <2>3, <2>4, <3>2 DEF Smaller, TakenOnChain
      <3> QED BY <3>1, <3>2
    <2> QED BY <2>1, <2>6, <2>7, <2>8, <2>9, <2>10
  <1>3. ASSUME SeqBlock PROVE FunderInv'
    BY <1>3 DEF SeqBlock, Smaller
  <1>4. ASSUME Certify PROVE FunderInv'
    BY <1>4 DEF Certify
  <1>5. ASSUME SeqReorg PROVE FunderInv'
    BY <1>5 DEF SeqReorg
  <1>6. ASSUME FunderConfirms PROVE FunderInv'
    BY <1>6 DEF FunderConfirms, MeasuredHeight, Larger
  <1>7. ASSUME AnchorReached PROVE FunderInv'
    BY <1>7 DEF AnchorReached, Target
  <1>8. ASSUME WindowCloses PROVE FunderInv'
    BY <1>8 DEF WindowCloses
  <1>9. ASSUME FunderLooks PROVE FunderInv'
    BY <1>9 DEF FunderLooks, LegGone, LegMoved, Remines
  <1>10. ASSUME FunderFunds PROVE FunderInv'
    BY <1>10 DEF FunderFunds
  <1>11. ASSUME FunderSeesBlock PROVE FunderInv'
    BY <1>11 DEF FunderSeesBlock
  <1>12. ASSUME FunderAnnounces PROVE FunderInv'
    BY <1>12 DEF FunderAnnounces, AnchorRead
  <1>13. ASSUME PeerFunds PROVE FunderInv'
    BY <1>13 DEF PeerFunds
  <1>14. ASSUME ClaimantConfirms PROVE FunderInv'
    BY <1>14 DEF ClaimantConfirms
  <1>15. ASSUME GatePasses PROVE FunderInv'
    BY <1>15 DEF GatePasses, Gate, NotRefused
  <1>16. ASSUME GateStops PROVE FunderInv'
    BY <1>16 DEF GateStops
  <1>17. ASSUME ClaimantClaims PROVE FunderInv'
    BY <1>17 DEF ClaimantClaims
  <1>18. ASSUME PeerClaims PROVE FunderInv'
    BY <1>18 DEF PeerClaims
  <1>19. ASSUME UNCHANGED vars PROVE FunderInv'
    BY <1>19 DEF vars
  <1> QED
    BY <1>1, <1>2, <1>3, <1>4, <1>5, <1>6, <1>7, <1>8, <1>9, <1>10, <1>11, <1>12, <1>13,
    <1>14, <1>15, <1>16, <1>17, <1>18, <1>19 DEF Next, Funder, Claimant

LEMMA GateInit == Init => GateInv
  <1> SUFFICES ASSUME Init PROVE GateInv
    OBVIOUS
  <1> USE AnchorGateAssumption DEF Init, Heights
  <1>1. TypeOK
    <2>1. ChainTypes
      BY DEF ChainTypes
    <2>2. PartyTypes
      BY DEF PartyTypes
    <2>3. FlagTypes
      BY DEF FlagTypes
    <2> QED BY <2>1, <2>2, <2>3 DEF TypeOK
  <1>2. NothingYet /\ ClaimantInv
    BY DEF NothingYet, ClaimantInv
  <1>3. FunderInv
    BY DEF FunderInv, FoundIsPast, LookIsBuried, FundIsBuried, StaysFound,
           FundedIsBuried, Funded
  <1> QED BY <1>1, <1>2, <1>3 DEF GateInv

LEMMA GateStep == ASSUME GateInv, [Next]_vars PROVE GateInv'
  BY TypeStep, ClaimantStep, FunderInvStep DEF GateInv

\* The gate's state keeps its types, for any number of heights.
THEOREM TypeCorrect == Spec => []TypeOK
  <1>1. GateInv => TypeOK BY DEF GateInv
  <1> QED BY GateInit, GateStep, <1>1, PTL DEF Spec

\* What the one who gives the asset checks keeps its counterparty from holding
\* the asset while the BTC leg is gone (driveReverse, RunMakerForward).
THEOREM FunderSafe == Spec => []FunderIsSafe
  <1>1. GateInv => FunderIsSafe
    BY DEF GateInv, TypeOK, ChainTypes, PartyTypes, FlagTypes, FunderInv, NothingYet,
           FundedIsBuried, BeforeFunding, Funded,
           Unshaken, Buried, FunderIsSafe, Outlived, TakenOnChain
  <1> QED BY GateInit, GateStep, <1>1, PTL DEF Spec

\* The claimant's gate alone does the same, whatever its peer checked: with the
\* certificate whatever either chain does, and without it (a null passes) as long
\* as Sequentia does not move the announced leg (verifyAnchorFull,
\* RunMakerReverse).
THEOREM ClaimantSafe == Spec => []ClaimantIsSafe
  <1>1. GateInv => ClaimantIsSafe
    BY DEF GateInv, ClaimantInv, ClaimantIsSafe, Outlived, TakenOnChain
  <1> QED BY GateInit, GateStep, <1>1, PTL DEF Spec

\* A selling taker's check after the funding covers what Sequentia does to the
\* leg before it is announced (xrswap.js 907-921).
THEOREM WithheldSafe == Spec => []WithheldLegIsSafe
  <1>1. GateInv => WithheldLegIsSafe
    BY DEF GateInv, TypeOK, ChainTypes, PartyTypes, FlagTypes, ClaimantInv,
           ClaimantChecks, FunderInv, FunderChecks, NothingYet,
           FundedIsBuried, BeforeFunding, Funded, Unshaken, Buried, WithheldLegIsSafe,
           Outlived, TakenOnChain
  <1> QED BY GateInit, GateStep, <1>1, PTL DEF Spec
=============================================================================
