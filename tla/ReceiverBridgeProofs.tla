------------------------ MODULE ReceiverBridgeProofs ------------------------
(***************************************************************************)
(* Why the receiver bridge pays both sides, for every timelock, margin and *)
(* number of faults.                                                       *)
(*                                                                         *)
(* The front is minted to lapse at the height at which the claim margin    *)
(* opens, and one block may pass before it is sent: so it has settled or   *)
(* lapsed, and the claim after it has been made, before T_btc (Times).     *)
(* The same gate puts T_seq before the front's lapse, so a maker cannot    *)
(* claim an asset whose front came back (Asset).  And a front in flight    *)
(* is on record, in a job that a driver has or that a boot takes up, with  *)
(* the gates its next tick reads still open (Service).                     *)
(***************************************************************************)
EXTENDS ReceiverBridge, TLAPS

\* A front is waited for, marked and readable, and the claim margin is longer than
\* what the payment and the claim may take.
Calm == ~SlowFront /\ ~UnmarkedStop /\ ~ReadsFail
Prompt == LapseDelay + Outage + 1 < ClaimMargin

Secured ==
    /\ front # "none" \/ pc \in {"front", "send", "mark", "wait"}
          => recoup \notin {"mempool", "gone"} /\ job.ready
    /\ recoup = "refunded" => btc >= TBtc /\ front \in {"none", "failed"}
    /\ recoup = "claimed" => front = "settled"
    /\ job.p => front = "settled"
    /\ pc = "claim" => job.p
    /\ pc = "send" => front \in {"none", "failed"}

Times ==
    /\ cover > 0 /\ btc >= cover => seq >= TSeq
    /\ pc = "send" => /\ cover > 0 /\ cover <= MintTarget /\ expiry >= 1
                      /\ btc + expiry >= MintTarget /\ btc + expiry <= MintTarget + 1
    /\ front = "pending" => /\ cover > 0 /\ cover <= expiry /\ expiry <= MintTarget + 1
                            /\ btc <= expiry + LapseDelay
                            /\ aleg = "claimed" => btc < cover
    /\ front = "settled" => /\ due <= MintTarget + 1 + LapseDelay
                            /\ recoup = "mined" => btc <= due + Outage

Asset ==
    /\ aleg = "refunded" => seq >= TSeq
    /\ pc = "send" => aleg = "none"
    /\ front \in {"none", "failed"}
          => aleg # "claimed" /\ (aleg = "locked" => seq >= TSeq)

Service ==
    /\ front \in {"pending", "settled"} /\ recoup = "mined"
          => pc # "off" /\ job.status \notin {"settled", "failed"} /\ (job.held \/ pc = "mark")
    /\ job.status \in {"settled", "failed"} => pc \in {"off", "down"}
    /\ InFlight /\ pc \notin {"wait", "mark"} /\ Served => FrontGate(btc, seq)

BridgeInv == TypeOK /\ Secured /\ Times /\ Asset /\ Service

-----------------------------------------------------------------------------
(* Helpers                                                                  *)

LEMMA MarkedIsJob == ASSUME job \in Jobs PROVE Marked(job) \in Jobs
  BY DEF Marked, Jobs

\* What a tick may choose.
LEMMA StepIsKnown ==
    ASSUME TypeOK, NEW reads \in {"all", "noSeq", "none"}
    PROVE  NextStep(reads) \in {"done", "claim", "failClosed", "tick", "front"}
  BY DEF NextStep, TypeOK, Jobs

LEMMA InitInv == Init => BridgeInv
  <1> SUFFICES ASSUME Init PROVE BridgeInv
    OBVIOUS
  <1> USE DEF Init
  <1>1. TypeOK
    <2>1. job \in Jobs
      BY DEF Jobs
    <2>2. session \in BOOLEAN /\ attempted \in BOOLEAN
      OBVIOUS
    <2>3. /\ btc \in Nat /\ seq \in Nat /\ cover \in Nat /\ expiry \in Int /\ due \in Nat
          /\ faults \in Nat
      OBVIOUS
    <2> QED BY <2>1, <2>2, <2>3 DEF TypeOK
  <1>2. Secured /\ Times /\ Asset /\ Service
    BY DEF Secured, Times, Asset, Service, InFlight
  <1> QED BY <1>1, <1>2 DEF BridgeInv

-----------------------------------------------------------------------------
(* Types                                                                    *)

LEMMA TypeStep == ASSUME TypeOK, [Next]_vars PROVE TypeOK'
  <1> USE HeightsAssumption DEF TypeOK, chainVars, procVars, Fault
  <1>1. ASSUME Chains PROVE TypeOK'
    BY <1>1
       DEF Chains, MineBtc, MineSeq, RecoupMined, RecoupReplaced, MakerRefunds,
           TakerSettles, TakerDeclines, FrontLapses, TakerLocksAsset,
           MakerClaimsAsset, TakerRefundsAsset
  <1>2. ASSUME HoldReady PROVE TypeOK'
    <2>1. [job EXCEPT !.ready = TRUE] \in Jobs
      BY DEF Jobs
    <2> QED BY <1>2, <2>1 DEF HoldReady
  <1>3. ASSUME HandOff PROVE TypeOK'
    <2>1. [job EXCEPT !.asset = TRUE] \in Jobs
      BY DEF Jobs
    <2> QED BY <1>3, <2>1 DEF HandOff
  <1>4. ASSUME DriverTicks PROVE TypeOK'
    <2>1. /\ [job EXCEPT !.status = "settled"] \in Jobs
          /\ [job EXCEPT !.status = "failed"] \in Jobs
      BY DEF Jobs
    <2>2. PICK reads \in {"all", "noSeq", "none"} :
             /\ pc' = IF NextStep(reads) \in {"done", "failClosed"} THEN "off"
                     ELSE NextStep(reads)
             /\ attempted' = (attempted \/ NextStep(reads) = "front")
             /\ job' = CASE NextStep(reads) = "done" -> [job EXCEPT !.status = "settled"]
                         [] NextStep(reads) = "failClosed" -> [job EXCEPT !.status = "failed"]
                         [] OTHER -> job
      BY <1>4 DEF DriverTicks
    <2>3. job' \in Jobs
      BY <2>1, <2>2
    <2>4. NextStep(reads) \in {"done", "claim", "failClosed", "tick", "front"}
      BY StepIsKnown
    <2> QED BY <1>4, <2>2, <2>3, <2>4 DEF DriverTicks
  <1>5. ASSUME DriverFindsPayment PROVE TypeOK'
    <2>1. [Marked(job) EXCEPT !.p = (front = "settled")] \in Jobs
      BY MarkedIsJob DEF Jobs
    <2> QED BY <1>5, <2>1 DEF DriverFindsPayment
  <1>6. ASSUME DriverMints PROVE TypeOK'
    BY <1>6 DEF DriverMints, MintTarget, OrderingGate
  <1>7. ASSUME DriverPays PROVE TypeOK'
    BY <1>7 DEF DriverPays
  <1>8. ASSUME DriverMarks PROVE TypeOK'
    BY <1>8, MarkedIsJob DEF DriverMarks
  <1>9. ASSUME DriverAdoptsP PROVE TypeOK'
    <2>1. [job EXCEPT !.p = TRUE] \in Jobs
      BY DEF Jobs
    <2> QED BY <1>9, <2>1 DEF DriverAdoptsP
  <1>10. ASSUME WaitEnds PROVE TypeOK'
    BY <1>10 DEF WaitEnds
  <1>11. ASSUME DriverClaims PROVE TypeOK'
    BY <1>11 DEF DriverClaims
  <1>12. ASSUME DriverThrows PROVE TypeOK'
    BY <1>12 DEF DriverThrows
  <1>13. ASSUME SessionEnds PROVE TypeOK'
    <2>1. [job EXCEPT !.status = IF attempted THEN "failed" ELSE "interrupted"] \in Jobs
      BY DEF Jobs
    <2> QED BY <1>13, <2>1 DEF SessionEnds
  <1>14. ASSUME ProcessStops PROVE TypeOK'
    <2>1. pc' = "down" /\ session' \in BOOLEAN /\ attempted' \in BOOLEAN
      BY <1>14 DEF ProcessStops
    <2>2. faults' = faults + 1 /\ UNCHANGED <<chainVars, job>>
      BY <1>14 DEF ProcessStops
    <2> QED BY <2>1, <2>2
  <1>15. ASSUME Boots PROVE TypeOK'
    <2>1. [job EXCEPT !.status = IF @ \in {"settled", "failed"} THEN @
                 ELSE IF Resumable THEN "confirming" ELSE "interrupted"] \in Jobs
      BY DEF Jobs
    <2> QED BY <1>15, <2>1 DEF Boots
  <1>16. ASSUME UNCHANGED vars PROVE TypeOK'
    BY <1>16 DEF vars
  <1> QED
    BY <1>1, <1>2, <1>3, <1>4, <1>5, <1>6, <1>7, <1>8, <1>9, <1>10, <1>11, <1>12,
       <1>13, <1>14, <1>15, <1>16
       DEF Next, Driver

-----------------------------------------------------------------------------
(* The invariant                                                            *)

\* Every step of a calm bridge keeps its invariant.
LEMMA InvStep == ASSUME Calm, Prompt, BridgeInv, [Next]_vars PROVE BridgeInv'
  <1> USE HeightsAssumption
      DEF Calm, Prompt, BridgeInv, TypeOK, Jobs, Secured, Times, Asset, Service, InFlight,
          Served, Live, Resumable, FrontGate, OrderingGate, ReadsP, MintTarget, Fault,
          chainVars, procVars
  <1>0. TypeOK'
    BY TypeStep
  <1>1. ASSUME MineBtc PROVE BridgeInv'
    BY <1>0, <1>1 DEF MineBtc, InTime
  <1>2. ASSUME MineSeq PROVE BridgeInv'
    BY <1>0, <1>2 DEF MineSeq, InTime
  <1>3. ASSUME RecoupMined PROVE BridgeInv'
    BY <1>0, <1>3 DEF RecoupMined
  <1>4. ASSUME RecoupReplaced PROVE BridgeInv'
    BY <1>0, <1>4 DEF RecoupReplaced
  <1>5. ASSUME MakerRefunds PROVE BridgeInv'
    BY <1>0, <1>5 DEF MakerRefunds
  <1>6. ASSUME TakerSettles PROVE BridgeInv'
    BY <1>0, <1>6 DEF TakerSettles
  <1>7. ASSUME TakerDeclines PROVE BridgeInv'
    BY <1>0, <1>7 DEF TakerDeclines
  <1>8. ASSUME FrontLapses PROVE BridgeInv'
    BY <1>0, <1>8 DEF FrontLapses
  <1>9. ASSUME TakerLocksAsset PROVE BridgeInv'
    BY <1>0, <1>9 DEF TakerLocksAsset
  <1>10. ASSUME MakerClaimsAsset PROVE BridgeInv'
    BY <1>0, <1>10 DEF MakerClaimsAsset
  <1>11. ASSUME TakerRefundsAsset PROVE BridgeInv'
    BY <1>0, <1>11 DEF TakerRefundsAsset
  <1>12. ASSUME HoldReady PROVE BridgeInv'
    BY <1>0, <1>12 DEF HoldReady
  <1>13. ASSUME HandOff PROVE BridgeInv'
    BY <1>0, <1>13 DEF HandOff
  <1>14. ASSUME DriverTicks PROVE BridgeInv'
    <2>1. PICK reads \in {"all", "noSeq", "none"} :
             /\ reads # "all" /\ NextStep(reads) = "failClosed"
                  /\ front \in {"pending", "settled"} => ReadsFail
             /\ pc' = IF NextStep(reads) \in {"done", "failClosed"} THEN "off"
                     ELSE NextStep(reads)
             /\ job' = CASE NextStep(reads) = "done" -> [job EXCEPT !.status = "settled"]
                         [] NextStep(reads) = "failClosed" -> [job EXCEPT !.status = "failed"]
                         [] OTHER -> job
      BY <1>14 DEF DriverTicks
    <2>2. pc = "tick" /\ UNCHANGED chainVars
      BY <1>14 DEF DriverTicks
    <2>3. CASE NextStep(reads) = "done"
      <3>1. recoup \in {"claimed", "refunded"}
        BY <2>3 DEF NextStep
      <3> QED BY <1>0, <2>1, <2>2, <2>3, <3>1
    <2>4. CASE NextStep(reads) = "failClosed"
      <3>1. front \notin {"pending", "settled"}
        BY <2>1, <2>2, <2>4 DEF NextStep
      <3> QED BY <1>0, <2>1, <2>2, <2>4, <3>1
    <2>5. CASE NextStep(reads) \in {"claim", "front", "tick"}
      <3>1. /\ NextStep(reads) = "claim" => job.p
            /\ NextStep(reads) = "front" => recoup = "mined" /\ job.ready
        BY <2>5 DEF NextStep
      <3> QED BY <1>0, <2>1, <2>2, <2>5, <3>1
    <2> QED BY <2>3, <2>4, <2>5, StepIsKnown
  <1>15. ASSUME DriverFindsPayment PROVE BridgeInv'
    BY <1>0, <1>15 DEF DriverFindsPayment, Marked
  <1>16. ASSUME DriverMints PROVE BridgeInv'
    BY <1>0, <1>16 DEF DriverMints
  <1>17. ASSUME DriverPays PROVE BridgeInv'
    BY <1>0, <1>17 DEF DriverPays
  <1>18. ASSUME DriverMarks PROVE BridgeInv'
    BY <1>0, <1>18 DEF DriverMarks, Marked
  <1>19. ASSUME DriverAdoptsP PROVE BridgeInv'
    BY <1>0, <1>19 DEF DriverAdoptsP
  <1>20. ASSUME WaitEnds PROVE BridgeInv'
    BY <1>0, <1>20 DEF WaitEnds
  <1>21. ASSUME DriverClaims PROVE BridgeInv'
    BY <1>0, <1>21 DEF DriverClaims
  <1>22. ASSUME DriverThrows PROVE BridgeInv'
    BY <1>0, <1>22 DEF DriverThrows
  <1>23. ASSUME SessionEnds PROVE BridgeInv'
    BY <1>0, <1>23 DEF SessionEnds
  <1>24. ASSUME ProcessStops PROVE BridgeInv'
    BY <1>0, <1>24 DEF ProcessStops
  <1>25. ASSUME Boots PROVE BridgeInv'
    BY <1>0, <1>25 DEF Boots
  <1>26. ASSUME UNCHANGED vars PROVE BridgeInv'
    BY <1>0, <1>26 DEF vars
  <1> QED
    BY <1>1, <1>2, <1>3, <1>4, <1>5, <1>6, <1>7, <1>8, <1>9, <1>10, <1>11, <1>12,
       <1>13, <1>14, <1>15, <1>16, <1>17, <1>18, <1>19, <1>20, <1>21, <1>22,
       <1>23, <1>24, <1>25, <1>26
       DEF Next, Chains, Driver

LEMMA BridgeAlways == ASSUME Calm, Prompt PROVE Spec => []BridgeInv
  <1>1. BridgeInv /\ [Next]_vars => BridgeInv'
    BY InvStep
  <1> QED BY InitInv, <1>1, PTL DEF Spec

\* While the front may still settle the maker's refund is shut.
LEMMA RefundIsShut ==
    ASSUME Prompt, BridgeInv, front \in {"pending", "settled"}, recoup = "mined"
    PROVE  btc < TBtc
  BY HeightsAssumption DEF Prompt, BridgeInv, TypeOK, Times, MintTarget

-----------------------------------------------------------------------------
(* What the bridge promises                                                 *)

\* The LSP has the maker's BTC for every front that settled, a driver or a boot serves
\* every front that may settle, and a taker whose asset the maker took is paid
\* (leg-bridge.mjs stepReceiverLn, bridge-driver.mjs runBridgedLeg and frontLn).
THEOREM BridgePaysBoth == ASSUME Calm, Prompt PROVE Spec => []BothArePaid
  <1>1. BridgeInv => BothArePaid
    <2> SUFFICES ASSUME BridgeInv PROVE BothArePaid OBVIOUS
    <2> USE DEF BridgeInv
    <2>1. FrontIsRecouped
      BY DEF FrontIsRecouped, Secured
    <2>2. FrontIsServed
      BY DEF FrontIsServed, Served, Live, Resumable, Service, Secured
    <2>3. TakerIsPaid
      BY DEF TakerIsPaid, Asset
    <2> QED BY <2>1, <2>2, <2>3 DEF BothArePaid
  <1> QED BY BridgeAlways, <1>1, PTL

\* The LSP's claim of the HTLC is made before the maker's refund opens.
THEOREM ClaimsInTime == ASSUME Calm, Prompt PROVE Spec => ClaimedInTime
  <1>1. BridgeInv /\ [Next]_vars
          => [recoup' = "claimed" /\ recoup # "claimed" => btc < TBtc]_vars
    <2> SUFFICES ASSUME BridgeInv, [Next]_vars, recoup' = "claimed", recoup # "claimed"
                 PROVE  btc < TBtc
      OBVIOUS
    <2>1. front = "settled" /\ recoup = "mined"
      <3>1. DriverClaims
        BY DEF Next, Chains, MineBtc, MineSeq, RecoupMined, RecoupReplaced, MakerRefunds,
               TakerSettles, TakerDeclines, FrontLapses, TakerLocksAsset, MakerClaimsAsset,
               TakerRefundsAsset, HoldReady, HandOff, Driver, DriverTicks,
               DriverFindsPayment, DriverMints, DriverPays, DriverMarks, DriverAdoptsP,
               WaitEnds, DriverThrows, SessionEnds, ProcessStops, Boots, vars, chainVars
      <3> QED BY <3>1 DEF DriverClaims, BridgeInv, Secured
    <2> QED BY <2>1, RefundIsShut
  <1> QED BY BridgeAlways, <1>1, PTL DEF Spec, ClaimedInTime

-----------------------------------------------------------------------------
(* The refinement                                                           *)

LEMMA InitRefines == Init => Leg!Init
  BY DEF Init, Leg!Init

LEMMA Stutters ==
    ASSUME UNCHANGED <<front, recoup>> PROVE UNCHANGED Leg!legVars
  BY DEF Leg!legVars

\* What the chains, the taker and the maker do to the two legs.
LEMMA ChainsRefine ==
    ASSUME Prompt, BridgeInv, Chains PROVE [Leg!Next]_(Leg!legVars)
  <1> USE DEF BridgeInv, TypeOK, Secured
  <1>1. ASSUME \/ MineBtc \/ MineSeq \/ TakerLocksAsset \/ MakerClaimsAsset
               \/ TakerRefundsAsset
        PROVE  UNCHANGED Leg!legVars
    BY <1>1, Stutters DEF MineBtc, MineSeq, TakerLocksAsset, MakerClaimsAsset,
           TakerRefundsAsset
  <1>2. ASSUME RecoupMined PROVE Leg!Secure
    BY <1>2 DEF RecoupMined, Leg!Secure
  <1>3. ASSUME RecoupReplaced PROVE UNCHANGED Leg!legVars
    BY <1>3 DEF RecoupReplaced, Leg!legVars
  <1>4. ASSUME MakerRefunds PROVE Leg!Release
    <2>1. front \notin {"pending", "settled"}
      BY <1>4, RefundIsShut, HeightsAssumption DEF MakerRefunds
    <2> QED BY <1>4, <2>1 DEF MakerRefunds, Leg!Release
  <1>5. ASSUME TakerSettles PROVE Leg!Pay
    <2>1. recoup # "refunded"
      BY <1>5, HeightsAssumption DEF TakerSettles, Times, Prompt, MintTarget
    <2> QED BY <1>5, <2>1 DEF TakerSettles, Leg!Pay
  <1>6. ASSUME TakerDeclines PROVE Leg!GetBack
    BY <1>6 DEF TakerDeclines, Leg!GetBack
  <1>7. ASSUME FrontLapses PROVE Leg!GetBack
    BY <1>7 DEF FrontLapses, Leg!GetBack
  <1> HIDE DEF BridgeInv, TypeOK, Secured
  <1> QED
    BY <1>1, <1>2, <1>3, <1>4, <1>5, <1>6, <1>7 DEF Chains, Leg!Next

\* What the driver and the process do to them.
LEMMA DriverRefines ==
    ASSUME Prompt, BridgeInv, HoldReady \/ HandOff \/ Driver \/ SessionEnds
                              \/ ProcessStops \/ Boots
    PROVE  [Leg!Next]_(Leg!legVars)
  <1> USE DEF BridgeInv, TypeOK, Secured
  <1>1. ASSUME DriverPays PROVE Leg!Front
    <2>1. recoup = "mined"
      BY <1>1, HeightsAssumption DEF DriverPays, Times, Prompt, MintTarget
    <2> QED BY <1>1, <2>1 DEF DriverPays, Leg!Front
  <1>2. ASSUME DriverClaims PROVE Leg!Take \/ UNCHANGED Leg!legVars
    BY <1>2 DEF DriverClaims, Leg!Take, Leg!legVars
  <1>3. ASSUME \/ HoldReady \/ HandOff \/ SessionEnds \/ ProcessStops \/ Boots
               \/ DriverTicks \/ DriverFindsPayment \/ DriverMints \/ DriverMarks
               \/ DriverAdoptsP \/ WaitEnds \/ DriverThrows
        PROVE  UNCHANGED Leg!legVars
    <2>1. UNCHANGED <<front, recoup>>
      BY <1>3 DEF HoldReady, HandOff, SessionEnds, ProcessStops, Boots, DriverTicks,
             DriverFindsPayment, DriverMints, DriverMarks, DriverAdoptsP, WaitEnds,
             DriverThrows, chainVars
    <2> QED BY <2>1, Stutters
  <1> HIDE DEF BridgeInv, TypeOK, Secured
  <1> QED BY <1>1, <1>2, <1>3 DEF Driver, Leg!Next

\* The bridge is a fronted leg: the LSP pays only against an HTLC locked to it, and
\* gives the HTLC up only when its payment never left or came back.
THEOREM BridgeFronts == ASSUME Calm, Prompt PROVE Spec => ImplementsFrontedLeg
  <1>1. BridgeInv /\ [Next]_vars => [Leg!Next]_(Leg!legVars)
    <2> SUFFICES ASSUME BridgeInv, [Next]_vars PROVE [Leg!Next]_(Leg!legVars) OBVIOUS
    <2>1. CASE UNCHANGED vars
      BY <2>1, Stutters DEF vars, chainVars
    <2>2. CASE Next
      BY <2>2, ChainsRefine, DriverRefines DEF Next
    <2> QED BY <2>1, <2>2
  <1> QED BY InitRefines, BridgeAlways, <1>1, PTL DEF Spec, ImplementsFrontedLeg, Leg!Spec

\* The bridge's state keeps its types, whatever is switched on.
THEOREM TypeCorrect == Spec => []TypeOK
  <1>1. Init => TypeOK
    BY InitInv DEF BridgeInv
  <1> QED BY <1>1, TypeStep, PTL DEF Spec
=============================================================================
