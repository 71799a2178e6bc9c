-------------------------- MODULE PayerBridgeProofs --------------------------
(***************************************************************************)
(* Why a payer job never loses track of the HTLC it funded, and has it     *)
(* paid or back before the hold lapses, for every timelock and number of   *)
(* faults.                                                                 *)
(*                                                                         *)
(* jobs.json is the job (Recorded), so a boot continues where the process  *)
(* stopped.  The decision to front is taken once and the intent to fund    *)
(* belongs to a job that declined it (OneMode); the intent is on disk      *)
(* before the broadcast and the HTLC on record only after it (Keyed); and  *)
(* a job is closed only on a settled hold or a buried refund (Closed).     *)
(*                                                                         *)
(* The race with the hold is an account of blocks.  Limit is the height by *)
(* which a refund is out, with the evictions there were so far; each kind  *)
(* of spend has its own distance to it (SpentInTime), which a block uses   *)
(* up and a tick, a bump or an eviction turns into that of the next kind.  *)
(* When the buffers are at least Margin, none of them reaches the end of   *)
(* the hold.                                                               *)
(***************************************************************************)
EXTENDS PayerBridge, TLAPS

\* The disk takes what is written, no job is reaped that waits for a boot, and a
\* refund that left our mempool stays gone.
Calm == ~DiskFaults /\ ~LongInterruption /\ ~EvictedReturns

\* jobs.json has the job, or dropped it when it was over.
Recorded == disk \in {job, [job EXCEPT !.status = "gone"]}

OneMode ==
    /\ funded > 0 \/ pc \in {"broadcast", "record"} => job.intent
    /\ job.intent => job.front = "declined"
    /\ fronts > 0 \/ fronted \/ pc \in {"front", "frontRecord"} => job.front = "armed"

Keyed ==
    /\ funded <= 1
    /\ job.htlc \/ pc \in {"record", "refundSend", "bump"} => funded > 0
    /\ funded = 0 => spend.kind = "none"
    /\ pc = "refund" => fronted \/ funded > 0

Closed ==
    /\ job.status \in {"settled", "gone"} \/ disk.status = "gone"
          => /\ pc \in {"off", "down"} /\ job.status \in {"settled", "gone"}
             /\ hold = "settled" \/ Buried

\* A settlement and a refund are never both under way.
OneEnd ==
    /\ hold = "settled" => spend.kind # "refund" /\ pc \notin {"refund", "refundSend"}
    /\ pc = "settle" => spend.kind # "refund"

\* T_seq has passed when T_btc has.
Timed ==
    /\ cover <= TBtc
    /\ funded > 0 \/ pc = "broadcast" => cover > 0
    /\ cover > 0 /\ btc >= cover => seq >= TSeq
    /\ pc = "refund" /\ ~fronted => btc >= TBtc
    /\ pc = "refundSend" => btc >= TBtc

JobInv == TypeOK /\ Recorded /\ OneMode /\ Keyed /\ Closed /\ OneEnd /\ Timed

-----------------------------------------------------------------------------
(* Types                                                                    *)

LEMMA InitInv == Init => JobInv
  <1> SUFFICES ASSUME Init PROVE JobInv
    OBVIOUS
  <1> USE HeightsAssumption DEF Init
  <1>1. job \in Jobs /\ disk \in Jobs
    BY DEF Jobs, NewJob, Statuses
  <1>2. spend \in [kind : {"none", "claim", "refund"}, confs : Nat,
                   fee : {"low", "high"}, at : Nat]
    BY DEF Unspent
  <1>3. evicted \in BOOLEAN /\ announced \in BOOLEAN /\ fronted \in BOOLEAN
    OBVIOUS
  <1>4. TypeOK
    BY <1>1, <1>2, <1>3 DEF TypeOK, Pcs
  <1>5. Recorded /\ OneMode /\ Keyed /\ Closed /\ OneEnd /\ Timed
    BY DEF Recorded, OneMode, Keyed, Closed, OneEnd, Timed, NewJob, Unspent
  <1> QED BY <1>4, <1>5 DEF JobInv

\* What persistJobs leaves.
LEMMA PersistTypes ==
    ASSUME disk \in Jobs, NEW j \in Jobs, Persist(j)
    PROVE  job' = j /\ job' \in Jobs /\ disk' \in Jobs
  BY DEF Persist

\* What a tick may choose.
LEMMA StepIsKnown ==
    ASSUME TypeOK, NEW p \in BOOLEAN
    PROVE  NextStep(p) \in {"done", "failClosed", "tick", "fund", "settle", "refund", "bump"}
  <1>1. spend.kind \in {"none", "claim", "refund"} /\ btc \in Nat /\ TBtc \in Nat
    BY HeightsAssumption DEF TypeOK
  <1>2. FundedStep(p) \in {"done", "tick", "fund", "settle", "refund", "bump"}
    BY <1>1 DEF FundedStep
  <1>3. /\ FrontedStep(p) \in {"settle", "refund", "tick"}
        /\ UnfundedStep \in {"tick", "failClosed", "fund"}
    BY DEF FrontedStep, UnfundedStep
  <1> QED BY <1>2, <1>3 DEF NextStep

LEMMA TypeStep == ASSUME TypeOK, [Next]_vars PROVE TypeOK'
  <1> USE HeightsAssumption
      DEF TypeOK, Pcs, chainVars, driverVars, pollVars, Fault, Ticked, Unspent
  <1>1. ASSUME MineBtc PROVE TypeOK'
    <2>1. spend' \in [kind : {"none", "claim", "refund"}, confs : Nat,
                      fee : {"low", "high"}, at : Nat]
      BY <1>1 DEF MineBtc
    <2> QED BY <1>1, <2>1 DEF MineBtc
  <1>2. ASSUME MineSeq PROVE TypeOK'
    BY <1>2 DEF MineSeq
  <1>3. ASSUME HoldArrives PROVE TypeOK'
    BY <1>3 DEF HoldArrives
  <1>4. ASSUME HoldLapses PROVE TypeOK'
    BY <1>4 DEF HoldLapses
  <1>5. ASSUME MakerLocksAsset PROVE TypeOK'
    BY <1>5 DEF MakerLocksAsset
  <1>6. ASSUME TakerClaims PROVE TypeOK'
    BY <1>6 DEF TakerClaims
  <1>7. ASSUME MakerRefundsAsset PROVE TypeOK'
    BY <1>7 DEF MakerRefundsAsset
  <1>8. ASSUME MakerClaimsBtc PROVE TypeOK'
    <2>1. spend' \in [kind : {"none", "claim", "refund"}, confs : Nat,
                      fee : {"low", "high"}, at : Nat]
      BY <1>8 DEF MakerClaimsBtc
    <2> QED BY <1>8, <2>1 DEF MakerClaimsBtc
  <1>9. ASSUME RefundMined PROVE TypeOK'
    <2>1. spend' \in [kind : {"none", "claim", "refund"}, confs : Nat,
                      fee : {"low", "high"}, at : Nat]
      BY <1>9 DEF RefundMined
    <2> QED BY <1>9, <2>1 DEF RefundMined
  <1>10. ASSUME RefundEvicted PROVE TypeOK'
    BY <1>10 DEF RefundEvicted
  <1>11. ASSUME DriverTicks PROVE TypeOK'
    <2>1. PICK sees \in BOOLEAN :
             LET step == NextStep(KnowsP(sees)) IN
             /\ begun' = IF sees THEN btc ELSE begun
             /\ clear' = IF step = "tick" THEN begun' ELSE clear
             /\ pc' = IF step \in {"done", "failClosed"} THEN "off" ELSE step
             /\ \/ Persist([job EXCEPT !.status = "settled", !.done = TRUE])
                \/ Persist([job EXCEPT !.status = "interrupted", !.done = TRUE])
                \/ UNCHANGED <<job, disk>>
      BY <1>11 DEF DriverTicks
    <2>2. /\ [job EXCEPT !.status = "settled", !.done = TRUE] \in Jobs
          /\ [job EXCEPT !.status = "interrupted", !.done = TRUE] \in Jobs
      BY DEF Jobs, Statuses
    <2>3. job' \in Jobs /\ disk' \in Jobs
      BY <2>1, <2>2, PersistTypes
    <2>4. KnowsP(sees) \in BOOLEAN
      BY DEF KnowsP, PPublic, Jobs
    <2>5. pc' \in Pcs /\ begun' \in Nat /\ clear' \in Nat
      BY <2>1, <2>4, StepIsKnown
    <2> QED BY <1>11, <2>3, <2>5 DEF DriverTicks
  <1>12. ASSUME DriverDecidesFront PROVE TypeOK'
    <2>1. PICK f \in {"armed", "declined"} : Persist([job EXCEPT !.front = f])
      BY <1>12 DEF DriverDecidesFront
    <2>2. [job EXCEPT !.front = f] \in Jobs
      BY DEF Jobs
    <2>3. job' \in Jobs /\ disk' \in Jobs
      BY <2>1, <2>2, PersistTypes
    <2> QED BY <1>12, <2>3 DEF DriverDecidesFront
  <1>13. ASSUME DriverFronts PROVE TypeOK'
    BY <1>13 DEF DriverFronts
  <1>14. ASSUME DriverBroadcastsFront PROVE TypeOK'
    BY <1>14 DEF DriverBroadcastsFront
  <1>15. ASSUME DriverDeliversFront PROVE TypeOK'
    <2>1. [job EXCEPT !.leg = TRUE, !.relayed = TRUE] \in Jobs
      BY DEF Jobs, Statuses
    <2>2. job' \in Jobs /\ disk' \in Jobs
      BY <1>15, <2>1, PersistTypes DEF DriverDeliversFront
    <2> QED BY <1>15, <2>2 DEF DriverDeliversFront
  <1>16. ASSUME DriverAdopts PROVE TypeOK'
    <2>1. [job EXCEPT !.htlc = TRUE] \in Jobs
      BY DEF Jobs, Statuses
    <2>2. job' \in Jobs /\ disk' \in Jobs
      BY <1>16, <2>1, PersistTypes DEF DriverAdopts
    <2> QED BY <1>16, <2>2 DEF DriverAdopts
  <1>17. ASSUME DriverGates PROVE TypeOK'
    <2>1. [job EXCEPT !.intent = TRUE] \in Jobs
      BY DEF Jobs, Statuses
    <2>2. job' \in Jobs /\ disk' \in Jobs
      BY <1>17, <2>1, PersistTypes DEF DriverGates
    <2> QED BY <1>17, <2>2 DEF DriverGates, FundGate, SeqBlocks
  <1>18. ASSUME DriverBroadcasts PROVE TypeOK'
    BY <1>18 DEF DriverBroadcasts
  <1>19. ASSUME DriverRecordsHtlc PROVE TypeOK'
    <2>1. [job EXCEPT !.htlc = TRUE] \in Jobs
      BY DEF Jobs, Statuses
    <2>2. job' \in Jobs /\ disk' \in Jobs
      BY <1>19, <2>1, PersistTypes DEF DriverRecordsHtlc
    <2> QED BY <1>19, <2>2 DEF DriverRecordsHtlc
  <1>20. ASSUME DriverRelays PROVE TypeOK'
    BY <1>20 DEF DriverRelays
  <1>21. ASSUME DriverGetsMakerLeg PROVE TypeOK'
    <2>1. [job EXCEPT !.leg = TRUE] \in Jobs
      BY DEF Jobs, Statuses
    <2>2. job' \in Jobs /\ disk' \in Jobs
      BY <1>21, <2>1, PersistTypes DEF DriverGetsMakerLeg
    <2> QED BY <1>21, <2>2 DEF DriverGetsMakerLeg
  <1>22. ASSUME DriverHandsOff PROVE TypeOK'
    <2>1. [job EXCEPT !.relayed = TRUE] \in Jobs
      BY DEF Jobs, Statuses
    <2>2. job' \in Jobs /\ disk' \in Jobs
      BY <1>22, <2>1, PersistTypes DEF DriverHandsOff
    <2> QED BY <1>22, <2>2 DEF DriverHandsOff
  <1>23. ASSUME DriverRelayFails PROVE TypeOK'
    BY <1>23 DEF DriverRelayFails
  <1>24. ASSUME DriverSettles PROVE TypeOK'
    BY <1>24 DEF DriverSettles
  <1>25. ASSUME DriverRefunds PROVE TypeOK'
    BY <1>25 DEF DriverRefunds
  <1>26. ASSUME DriverSendsRefund PROVE TypeOK'
    <2>1. spend' \in [kind : {"none", "claim", "refund"}, confs : Nat,
                      fee : {"low", "high"}, at : Nat]
      BY <1>26 DEF DriverSendsRefund
    <2> QED BY <1>26, <2>1 DEF DriverSendsRefund
  <1>27. ASSUME DriverBumps PROVE TypeOK'
    <2>1. spend' \in [kind : {"none", "claim", "refund"}, confs : Nat,
                      fee : {"low", "high"}, at : Nat]
      BY <1>27 DEF DriverBumps
    <2> QED BY <1>27, <2>1 DEF DriverBumps
  <1>28. ASSUME DriverThrows PROVE TypeOK'
    BY <1>28 DEF DriverThrows
  <1>29. ASSUME SessionEnds PROVE TypeOK'
    <2>1. [job EXCEPT !.status = "interrupted", !.done = TRUE] \in Jobs
      BY DEF Jobs, Statuses
    <2>2. job' \in Jobs /\ disk' \in Jobs
      BY <1>29, <2>1, PersistTypes DEF SessionEnds
    <2> QED BY <1>29, <2>2 DEF SessionEnds
  <1>30. ASSUME ProcessStops PROVE TypeOK'
    <2>1. job' = disk /\ pc' = "down" /\ UNCHANGED <<chainVars, announced, disk, pollVars>>
      BY <1>30 DEF ProcessStops
    <2>2. faults' \in Nat
      BY <1>30 DEF ProcessStops
    <2>3. fronted' \in BOOLEAN
      BY <1>30 DEF ProcessStops
    <2> QED BY <2>1, <2>2, <2>3
  <1>31. ASSUME Boots PROVE TypeOK'
    <2> DEFINE j == IF job.status = "confirming"
                    THEN [job EXCEPT !.status = "interrupted", !.done = TRUE] ELSE job
    <2>1. j \in Jobs
      <3>1. [job EXCEPT !.status = "interrupted", !.done = TRUE] \in Jobs
        BY DEF Jobs, Statuses
      <3>2. job \in Jobs
        OBVIOUS
      <3> QED BY <3>1, <3>2
    <2>2. PICK h \in BOOLEAN :
             \/ /\ Persist([j EXCEPT !.status = "confirming", !.htlc = h])
                /\ pc' = "tick" /\ fronted' = (job.front = "armed")
             \/ Persist(j) /\ pc' = "off" /\ UNCHANGED fronted
      <3>1. \A found \in BOOLEAN : (j.htlc \/ (found /\ funded > 0)) \in BOOLEAN
        BY <2>1 DEF Jobs
      <3> QED BY <1>31, <3>1 DEF Boots
    <2>3. [j EXCEPT !.status = "confirming", !.htlc = h] \in Jobs
      BY <2>1 DEF Jobs, Statuses
    <2> HIDE DEF j
    <2>4. job' \in Jobs /\ disk' \in Jobs
      BY <2>1, <2>2, <2>3, PersistTypes
    <2>5. pc' \in Pcs /\ fronted' \in BOOLEAN
      BY <2>2
    <2>6. UNCHANGED <<chainVars, announced, pollVars, faults>>
      BY <1>31 DEF Boots
    <2> QED BY <2>4, <2>5, <2>6
  <1>32. ASSUME Reaped PROVE TypeOK'
    <2>1. [disk EXCEPT !.status = "gone"] \in Jobs
      BY DEF Jobs, Statuses
    <2> QED BY <1>32, <2>1 DEF Reaped
  <1>33. ASSUME UNCHANGED vars PROVE TypeOK'
    BY <1>33 DEF vars
  <1> QED
    BY <1>1, <1>2, <1>3, <1>4, <1>5, <1>6, <1>7, <1>8, <1>9, <1>10, <1>11, <1>12,
       <1>13, <1>14, <1>15, <1>16, <1>17, <1>18, <1>19, <1>20, <1>21, <1>22,
       <1>23, <1>24, <1>25, <1>26, <1>27, <1>28, <1>29, <1>30, <1>31, <1>32,
       <1>33
       DEF Next, Chains, Driver, Process

-----------------------------------------------------------------------------
(* The invariant                                                            *)

\* In a calm run a write reaches the disk, unless the job was over and dropped.
LEMMA Writes ==
    ASSUME Calm, Recorded, job \in Jobs, NEW j \in Jobs, Persist(j)
    PROVE  /\ job' = j
           /\ disk' = IF disk.status = "gone" THEN disk ELSE j
  BY DEF Calm, Persist

\* A live process has its job on disk as it is.
LEMMA LiveIsWritten ==
    ASSUME JobInv, pc \notin {"off", "down"}
    PROVE  disk = job /\ job.status \in {"confirming", "interrupted"}
  <1>1. disk.status # "gone" /\ job.status \notin {"settled", "gone"}
    BY DEF JobInv, Closed
  <1>2. job \in Jobs
    BY DEF JobInv, TypeOK
  <1> QED BY <1>1, <1>2 DEF JobInv, Recorded, Jobs, Statuses

\* Every step of a calm job keeps its invariant.
LEMMA InvStep == ASSUME Calm, JobInv, [Next]_vars PROVE JobInv'
  <1> DEFINE Rest == /\ Recorded /\ OneMode /\ Keyed /\ Closed /\ OneEnd /\ Timed
  <1>0. TypeOK'
    BY TypeStep DEF JobInv
  <1>a. pc \notin {"off", "down"}
          => disk = job /\ job.status \in {"confirming", "interrupted"}
    BY LiveIsWritten
  <1>b. ASSUME pc \notin {"off", "down"}, NEW j \in Jobs, Persist(j)
        PROVE  job' = j /\ disk' = j
    BY <1>a, <1>b, Writes DEF JobInv, TypeOK
  <1> USE HeightsAssumption
      DEF Calm, JobInv, TypeOK, Recorded, OneMode, Keyed, Closed, OneEnd, Timed, Buried,
          chainVars, driverVars, pollVars, Fault, Ticked, Unspent
  <1>1. ASSUME MineBtc PROVE Rest'
    BY <1>0, <1>a, <1>1 DEF MineBtc
  <1>2. ASSUME MineSeq PROVE Rest'
    BY <1>0, <1>a, <1>2 DEF MineSeq
  <1>3. ASSUME HoldArrives PROVE Rest'
    BY <1>0, <1>a, <1>3 DEF HoldArrives
  <1>4. ASSUME HoldLapses PROVE Rest'
    BY <1>0, <1>a, <1>4 DEF HoldLapses
  <1>5. ASSUME MakerLocksAsset PROVE Rest'
    BY <1>0, <1>a, <1>5 DEF MakerLocksAsset
  <1>6. ASSUME TakerClaims PROVE Rest'
    BY <1>0, <1>a, <1>6 DEF TakerClaims
  <1>7. ASSUME MakerRefundsAsset PROVE Rest'
    BY <1>0, <1>a, <1>7 DEF MakerRefundsAsset
  <1>8. ASSUME MakerClaimsBtc PROVE Rest'
    BY <1>0, <1>a, <1>8 DEF MakerClaimsBtc
  <1>9. ASSUME RefundMined PROVE Rest'
    BY <1>0, <1>a, <1>9 DEF RefundMined
  <1>10. ASSUME RefundEvicted PROVE Rest'
    BY <1>0, <1>a, <1>10 DEF RefundEvicted
  <1>11. ASSUME DriverTicks PROVE Rest'
    <2>1. PICK sees \in BOOLEAN :
             LET step == NextStep(KnowsP(sees)) IN
             /\ pc' = IF step \in {"done", "failClosed"} THEN "off" ELSE step
             /\ CASE step = "done" -> Persist([job EXCEPT !.status = "settled", !.done = TRUE])
                  [] step = "failClosed" ->
                         Persist([job EXCEPT !.status = "interrupted", !.done = TRUE])
                  [] OTHER -> UNCHANGED <<job, disk>>
      BY <1>11 DEF DriverTicks
    <2>2. pc = "tick" /\ UNCHANGED <<chainVars, fronted>>
      BY <1>11 DEF DriverTicks
    <2> DEFINE p == KnowsP(sees)
    <2>p. p \in BOOLEAN
      BY DEF KnowsP, PPublic, Jobs
    <2> HIDE DEF p
    <2>3. CASE NextStep(p) = "done"
      <3>1. hold = "settled" \/ Buried
        BY <2>3 DEF NextStep, FrontedStep, FundedStep, UnfundedStep
      <3>2. [job EXCEPT !.status = "settled", !.done = TRUE] \in Jobs
        BY DEF Jobs, Statuses
      <3>3. job' = [job EXCEPT !.status = "settled", !.done = TRUE] /\ disk' = job'
        BY <1>b, <2>1, <2>2, <2>3, <3>2 DEF p
      <3> QED BY <1>a, <2>1, <2>2, <2>3, <3>1, <3>3 DEF p, Jobs
    <2>4. CASE NextStep(p) = "failClosed"
      <3>1. [job EXCEPT !.status = "interrupted", !.done = TRUE] \in Jobs
        BY DEF Jobs, Statuses
      <3>2. job' = [job EXCEPT !.status = "interrupted", !.done = TRUE] /\ disk' = job'
        BY <1>b, <2>1, <2>2, <2>4, <3>1 DEF p
      <3> QED BY <1>a, <2>1, <2>2, <2>4, <3>2 DEF p, Jobs
    <2>5. CASE NextStep(p) \in {"tick", "fund", "settle", "refund", "bump"}
      <3>1. UNCHANGED <<job, disk>> /\ pc' = NextStep(p)
        BY <2>1, <2>5 DEF p
      <3>2. NextStep(p) = "settle" => spend.kind # "refund"
        BY DEF NextStep, FrontedStep, FundedStep, UnfundedStep
      <3>3. NextStep(p) = "refund" => hold # "settled" /\ (fronted \/ (job.htlc /\ btc >= TBtc))
        BY DEF NextStep, FrontedStep, FundedStep, UnfundedStep
      <3>4. NextStep(p) = "bump" => job.htlc
        BY DEF NextStep, FrontedStep, FundedStep, UnfundedStep
      <3>5. Recorded' /\ Closed'
        BY <1>a, <2>2, <3>1
      <3>6. OneMode' /\ Keyed'
        BY <2>2, <2>5, <3>1, <3>3, <3>4
      <3>7. OneEnd'
        <4>1. /\ UNCHANGED <<hold, spend>> /\ pc' = NextStep(p)
              /\ NextStep(p) # "refundSend"
              /\ hold = "settled" => spend.kind # "refund"
          BY <2>2, <2>5, <3>1
        <4>2. hold' = "settled" => spend'.kind # "refund" /\ pc' # "refund" /\ pc' # "refundSend"
          BY <3>3, <4>1
        <4>3. pc' = "settle" => spend'.kind # "refund"
          BY <3>2, <4>1
        <4> QED BY <4>2, <4>3
      <3>8. Timed'
        BY <2>2, <2>5, <3>1, <3>3
      <3> QED BY <3>5, <3>6, <3>7, <3>8
    <2> QED BY <2>3, <2>4, <2>5, <2>p, StepIsKnown
  <1>12. ASSUME DriverDecidesFront PROVE Rest'
    <2>1. PICK f \in {"armed", "declined"} : Persist([job EXCEPT !.front = f])
      BY <1>12 DEF DriverDecidesFront
    <2>2. [job EXCEPT !.front = f] \in Jobs
      BY DEF Jobs
    <2>3. job' = [job EXCEPT !.front = f] /\ disk' = job'
      BY <1>b, <1>12, <2>1, <2>2 DEF DriverDecidesFront
    <2> QED BY <1>a, <1>12, <2>3 DEF DriverDecidesFront, Jobs
  <1>13. ASSUME DriverFronts PROVE Rest'
    BY <1>0, <1>a, <1>13 DEF DriverFronts
  <1>14. ASSUME DriverBroadcastsFront PROVE Rest'
    BY <1>0, <1>a, <1>14 DEF DriverBroadcastsFront
  <1>15. ASSUME DriverDeliversFront PROVE Rest'
    <2>1. [job EXCEPT !.leg = TRUE, !.relayed = TRUE] \in Jobs
      BY DEF Jobs, Statuses
    <2>2. job' = [job EXCEPT !.leg = TRUE, !.relayed = TRUE] /\ disk' = job'
      BY <1>b, <1>15, <2>1 DEF DriverDeliversFront
    <2>3. job \in Jobs
      OBVIOUS
    <2> QED BY <1>a, <1>15, <2>2, <2>3 DEF DriverDeliversFront, Jobs
  <1>16. ASSUME DriverAdopts PROVE Rest'
    <2>1. [job EXCEPT !.htlc = TRUE] \in Jobs
      BY DEF Jobs, Statuses
    <2>2. job' = [job EXCEPT !.htlc = TRUE] /\ disk' = job'
      BY <1>b, <1>16, <2>1 DEF DriverAdopts
    <2>3. job \in Jobs
      OBVIOUS
    <2> QED BY <1>a, <1>16, <2>2, <2>3 DEF DriverAdopts, Jobs, Located
  <1>17. ASSUME DriverGates PROVE Rest'
    <2>1. CASE FundGate
      <3>1. [job EXCEPT !.intent = TRUE] \in Jobs
        BY DEF Jobs, Statuses
      <3>2. job' = [job EXCEPT !.intent = TRUE] /\ disk' = job'
        BY <1>b, <1>17, <2>1, <3>1 DEF DriverGates
      <3> QED BY <1>a, <1>17, <2>1, <3>2 DEF DriverGates, Jobs, FundGate, SeqBlocks, Located
    <2>2. CASE ~FundGate
      BY <1>a, <1>17, <2>2 DEF DriverGates
    <2> QED BY <2>1, <2>2
  <1>18. ASSUME DriverBroadcasts PROVE Rest'
    BY <1>0, <1>a, <1>18 DEF DriverBroadcasts, Located
  <1>19. ASSUME DriverRecordsHtlc PROVE Rest'
    <2>1. [job EXCEPT !.htlc = TRUE] \in Jobs
      BY DEF Jobs, Statuses
    <2>2. job' = [job EXCEPT !.htlc = TRUE] /\ disk' = job'
      BY <1>b, <1>19, <2>1 DEF DriverRecordsHtlc
    <2>3. job \in Jobs
      OBVIOUS
    <2> QED BY <1>a, <1>19, <2>2, <2>3 DEF DriverRecordsHtlc, Jobs
  <1>20. ASSUME DriverRelays PROVE Rest'
    BY <1>0, <1>a, <1>20 DEF DriverRelays
  <1>21. ASSUME DriverGetsMakerLeg PROVE Rest'
    <2>1. [job EXCEPT !.leg = TRUE] \in Jobs
      BY DEF Jobs, Statuses
    <2>2. job' = [job EXCEPT !.leg = TRUE] /\ disk' = job'
      BY <1>b, <1>21, <2>1 DEF DriverGetsMakerLeg
    <2>3. job \in Jobs
      OBVIOUS
    <2> QED BY <1>a, <1>21, <2>2, <2>3 DEF DriverGetsMakerLeg, Jobs
  <1>22. ASSUME DriverHandsOff PROVE Rest'
    <2>1. [job EXCEPT !.relayed = TRUE] \in Jobs
      BY DEF Jobs, Statuses
    <2>2. job' = [job EXCEPT !.relayed = TRUE] /\ disk' = job'
      BY <1>b, <1>22, <2>1 DEF DriverHandsOff
    <2>3. job \in Jobs
      OBVIOUS
    <2> QED BY <1>a, <1>22, <2>2, <2>3 DEF DriverHandsOff, Jobs
  <1>23. ASSUME DriverRelayFails PROVE Rest'
    BY <1>0, <1>a, <1>23 DEF DriverRelayFails
  <1>24. ASSUME DriverSettles PROVE Rest'
    BY <1>0, <1>a, <1>24 DEF DriverSettles
  <1>25. ASSUME DriverRefunds PROVE Rest'
    BY <1>0, <1>a, <1>25 DEF DriverRefunds
  <1>26. ASSUME DriverSendsRefund PROVE Rest'
    BY <1>0, <1>a, <1>26 DEF DriverSendsRefund
  <1>27. ASSUME DriverBumps PROVE Rest'
    BY <1>0, <1>a, <1>27 DEF DriverBumps
  <1>28. ASSUME DriverThrows PROVE Rest'
    BY <1>0, <1>a, <1>28 DEF DriverThrows
  <1>29. ASSUME SessionEnds PROVE Rest'
    <2>1. [job EXCEPT !.status = "interrupted", !.done = TRUE] \in Jobs
      BY DEF Jobs, Statuses
    <2>2. job' = [job EXCEPT !.status = "interrupted", !.done = TRUE] /\ disk' = job'
      BY <1>b, <1>29, <2>1 DEF SessionEnds
    <2>3. job \in Jobs
      OBVIOUS
    <2> QED BY <1>a, <1>29, <2>2, <2>3 DEF SessionEnds, Jobs
  <1>30. ASSUME ProcessStops PROVE Rest'
    <2>1. /\ disk.intent = job.intent /\ disk.front = job.front /\ disk.htlc = job.htlc
          /\ disk.status \in {job.status, "gone"}
      BY DEF Jobs
    <2>2. /\ job' = disk /\ disk' = disk /\ pc' = "down" /\ fronted' = FALSE
          /\ UNCHANGED chainVars
      BY <1>30 DEF ProcessStops
    <2> QED BY <1>a, <2>1, <2>2
  <1>31. ASSUME Boots PROVE Rest'
    <2> DEFINE j == IF job.status = "confirming"
                    THEN [job EXCEPT !.status = "interrupted", !.done = TRUE] ELSE job
    <2>0. j \in Jobs
      <3>1. [job EXCEPT !.status = "interrupted", !.done = TRUE] \in Jobs
        BY DEF Jobs, Statuses
      <3>2. job \in Jobs
        OBVIOUS
      <3> QED BY <3>1, <3>2
    <2>1. /\ j \in Jobs /\ j.htlc = job.htlc /\ j.intent = job.intent /\ j.front = job.front
          /\ j.status = "confirming" => FALSE
          /\ job.status \in {"settled", "gone"} \/ j.status \in {"settled", "gone"} => j = job
          /\ j.status = "interrupted" => job.status \in {"confirming", "interrupted"}
      BY <2>0 DEF Jobs, Statuses
    <2>2. /\ pc = "down" /\ UNCHANGED chainVars
          /\ Resumable(j) =>
               /\ \E found \in BOOLEAN :
                    Persist([j EXCEPT !.status = "confirming", !.htlc = @ \/ (found /\ funded > 0)])
               /\ pc' = "tick" /\ fronted' = (job.front = "armed")
          /\ ~Resumable(j) => Persist(j) /\ pc' = "off" /\ UNCHANGED fronted
      BY <1>31 DEF Boots
    <2> HIDE DEF j
    <2>3. CASE Resumable(j)
      <3>1. PICK found \in BOOLEAN :
               Persist([j EXCEPT !.status = "confirming", !.htlc = @ \/ (found /\ funded > 0)])
        BY <2>2, <2>3
      <3> DEFINE k == [j EXCEPT !.status = "confirming", !.htlc = @ \/ (found /\ funded > 0)]
      <3>a. (j.htlc \/ (found /\ funded > 0)) \in BOOLEAN
        BY <2>0 DEF Jobs
      <3>b. ASSUME NEW h \in BOOLEAN
            PROVE  LET x == [j EXCEPT !.status = "confirming", !.htlc = h]
                   IN /\ x \in Jobs /\ x.status = "confirming" /\ x.intent = j.intent
                      /\ x.front = j.front /\ x.htlc = h
        BY <2>0 DEF Jobs, Statuses
      <3>2. /\ k \in Jobs /\ k.status = "confirming" /\ k.intent = j.intent /\ k.front = j.front
            /\ k.htlc => j.htlc \/ funded > 0
        BY <3>a, <3>b
      <3>3. Persist(k)
        BY <3>1
      <3> HIDE DEF k
      <3>4. j.status = "interrupted"
        BY <2>1, <2>3 DEF Resumable
      <3>5. disk.status # "gone" /\ job.status \notin {"settled", "gone"}
        BY <2>1, <3>4
      <3>6. job' = k /\ disk' = k
        BY <3>2, <3>3, <3>5, Writes
      <3>7. pc' = "tick" /\ fronted' = (job.front = "armed") /\ UNCHANGED chainVars
        BY <2>2, <2>3
      <3> QED BY <2>1, <2>2, <3>2, <3>5, <3>6, <3>7
    <2>4. CASE ~Resumable(j)
      <3>1. /\ job' = j /\ disk' = IF disk.status = "gone" THEN disk ELSE j
            /\ pc' = "off" /\ UNCHANGED <<fronted, chainVars>>
        BY <2>1, <2>2, <2>4, Writes
      <3>2. CASE disk.status = "gone"
        <4>1. job' = job /\ disk' = disk
          BY <2>1, <3>1, <3>2
        <4> QED BY <2>2, <3>1, <4>1
      <3>3. CASE disk.status # "gone"
        BY <2>1, <2>2, <3>1, <3>3
      <3> QED BY <3>2, <3>3
    <2> QED BY <2>3, <2>4
  <1>32. ASSUME Reaped PROVE Rest'
    <2>1. disk.status = "settled" /\ disk = job
      BY <1>32 DEF Reaped, Jobs
    <2>2. disk' = [job EXCEPT !.status = "gone"] /\ UNCHANGED <<chainVars, job, pc, fronted>>
      BY <1>32, <2>1 DEF Reaped
    <2> QED BY <1>0, <2>1, <2>2
  <1>33. ASSUME UNCHANGED vars PROVE Rest'
    BY <1>33 DEF vars
  <1> HIDE DEF Rest
  <1>c. Rest'
    BY <1>1, <1>2, <1>3, <1>4, <1>5, <1>6, <1>7, <1>8, <1>9, <1>10, <1>11, <1>12,
       <1>13, <1>14, <1>15, <1>16, <1>17, <1>18, <1>19, <1>20, <1>21, <1>22,
       <1>23, <1>24, <1>25, <1>26, <1>27, <1>28, <1>29, <1>30, <1>31, <1>32,
       <1>33
       DEF Next, Chains, Driver, Process
  <1> QED BY <1>0, <1>c DEF Rest, JobInv

LEMMA JobAlways == ASSUME Calm PROVE Spec => []JobInv
  <1>1. JobInv /\ [Next]_vars => JobInv'
    BY InvStep
  <1> QED BY InitInv, <1>1, PTL DEF Spec

-----------------------------------------------------------------------------
(* The race of the refund with the hold                                     *)

\* How long an unmined refund stands that only a tick or the maker's claim can move.
Wait == IF Outage > ConfirmBudget THEN Outage ELSE ConfirmBudget

\* What an eviction costs: a tick to see it, and the wait of the refund sent anew.
Lag == Outage + Wait

\* The blocks that finality, a bumped refund's way into a block, a last claim of the
\* maker and every eviction take.
Margin == Finality + ConfirmBudget + Outage + (MaxFaults + 1) * Lag - 1

\* The hold outlives T_btc by that much, a refund is bumped that early, and a maker
\* takes what it is owed without delay.
InTime == Margin <= HoldBuffer /\ Margin <= BumpWithin /\ ~SlowMaker

\* From here on a tick refunds, bumps or settles.
Zone == HoldExpiry - Margin

\* The height by which a refund is out, with the evictions there were.
Limit == Zone - 1 + Outage + faults * Lag

Paced == faults <= MaxFaults /\ clear <= begun /\ begun <= btc /\ spend.at <= btc

\* Only a funded job goes on after a boot, and it refunds on record.
Driven ==
    /\ ~fronted
    /\ pc \in {"refund", "refundSend", "bump"} \/ spend.kind = "refund" => job.htlc
    /\ spend.kind = "refund" => pc \in {"tick", "bump", "off", "down"}
    /\ pc = "settle" => funded > 0

\* In the middle of an action that may pass without a settlement, and without a refund.
Acting == pc \notin {"tick", "off", "down", "settle"}
Passing == Acting /\ pc \notin {"refund", "refundSend"}

\* The gate leaves the buffer between T_btc and the end of the hold.
Gated == cover > 0 => TBtc <= HoldExpiry - HoldBuffer

UnspentInTime ==
    spend.kind = "none" =>
        /\ btc <= Limit /\ clear <= Limit - Outage
        /\ Passing => begun <= Limit - Outage

\* Before P is public the next tick bumps a refund; once it is, the maker displaces it.
LowInTime ==
    spend.kind = "refund" /\ spend.confs = 0 /\ spend.fee = "low" =>
        /\ spend.at <= Limit /\ btc <= Limit + Wait
        /\ ~PPublic => clear <= Limit /\ btc <= Limit + Outage

HighInTime ==
    spend.kind = "refund" /\ spend.confs = 0 /\ spend.fee = "high" =>
        spend.at <= Limit + Wait /\ btc <= spend.at + ConfirmBudget

MinedInTime ==
    spend.kind = "refund" /\ spend.confs > 0 =>
        btc + 1 - spend.confs <= Limit + Wait + ConfirmBudget

\* Every tick from here on settles.
ClaimedInTime ==
    spend.kind = "claim" =>
        /\ btc < HoldExpiry /\ clear + Outage < HoldExpiry
        /\ Acting => begun + Outage < HoldExpiry

SpentInTime ==
    /\ UnspentInTime /\ LowInTime /\ HighInTime /\ MinedInTime /\ ClaimedInTime

HeldThrough ==
    /\ pc = "broadcast" => hold = "held"
    /\ hold = "none" => funded = 0
    /\ hold = "lapsed" => funded = 0 \/ Buried

RaceInv == Paced /\ Driven /\ Gated /\ HeldThrough /\ (Exposed => SpentInTime)

LEMMA RaceInit == ASSUME InTime, Init PROVE RaceInv
  <1> USE HeightsAssumption
  <1>1. Paced /\ Driven /\ Gated /\ HeldThrough
    BY DEF Init, Paced, Driven, Gated, HeldThrough, Unspent, NewJob
  <1>2. ~Exposed
    BY DEF Init, Exposed
  <1> QED BY <1>1, <1>2 DEF RaceInv

LEMMA Heights ==
    /\ HoldExpiry \in Nat /\ HoldBuffer \in Nat /\ Finality \in Nat \ {0}
    /\ BumpWithin \in Nat /\ ConfirmBudget \in Nat /\ Outage \in Nat /\ MaxFaults \in Nat
  BY HeightsAssumption

LEMMA Slack ==
    ASSUME InTime, NEW f \in Nat, f <= MaxFaults
    PROVE  /\ Wait \in Nat /\ Wait >= Outage /\ Wait >= ConfirmBudget
           /\ Margin \in Int /\ Zone \in Int
           /\ Zone - 1 + Outage + f * Lag \in Int
           /\ Zone - 1 <= (Zone - 1 + Outage + f * Lag) - Outage
           /\ (Zone - 1 + Outage + f * Lag) + Wait + ConfirmBudget + Outage + Finality
                 <= HoldExpiry
           /\ Zone - 1 + Outage + (f + 1) * Lag
                 = (Zone - 1 + Outage + f * Lag) + Outage + Wait
  <1> USE Heights
  <1>1. Wait \in Nat /\ Wait >= Outage /\ Wait >= ConfirmBudget
    BY DEF Wait
  <1>2. Lag \in Nat /\ Lag = Outage + Wait
    BY <1>1 DEF Lag
  <1>3. ASSUME NEW m \in Nat, NEW n \in Nat, NEW l \in Nat, n <= m
        PROVE  /\ m * l \in Nat /\ n * l \in Nat /\ n * l <= m * l
               /\ (n + 1) * l = n * l + l /\ (m + 1) * l = m * l + l
    <2>1. \A x \in Nat, y \in Nat : x * y \in Nat
      OBVIOUS
    <2>2. \A x \in Nat, y \in Nat, z \in Nat : (x + y) * z = x * z + y * z
      OBVIOUS
    <2>3. m - n \in Nat /\ m = n + (m - n)
      BY <1>3
    <2>4. m * l = n * l + (m - n) * l
      BY <2>2, <2>3
    <2>5. m * l \in Nat /\ n * l \in Nat /\ (m - n) * l \in Nat
      BY <2>1, <2>3
    <2>6. n * l <= m * l
      BY <2>4, <2>5
    <2>7. 1 * l = l
      OBVIOUS
    <2> QED BY <2>2, <2>5, <2>6, <2>7
  <1>4. /\ MaxFaults * Lag \in Nat /\ f * Lag \in Nat /\ f * Lag <= MaxFaults * Lag
        /\ (f + 1) * Lag = f * Lag + Lag /\ (MaxFaults + 1) * Lag = MaxFaults * Lag + Lag
    BY <1>2, <1>3
  <1>5. Margin = Finality + ConfirmBudget + Outage + (MaxFaults * Lag + Lag) - 1
    BY <1>4 DEF Margin
  <1>6. ASSUME NEW w \in Nat, NEW z, NEW g, NEW p \in Nat, NEW q \in Nat, p <= q,
               g = Finality + ConfirmBudget + Outage + (q + (Outage + w)) - 1,
               z = HoldExpiry - g
        PROVE  /\ g \in Int /\ z \in Int /\ z - 1 + Outage + p \in Int
               /\ z - 1 <= (z - 1 + Outage + p) - Outage
               /\ (z - 1 + Outage + p) + w + ConfirmBudget + Outage + Finality <= HoldExpiry
               /\ z - 1 + Outage + (p + (Outage + w)) = (z - 1 + Outage + p) + Outage + w
    BY <1>6, Heights
  <1>7. Zone = HoldExpiry - Margin
    BY DEF Zone
  <1> QED BY <1>1, <1>2, <1>4, <1>5, <1>6, <1>7

LEMMA LimitFacts ==
    ASSUME InTime, TypeOK, Paced
    PROVE  /\ Wait \in Nat /\ Wait >= Outage /\ Wait >= ConfirmBudget
           /\ Limit \in Int /\ HoldExpiry - HoldBuffer - 1 <= Limit - Outage
           /\ HoldExpiry - BumpWithin - 1 <= Limit - Outage
           /\ Limit + Wait + ConfirmBudget + Outage + Finality <= HoldExpiry
  <1>1. faults \in Nat /\ faults <= MaxFaults
    BY DEF TypeOK, Paced
  <1>2. Margin <= HoldBuffer /\ Margin <= BumpWithin /\ Zone = HoldExpiry - Margin
    BY DEF InTime, Zone
  <1> QED BY <1>1, <1>2, Slack, Heights DEF Limit

LEMMA LimitStep ==
    ASSUME InTime, TypeOK, Paced
    PROVE  /\ faults' = faults => Limit' = Limit
           /\ faults' = faults + 1 => Limit' = Limit + Outage + Wait
  <1>1. faults \in Nat /\ faults <= MaxFaults
    BY DEF TypeOK, Paced
  <1>2. faults' = faults => Limit' = Limit
    BY DEF Limit
  <1>3. faults' = faults + 1 => Limit' = Zone - 1 + Outage + (faults + 1) * Lag
    BY DEF Limit
  <1> QED BY <1>1, <1>2, <1>3, Slack DEF Limit

LEMMA PacedStep == ASSUME TypeOK, Paced, [Next]_vars PROVE Paced'
  <1> USE Heights DEF TypeOK, Paced, chainVars, driverVars, pollVars, Fault, Ticked, Unspent
  <1>1. CASE UNCHANGED <<btc, spend, begun, clear>> /\ faults' \in {faults, faults + 1}
             /\ faults' <= MaxFaults
    BY <1>1
  <1>2. CASE MineBtc
    BY <1>2 DEF MineBtc
  <1>3. CASE MakerClaimsBtc \/ RefundMined \/ RefundEvicted
    <2>1. spend'.at \in {0, spend.at}
      <3>1. CASE MakerClaimsBtc
        BY <3>1 DEF MakerClaimsBtc
      <3>2. CASE RefundMined
        BY <3>2 DEF RefundMined
      <3>3. CASE RefundEvicted
        BY <3>3 DEF RefundEvicted
      <3> QED BY <1>3, <3>1, <3>2, <3>3
    <2>2. UNCHANGED <<btc, begun, clear>> /\ faults' <= MaxFaults
      BY <1>3 DEF MakerClaimsBtc, RefundMined, RefundEvicted
    <2> QED BY <2>1, <2>2
  <1>4. CASE DriverTicks
    <2>1. /\ begun' \in {begun, btc} /\ clear' \in {clear, begun'}
          /\ UNCHANGED <<btc, spend, faults>>
      BY <1>4 DEF DriverTicks
    <2> QED BY <2>1
  <1>5. CASE DriverSendsRefund \/ DriverBumps
    <2>1. spend'.at \in {spend.at, btc}
      <3>1. CASE DriverSendsRefund
        BY <3>1 DEF DriverSendsRefund
      <3>2. CASE DriverBumps
        BY <3>2 DEF DriverBumps
      <3> QED BY <1>5, <3>1, <3>2
    <2>2. UNCHANGED <<btc, begun, faults>> /\ clear' = begun
      BY <1>5 DEF DriverSendsRefund, DriverBumps
    <2> QED BY <2>1, <2>2
  <1>6. CASE DriverDeliversFront \/ DriverHandsOff \/ DriverRelayFails \/ DriverSettles
    BY <1>6 DEF DriverDeliversFront, DriverHandsOff, DriverRelayFails, DriverSettles
  <1>7. CASE DriverRefunds
    BY <1>7 DEF DriverRefunds
  <1>8. CASE DriverThrows \/ SessionEnds \/ ProcessStops
    BY <1>8 DEF DriverThrows, SessionEnds, ProcessStops
  <1>9. CASE \/ MineSeq \/ HoldArrives \/ HoldLapses \/ MakerLocksAsset \/ TakerClaims
             \/ MakerRefundsAsset \/ DriverDecidesFront \/ DriverFronts
             \/ DriverBroadcastsFront \/ DriverAdopts \/ DriverGates \/ DriverBroadcasts
             \/ DriverRecordsHtlc \/ DriverRelays \/ DriverGetsMakerLeg \/ Boots \/ Reaped
             \/ UNCHANGED vars
    BY <1>9, <1>1
       DEF MineSeq, HoldArrives, HoldLapses, MakerLocksAsset, TakerClaims,
           MakerRefundsAsset, DriverDecidesFront, DriverFronts, DriverBroadcastsFront,
           DriverAdopts, DriverGates, DriverBroadcasts, DriverRecordsHtlc, DriverRelays,
           DriverGetsMakerLeg, Boots, Reaped, vars
  <1> QED
    BY <1>2, <1>3, <1>4, <1>5, <1>6, <1>7, <1>8, <1>9 DEF Next, Chains, Driver, Process

\* What a tick of a job that does not front decides.
LEMMA Decision ==
    ASSUME JobInv, Driven, DriverTicks
    PROVE  \E p \in BOOLEAN, s \in {"done", "failClosed", "tick", "fund", "settle", "refund",
                                    "bump"} :
              /\ s = IF hold = "settled" THEN "done"
                     ELSE IF job.htlc THEN FundedStep(p) ELSE UnfundedStep
              /\ spend.kind = "claim" => p
              /\ p => PPublic \/ spend.kind = "claim"
              /\ begun' \in {begun, btc}
              /\ clear' = IF s = "tick" THEN begun' ELSE clear
              /\ pc' = IF s \in {"done", "failClosed"} THEN "off" ELSE s
              /\ job'.htlc = job.htlc
  <1>1. PICK sees \in BOOLEAN :
           LET step == NextStep(KnowsP(sees)) IN
           /\ begun' = IF sees THEN btc ELSE begun
           /\ clear' = IF step = "tick" THEN begun' ELSE clear
           /\ pc' = IF step \in {"done", "failClosed"} THEN "off" ELSE step
           /\ \/ Persist([job EXCEPT !.status = "settled", !.done = TRUE])
              \/ Persist([job EXCEPT !.status = "interrupted", !.done = TRUE])
              \/ UNCHANGED <<job, disk>>
    BY DEF DriverTicks
  <1> DEFINE p == KnowsP(sees)
  <1>2. p \in BOOLEAN /\ (spend.kind = "claim" => p) /\ (p => PPublic \/ spend.kind = "claim")
    BY DEF KnowsP, PPublic, JobInv, TypeOK, Jobs
  <1> HIDE DEF p
  <1>3. NextStep(p) \in {"done", "failClosed", "tick", "fund", "settle", "refund", "bump"}
    BY <1>2, StepIsKnown DEF JobInv
  <1>4. NextStep(p) = IF hold = "settled" THEN "done"
                      ELSE IF job.htlc THEN FundedStep(p) ELSE UnfundedStep
    BY DEF NextStep, Driven
  <1>5. job \in Jobs
    BY DEF JobInv, TypeOK
  <1>6. job'.htlc = job.htlc
    BY <1>1, <1>5 DEF Persist, Jobs
  <1>7. /\ begun' \in {begun, btc}
        /\ clear' = IF NextStep(p) = "tick" THEN begun' ELSE clear
        /\ pc' = IF NextStep(p) \in {"done", "failClosed"} THEN "off" ELSE NextStep(p)
    BY <1>1 DEF p
  <1> QED BY <1>2, <1>3, <1>4, <1>6, <1>7

LEMMA DrivenStep == ASSUME Calm, JobInv, Driven, [Next]_vars PROVE Driven'
  <1>a. job \in Jobs /\ spend.kind \in {"none", "claim", "refund"}
    BY DEF JobInv, TypeOK
  <1>b. job.htlc => funded > 0
    BY DEF JobInv, Keyed
  <1>c. funded \in Nat
    BY DEF JobInv, TypeOK
  <1> USE DEF Driven, chainVars, driverVars, pollVars, Ticked, Unspent
  <1>1. CASE UNCHANGED <<fronted, pc, job, spend, funded>>
    BY <1>1
  <1>2. CASE MineBtc
    BY <1>2 DEF MineBtc
  <1>3. CASE MakerClaimsBtc
    BY <1>3 DEF MakerClaimsBtc
  <1>4. CASE RefundMined \/ RefundEvicted
    BY <1>4 DEF RefundMined, RefundEvicted, Calm
  <1>5. CASE DriverTicks
    <2>1. UNCHANGED <<fronted, spend, funded, hold>>
      BY <1>5 DEF DriverTicks
    <2>2. PICK p \in BOOLEAN, s \in {"done", "failClosed", "tick", "fund", "settle", "refund",
                                     "bump"} :
              /\ s = IF hold = "settled" THEN "done"
                     ELSE IF job.htlc THEN FundedStep(p) ELSE UnfundedStep
              /\ pc' = IF s \in {"done", "failClosed"} THEN "off" ELSE s
              /\ job'.htlc = job.htlc
      BY <1>5, Decision
    <2>3. UnfundedStep \in {"tick", "failClosed", "fund"}
      BY DEF UnfundedStep
    <2>4. spend.kind = "refund" => FundedStep(p) \in {"done", "bump", "tick"}
      BY DEF FundedStep
    <2>5. s \in {"refund", "bump", "settle"} => job.htlc
      BY <2>2, <2>3
    <2>6. spend.kind = "refund" => pc' \in {"off", "bump", "tick"}
      BY <2>2, <2>4
    <2> QED BY <1>b, <2>1, <2>2, <2>5, <2>6
  <1>6. CASE DriverDecidesFront
    BY <1>a, <1>6 DEF DriverDecidesFront, Persist, Jobs
  <1>7. CASE DriverFronts \/ DriverBroadcastsFront
    BY <1>7 DEF DriverFronts, DriverBroadcastsFront
  <1>8. CASE DriverDeliversFront
    BY <1>a, <1>8 DEF DriverDeliversFront, Persist, Jobs
  <1>9. CASE DriverAdopts
    BY <1>a, <1>9 DEF DriverAdopts, Persist, Jobs
  <1>10. CASE DriverGates
    BY <1>a, <1>10 DEF DriverGates, Persist, Jobs
  <1>11. CASE DriverBroadcasts
    BY <1>c, <1>11 DEF DriverBroadcasts
  <1>12. CASE DriverRecordsHtlc
    BY <1>a, <1>12 DEF DriverRecordsHtlc, Persist, Jobs
  <1>13. CASE DriverRelays
    BY <1>13 DEF DriverRelays
  <1>14. CASE DriverGetsMakerLeg
    BY <1>a, <1>14 DEF DriverGetsMakerLeg, Persist, Jobs
  <1>15. CASE DriverHandsOff
    BY <1>a, <1>15 DEF DriverHandsOff, Persist, Jobs
  <1>16. CASE DriverRelayFails \/ DriverSettles
    BY <1>16 DEF DriverRelayFails, DriverSettles
  <1>17. CASE DriverRefunds
    BY <1>17 DEF DriverRefunds
  <1>18. CASE DriverSendsRefund
    BY <1>18 DEF DriverSendsRefund
  <1>19. CASE DriverBumps
    BY <1>a, <1>19 DEF DriverBumps, JobInv, TypeOK
  <1>20. CASE DriverThrows
    BY <1>20 DEF DriverThrows
  <1>21. CASE SessionEnds
    BY <1>a, <1>21 DEF SessionEnds, Persist, Jobs
  <1>22. CASE ProcessStops
    <2>1. disk.htlc = job.htlc
      BY <1>a DEF JobInv, Recorded, Jobs
    <2>2. job' = disk /\ pc' = "down" /\ fronted' = FALSE /\ UNCHANGED <<spend, funded>>
      BY <1>22 DEF ProcessStops
    <2> QED BY <2>1, <2>2
  <1>23. CASE Boots
    <2> DEFINE j == IF job.status = "confirming"
                    THEN [job EXCEPT !.status = "interrupted", !.done = TRUE] ELSE job
    <2>1. j \in Jobs
      <3>1. [job EXCEPT !.status = "interrupted", !.done = TRUE] \in Jobs
        BY <1>a DEF Jobs, Statuses
      <3> QED BY <1>a, <3>1
    <2>2. j.htlc = job.htlc /\ j.intent = job.intent
      BY <1>a, <2>1 DEF Jobs
    <2>3. PICK h \in BOOLEAN :
             \/ /\ Resumable(j) /\ (j.htlc => h)
                /\ Persist([j EXCEPT !.status = "confirming", !.htlc = h])
                /\ pc' = "tick" /\ fronted' = (job.front = "armed")
             \/ Persist(j) /\ pc' = "off" /\ UNCHANGED fronted
      <3>1. \A found \in BOOLEAN : (j.htlc \/ (found /\ funded > 0)) \in BOOLEAN
        BY <2>1 DEF Jobs
      <3> QED BY <1>23, <3>1 DEF Boots
    <2>4. UNCHANGED <<spend, funded>>
      BY <1>23 DEF Boots
    <2> HIDE DEF j
    <2>5. job.htlc => job'.htlc
      BY <2>1, <2>2, <2>3 DEF Persist, Jobs
    <2>6. ~fronted'
      <3>1. Resumable(j) => job.front = "declined"
        BY <1>b, <2>2 DEF Resumable, JobInv, OneMode
      <3> QED BY <2>3, <3>1
    <2> QED BY <2>3, <2>4, <2>5, <2>6
  <1>24. CASE \/ MineSeq \/ HoldArrives \/ HoldLapses \/ MakerLocksAsset \/ TakerClaims
              \/ MakerRefundsAsset \/ Reaped \/ UNCHANGED vars
    BY <1>24, <1>1 DEF MineSeq, HoldArrives, HoldLapses, MakerLocksAsset, TakerClaims,
                       MakerRefundsAsset, Reaped, vars
  <1> QED
    BY <1>2, <1>3, <1>4, <1>5, <1>6, <1>7, <1>8, <1>9, <1>10, <1>11, <1>12, <1>13, <1>14,
       <1>15, <1>16, <1>17, <1>18, <1>19, <1>20, <1>21, <1>22, <1>23, <1>24
       DEF Next, Chains, Driver, Process

\* A driver's job that is exposed is served: its process runs, or a boot re-drives it.
LEMMA ExposedIsServed == ASSUME JobInv, Exposed PROVE Served
  <1>1. hold = "held" /\ ~Buried /\ (funded > 0 \/ pc = "broadcast")
    BY DEF Exposed
  <1>2. disk.status \in {"confirming", "interrupted"}
    <2>1. job.status \notin {"settled", "gone"} /\ disk.status # "gone"
      BY <1>1 DEF JobInv, Closed, Buried
    <2>2. disk.status \in {job.status, "gone"} /\ job.status \in Statuses
      BY DEF JobInv, Recorded, TypeOK, Jobs
    <2> QED BY <2>1, <2>2 DEF Statuses
  <1>3. job.intent /\ disk.intent = job.intent
    BY <1>1 DEF JobInv, OneMode, Recorded, TypeOK, Jobs
  <1> QED BY <1>2, <1>3 DEF Served, Resumable

\* The maker's claim comes while a tick is left to settle.
LEMMA ClaimLeavesATick ==
    ASSUME InTime, JobInv, RaceInv, Exposed
    PROVE  spend.kind # "claim" => btc + Outage < HoldExpiry
  <1>1. spend.kind \in {"none", "claim", "refund"} /\ spend.fee \in {"low", "high"}
    BY DEF JobInv, TypeOK
  <1>2. spend.confs \in Nat /\ spend.at \in Nat /\ btc \in Nat
    BY DEF JobInv, TypeOK
  <1>3. spend.kind = "refund" => spend.confs < Finality
    BY <1>2, Heights DEF Exposed, Buried
  <1>4. SpentInTime
    BY DEF RaceInv
  <1>5. /\ Wait \in Nat /\ Limit \in Int
        /\ Limit + Wait + ConfirmBudget + Outage + Finality <= HoldExpiry
    BY LimitFacts DEF JobInv, RaceInv
  <1> USE <1>1, <1>2, <1>5, Heights
  <1>6. CASE spend.kind = "none"
    BY <1>4, <1>6 DEF SpentInTime, UnspentInTime
  <1>8. CASE spend.kind = "refund" /\ spend.confs = 0 /\ spend.fee = "low"
    BY <1>4, <1>8 DEF SpentInTime, LowInTime
  <1>9. CASE spend.kind = "refund" /\ spend.confs = 0 /\ spend.fee = "high"
    BY <1>4, <1>9 DEF SpentInTime, HighInTime
  <1>10. CASE spend.kind = "refund" /\ spend.confs > 0
    BY <1>3, <1>4, <1>10 DEF SpentInTime, MinedInTime
  <1> QED BY <1>6, <1>8, <1>9, <1>10

\* An exposed job has some blocks left.
LEMMA ExposedHasTime == ASSUME InTime, JobInv, RaceInv, Exposed PROVE btc < HoldExpiry
  <1>1. btc \in Nat
    BY DEF JobInv, TypeOK
  <1>2. CASE spend.kind = "claim"
    BY <1>2 DEF RaceInv, SpentInTime, ClaimedInTime
  <1>3. CASE spend.kind # "claim"
    BY <1>1, <1>3, ClaimLeavesATick, Heights
  <1> QED BY <1>2, <1>3

\* With the chain and the spend as they were, and no tick passed, the race is as it was.
LEMMA Still ==
    ASSUME InTime, JobInv, TypeOK', RaceInv, Paced', Exposed' => Exposed,
           UNCHANGED <<btc, spend, clear, begun>>, PPublic => PPublic',
           faults' \in {faults, faults + 1}, Acting' => Acting, Passing' => Passing
    PROVE  Exposed' => SpentInTime'
  <1> SUFFICES ASSUME Exposed' PROVE SpentInTime'
    OBVIOUS
  <1>1. SpentInTime
    BY DEF RaceInv
  <1>2. Wait \in Nat /\ Limit \in Int
    BY LimitFacts DEF JobInv, RaceInv
  <1>3. /\ btc \in Nat /\ clear \in Nat /\ begun \in Nat
        /\ spend.at \in Nat /\ spend.confs \in Nat
    BY DEF JobInv, TypeOK
  <1>4. btc' = btc /\ spend' = spend /\ clear' = clear /\ begun' = begun
    OBVIOUS
  <1> USE Heights DEF UnspentInTime, LowInTime, HighInTime, MinedInTime, ClaimedInTime
  <1>5. CASE Limit' = Limit
    BY <1>1, <1>4, <1>5 DEF SpentInTime
  <1>6. CASE Limit' = Limit + Outage + Wait
    <2>1. UnspentInTime'
      BY <1>1, <1>2, <1>3, <1>4, <1>6 DEF SpentInTime, Passing, Acting
    <2>2. LowInTime'
      BY <1>1, <1>2, <1>3, <1>4, <1>6 DEF SpentInTime, PPublic
    <2>3. HighInTime' /\ MinedInTime'
      BY <1>1, <1>2, <1>3, <1>4, <1>6 DEF SpentInTime
    <2>4. ClaimedInTime'
      BY <1>1, <1>2, <1>3, <1>4, <1>6 DEF SpentInTime
    <2> QED BY <2>1, <2>2, <2>3, <2>4 DEF SpentInTime
  <1> QED BY <1>5, <1>6, LimitStep DEF JobInv, RaceInv

\* A tick that passes in the middle of such an action looked early enough.
LEMMA Passes ==
    ASSUME InTime, JobInv, TypeOK', RaceInv, Paced', Exposed' => Exposed,
           UNCHANGED <<btc, spend, begun, faults, aleg, fleg>>, clear' = begun,
           Acting, ~Acting', spend.kind # "refund", spend.kind = "none" => Passing
    PROVE  Exposed' => SpentInTime'
  <1> SUFFICES ASSUME Exposed' PROVE SpentInTime'
    OBVIOUS
  <1>1. SpentInTime
    BY DEF RaceInv
  <1>2. Limit \in Int /\ Limit' = Limit
    BY LimitFacts, LimitStep DEF JobInv, RaceInv
  <1> QED BY <1>1, <1>2 DEF SpentInTime, UnspentInTime, LowInTime, HighInTime, MinedInTime,
                            ClaimedInTime, Passing

\* A block is mined.
LEMMA BlockInTime ==
    ASSUME InTime, JobInv, TypeOK', RaceInv, Paced', MineBtc
    PROVE  Exposed' => SpentInTime'
  <1> SUFFICES ASSUME Exposed' PROVE SpentInTime'
    OBVIOUS
  <1>a. UNCHANGED <<hold, funded, pc, clear, begun, faults, aleg, fleg>> /\ btc' = btc + 1
    BY DEF MineBtc, driverVars, pollVars
  <1>b. /\ btc \in Nat /\ clear \in Nat /\ begun \in Nat
        /\ spend.at \in Nat /\ spend.confs \in Nat /\ spend.kind \in {"none", "claim", "refund"}
        /\ spend.fee \in {"low", "high"}
    BY DEF JobInv, TypeOK
  <1>c. /\ spend.kind = "refund" /\ spend.confs \in 1 .. Finality - 1
             => spend' = [spend EXCEPT !.confs = @ + 1]
        /\ ~(spend.kind = "refund" /\ spend.confs \in 1 .. Finality - 1) => spend' = spend
    BY DEF MineBtc
  <1>d. spend'.kind = spend.kind /\ spend'.fee = spend.fee /\ spend'.at = spend.at
    BY <1>c DEF JobInv, TypeOK
  <1>e. spend'.confs \in {spend.confs, spend.confs + 1}
    BY <1>c DEF JobInv, TypeOK
  <1>f. ~Buried
    BY <1>b, <1>d, <1>e, Heights DEF Exposed, Buried
  <1>g. Exposed
    BY <1>a, <1>f DEF Exposed
  <1>1. SpentInTime
    BY <1>g DEF RaceInv
  <1>2. /\ Wait \in Nat /\ Wait >= Outage /\ Wait >= ConfirmBudget /\ Limit \in Int
        /\ Limit + Wait + ConfirmBudget + Outage + Finality <= HoldExpiry /\ Limit' = Limit
    BY <1>a, LimitFacts, LimitStep DEF JobInv, RaceInv
  <1>3. btc + 1 <= clear + Outage
    BY <1>b, <1>g, ExposedIsServed, Heights DEF MineBtc
  <1>4. /\ spend.kind = "refund" /\ spend.confs = 0 /\ (spend.fee = "high" \/ PPublic)
           => btc + 1 <= spend.at + ConfirmBudget
    BY <1>b, Heights DEF MineBtc, InTime
  <1> USE <1>b, Heights
  <1>5. UnspentInTime'
    BY <1>1, <1>2, <1>3, <1>a, <1>d DEF SpentInTime, UnspentInTime, Acting, Passing
  <1>6. LowInTime'
    <2> SUFFICES ASSUME (spend.kind = "refund" /\ spend.confs = 0 /\ spend.fee = "low")'
                 PROVE  /\ spend'.at <= Limit /\ btc' <= Limit + Wait
                        /\ ~PPublic' => clear' <= Limit /\ btc' <= Limit + Outage
      BY <1>2 DEF LowInTime
    <2>1. spend.kind = "refund" /\ spend.confs = 0 /\ spend.fee = "low"
      BY <1>d, <1>e
    <2>2. spend.at <= Limit /\ (~PPublic => clear <= Limit)
      BY <1>1, <2>1 DEF SpentInTime, LowInTime
    <2>3. PPublic' = PPublic
      BY <1>a DEF PPublic
    <2>4. CASE PPublic
      BY <1>2, <1>4, <1>a, <1>d, <2>1, <2>2, <2>3, <2>4
    <2>5. CASE ~PPublic
      BY <1>2, <1>3, <1>a, <1>d, <2>1, <2>2, <2>3, <2>5
    <2> QED BY <2>4, <2>5
  <1>7. HighInTime'
    BY <1>1, <1>2, <1>4, <1>a, <1>d, <1>e DEF SpentInTime, HighInTime
  <1>8. MinedInTime'
    <2> SUFFICES ASSUME spend'.kind = "refund", spend'.confs > 0
                 PROVE  btc' + 1 - spend'.confs <= Limit + Wait + ConfirmBudget
      BY <1>2 DEF MinedInTime
    <2>1. spend.kind = "refund" /\ spend.confs < Finality
      BY <1>d, <1>f DEF Buried
    <2>2. spend.confs > 0
      BY <1>c, <2>1
    <2>3. spend'.confs = spend.confs + 1
      BY <1>c, <2>1, <2>2 DEF JobInv, TypeOK
    <2>4. btc + 1 - spend.confs <= Limit + Wait + ConfirmBudget
      BY <1>1, <2>1, <2>2 DEF SpentInTime, MinedInTime
    <2> QED BY <1>2, <1>a, <2>3, <2>4
  <1>9. ClaimedInTime'
    BY <1>1, <1>3, <1>a, <1>d DEF SpentInTime, ClaimedInTime, Acting
  <1> QED BY <1>5, <1>6, <1>7, <1>8, <1>9 DEF SpentInTime

\* The maker claims, or a refund is mined or evicted.
LEMMA SpendInTime ==
    ASSUME InTime, Calm, JobInv, TypeOK', RaceInv, Paced',
           MakerClaimsBtc \/ RefundMined \/ RefundEvicted
    PROVE  Exposed' => SpentInTime'
  <1> SUFFICES ASSUME Exposed' PROVE SpentInTime'
    OBVIOUS
  <1>a. UNCHANGED <<hold, funded, pc, clear, begun, aleg, fleg, btc>>
    BY DEF MakerClaimsBtc, RefundMined, RefundEvicted, driverVars, pollVars
  <1>b. /\ btc \in Nat /\ clear \in Nat /\ begun \in Nat
        /\ spend.at \in Nat /\ spend.confs \in Nat /\ spend.kind \in {"none", "claim", "refund"}
        /\ spend.fee \in {"low", "high"}
        /\ clear <= begun /\ begun <= btc
    BY DEF JobInv, TypeOK, RaceInv, Paced
  <1>g. Exposed
    <2>1. ~Buried
      <3>1. CASE MakerClaimsBtc
        BY <3>1 DEF MakerClaimsBtc
      <3>2. CASE RefundMined
        BY <3>2, <1>b, Heights DEF RefundMined, Calm, Buried
      <3>3. CASE RefundEvicted
        BY <3>3, <1>b, Heights DEF RefundEvicted, Buried
      <3> QED BY <3>1, <3>2, <3>3
    <2> QED BY <1>a, <2>1 DEF Exposed
  <1>1. SpentInTime
    BY <1>g DEF RaceInv
  <1>2. /\ Wait \in Nat /\ Wait >= Outage /\ Wait >= ConfirmBudget /\ Limit \in Int
        /\ Limit + Wait + ConfirmBudget + Outage + Finality <= HoldExpiry
    BY <1>a, LimitFacts DEF JobInv, RaceInv
  <1> USE <1>b, Heights
  <1>3. CASE MakerClaimsBtc
    <2>1. spend'.kind = "claim" /\ spend.kind # "claim"
      BY <1>3 DEF MakerClaimsBtc, Unspent
    <2>2. btc + Outage < HoldExpiry
      BY <1>g, <2>1, ClaimLeavesATick
    <2> QED BY <1>a, <2>1, <2>2 DEF SpentInTime, UnspentInTime, LowInTime, HighInTime,
                                  MinedInTime, ClaimedInTime
  <1>4. CASE RefundMined
    <2>1. spend.kind = "refund" /\ spend.confs = 0
      BY <1>4 DEF RefundMined, Calm
    <2>2. spend'.kind = "refund" /\ spend'.confs = 1
      BY <1>4 DEF RefundMined, JobInv, TypeOK
    <2>3. btc <= Limit + Wait + ConfirmBudget
      BY <1>1, <1>2, <2>1 DEF SpentInTime, LowInTime, HighInTime
    <2>4. faults' = faults
      BY <1>4 DEF RefundMined
    <2>5. Limit' = Limit
      BY <2>4, LimitStep DEF JobInv, RaceInv
    <2> QED BY <1>2, <1>a, <2>2, <2>3, <2>5
            DEF SpentInTime, UnspentInTime, LowInTime, HighInTime, MinedInTime, ClaimedInTime
  <1>5. CASE RefundEvicted
    <2>1. /\ spend.kind = "refund" /\ spend.confs = 0 /\ spend.fee = "low"
          /\ faults' = faults + 1 /\ spend'.kind = "none"
      BY <1>5 DEF RefundEvicted, Fault, Unspent
    <2>2. btc <= Limit + Wait
      BY <1>1, <2>1 DEF SpentInTime, LowInTime
    <2>3. Limit' = Limit + Outage + Wait
      BY <2>1, LimitStep DEF JobInv, RaceInv
    <2>4. btc <= Limit' - Outage
      BY <1>2, <2>2, <2>3
    <2> QED BY <1>2, <1>a, <2>1, <2>3, <2>4
            DEF SpentInTime, UnspentInTime, LowInTime, HighInTime, MinedInTime, ClaimedInTime
  <1> QED BY <1>3, <1>4, <1>5

\* A tick observes and decides.
LEMMA TickInTime ==
    ASSUME InTime, JobInv, Driven, TypeOK', RaceInv, Paced', DriverTicks
    PROVE  Exposed' => SpentInTime'
  <1> SUFFICES ASSUME Exposed' PROVE SpentInTime'
    OBVIOUS
  <1>a. /\ UNCHANGED <<btc, spend, hold, funded, aleg, fleg, faults>> /\ pc = "tick"
        /\ spend' = spend
    BY DEF DriverTicks, chainVars
  <1>b. /\ btc \in Nat /\ TBtc \in Nat /\ clear \in Nat /\ begun \in Nat
        /\ spend.at \in Nat /\ spend.confs \in Nat /\ spend.kind \in {"none", "claim", "refund"}
        /\ spend.fee \in {"low", "high"} /\ clear <= begun /\ begun <= btc
    BY HeightsAssumption DEF JobInv, TypeOK, RaceInv, Paced
  <1>c. PICK p \in BOOLEAN, s \in {"done", "failClosed", "tick", "fund", "settle", "refund",
                                   "bump"} :
           /\ s = IF hold = "settled" THEN "done"
                  ELSE IF job.htlc THEN FundedStep(p) ELSE UnfundedStep
           /\ spend.kind = "claim" => p
           /\ p => PPublic \/ spend.kind = "claim"
           /\ begun' \in {begun, btc}
           /\ clear' = IF s = "tick" THEN begun' ELSE clear
           /\ pc' = IF s \in {"done", "failClosed"} THEN "off" ELSE s
    BY Decision
  <1>d. funded > 0 /\ hold = "held" /\ ~Buried
    <2>1. pc' # "broadcast"
      BY <1>c
    <2> QED BY <1>a, <2>1 DEF Exposed, Buried
  <1>1. Exposed /\ SpentInTime
    BY <1>d DEF Exposed, RaceInv
  <1>2. /\ Wait \in Nat /\ Limit \in Int /\ HoldExpiry - HoldBuffer - 1 <= Limit - Outage
        /\ HoldExpiry - BumpWithin - 1 <= Limit - Outage
        /\ Limit + Wait + ConfirmBudget + Outage + Finality <= HoldExpiry /\ Limit' = Limit
    BY <1>a, LimitFacts, LimitStep DEF JobInv, RaceInv
  <1>3. begun' <= btc /\ begun' \in Nat
    BY <1>b, <1>c
  <1>e. clear' = clear \/ clear' = begun'
    BY <1>c
  <1>4. TBtc <= HoldExpiry - HoldBuffer
    BY <1>d, HeightsAssumption DEF JobInv, Timed, TypeOK, RaceInv, Gated
  <1>f. ASSUME NEW x \in Nat, NEW y \in Nat, x <= y, y + Outage < HoldExpiry
        PROVE  x + Outage < HoldExpiry
    BY <1>f, Heights
  <1> USE Heights
  <1>5. CASE spend.kind = "none"
    <2>1. clear' # clear \/ Passing' => btc <= Limit - Outage
      <3>1. CASE job.htlc
        <4>1. s \in {"settle", "refund"} \/ btc < TBtc
          BY <1>b, <1>c, <1>d, <1>5, <3>1 DEF FundedStep, Buried
        <4>2. s \in {"settle", "refund"} => clear' = clear /\ ~Passing'
          BY <1>c DEF Acting, Passing
        <4> QED BY <1>2, <1>4, <1>b, <4>1, <4>2
      <3>2. CASE ~job.htlc
        <4>1. s = "failClosed" \/ (s = "fund" /\ btc < HoldExpiry - HoldBuffer)
          BY <1>b, <1>c, <1>d, <3>2 DEF UnfundedStep
        <4>2. s = "failClosed" => clear' = clear /\ ~Passing'
          BY <1>c DEF Acting, Passing
        <4> QED BY <1>2, <1>b, <4>1, <4>2
      <3> QED BY <3>1, <3>2
    <2>2. btc <= Limit /\ clear <= Limit - Outage
      BY <1>1, <1>5 DEF SpentInTime, UnspentInTime
    <2>3. clear' <= Limit - Outage /\ (Passing' => begun' <= Limit - Outage)
      BY <1>2, <1>3, <1>b, <1>e, <2>1, <2>2
    <2> QED BY <1>2, <1>5, <1>a, <2>2, <2>3
            DEF SpentInTime, UnspentInTime, LowInTime, HighInTime, MinedInTime, ClaimedInTime
  <1>6. CASE spend.kind = "claim"
    <2>1. clear' # clear \/ Acting' => btc + Outage < HoldExpiry
      <3>1. CASE job.htlc
        <4>1. s = "settle"
          BY <1>c, <1>d, <1>6, <3>1 DEF FundedStep, Buried
        <4> QED BY <1>c, <4>1 DEF Acting
      <3>2. CASE ~job.htlc
        <4>1. s = "failClosed" \/ (s = "fund" /\ btc < HoldExpiry - HoldBuffer)
          BY <1>b, <1>c, <1>d, <3>2 DEF UnfundedStep
        <4>2. s = "failClosed" => clear' = clear /\ ~Acting'
          BY <1>c DEF Acting
        <4> QED BY <1>2, <1>b, <4>1, <4>2
      <3> QED BY <3>1, <3>2
    <2>2. btc < HoldExpiry /\ clear + Outage < HoldExpiry
      BY <1>1, <1>6 DEF SpentInTime, ClaimedInTime
    <2>3. clear' + Outage < HoldExpiry /\ (Acting' => begun' + Outage < HoldExpiry)
      <3>1. CASE btc + Outage < HoldExpiry
        <4>1. begun' + Outage < HoldExpiry
          BY <1>3, <1>b, <1>f, <3>1, Zenon
        <4> QED BY <1>e, <2>2, <4>1
      <3>2. CASE clear' = clear /\ ~Acting'
        BY <2>2, <3>2
      <3> QED BY <2>1, <3>1, <3>2
    <2> QED BY <1>2, <1>6, <1>a, <2>2, <2>3
            DEF SpentInTime, UnspentInTime, LowInTime, HighInTime, MinedInTime, ClaimedInTime
  <1>7. CASE spend.kind = "refund"
    <2>1. job.htlc
      BY <1>7 DEF Driven
    <2>2. spend.confs = 0 /\ ~PPublic /\ clear' # clear => btc <= Limit
      <3> SUFFICES ASSUME spend.confs = 0, ~PPublic, s = "tick" PROVE btc <= Limit
        BY <1>c
      <3>1. ~p
        BY <1>7, <1>c
      <3>2. ~(HoldExpiry - btc <= BumpWithin)
        BY <1>7, <1>c, <1>d, <2>1, <3>1 DEF FundedStep, Buried
      <3> QED BY <1>2, <1>b, <3>2
    <2>3. PPublic' = PPublic
      BY <1>a DEF PPublic
    <2>4. LowInTime'
      <3> SUFFICES ASSUME spend.confs = 0, spend.fee = "low"
                   PROVE  /\ spend.at <= Limit /\ btc <= Limit + Wait
                          /\ ~PPublic => clear' <= Limit /\ btc <= Limit + Outage
        BY <1>2, <1>7, <1>a, <2>3 DEF LowInTime
      <3>1. /\ spend.at <= Limit /\ btc <= Limit + Wait
            /\ ~PPublic => clear <= Limit /\ btc <= Limit + Outage
        BY <1>1, <1>7 DEF SpentInTime, LowInTime
      <3> QED BY <1>2, <1>3, <1>b, <1>e, <2>2, <3>1 DEF PPublic
    <2>5. HighInTime' /\ MinedInTime'
      BY <1>1, <1>2, <1>a DEF SpentInTime, HighInTime, MinedInTime
    <2> QED BY <1>7, <1>a, <2>4, <2>5 DEF SpentInTime, UnspentInTime, ClaimedInTime
  <1> QED BY <1>5, <1>6, <1>7, <1>b

\* The refund is sent, or its fee raised.
LEMMA RefundInTime ==
    ASSUME InTime, JobInv, Driven, TypeOK', RaceInv, Paced', DriverSendsRefund \/ DriverBumps
    PROVE  Exposed' => SpentInTime'
  <1> SUFFICES ASSUME Exposed' PROVE SpentInTime'
    OBVIOUS
  <1>a. /\ UNCHANGED <<btc, hold, funded, aleg, fleg, faults, begun>> /\ pc' = "tick"
        /\ clear' = begun
    BY DEF DriverSendsRefund, DriverBumps, Ticked
  <1>b. /\ btc \in Nat /\ clear \in Nat /\ begun \in Nat
        /\ spend.at \in Nat /\ spend.confs \in Nat /\ spend.kind \in {"none", "claim", "refund"}
        /\ spend.fee \in {"low", "high"} /\ clear <= begun /\ begun <= btc /\ spend.at <= btc
    BY DEF JobInv, TypeOK, RaceInv, Paced
  <1>c. spend' = spend \/ (spend.kind = "none" \/ spend.confs = 0)
    BY DEF DriverSendsRefund, DriverBumps
  <1>d. funded > 0 /\ hold = "held" /\ ~Buried
    BY <1>a, <1>b, <1>c, Heights DEF Exposed, Buried
  <1>1. Exposed /\ SpentInTime
    BY <1>d DEF Exposed, RaceInv
  <1>2. /\ Wait \in Nat /\ Wait >= Outage /\ Wait >= ConfirmBudget /\ Limit \in Int
        /\ Limit + Wait + ConfirmBudget + Outage + Finality <= HoldExpiry /\ Limit' = Limit
    BY <1>a, LimitFacts, LimitStep DEF JobInv, RaceInv
  <1>3. PPublic' = PPublic /\ ~Acting' /\ ~Passing'
    BY <1>a DEF PPublic, Acting, Passing
  <1> USE <1>b, Heights
  <1>4. CASE DriverSendsRefund
    <2>1. pc = "refundSend" /\ spend.kind # "refund"
      BY <1>4 DEF DriverSendsRefund, Driven
    <2>2. CASE spend.kind = "none"
      <3>1. PICK fee \in {"low", "high"} :
               spend' = [kind |-> "refund", confs |-> 0, fee |-> fee, at |-> btc]
        BY <1>4, <2>2 DEF DriverSendsRefund
      <3>2. spend'.kind = "refund" /\ spend'.confs = 0 /\ spend'.at = btc
        BY <3>1
      <3>3. btc <= Limit
        BY <1>1, <2>2 DEF SpentInTime, UnspentInTime
      <3> QED BY <1>2, <1>a, <3>2, <3>3
              DEF SpentInTime, UnspentInTime, LowInTime, HighInTime, MinedInTime, ClaimedInTime
    <2>3. CASE spend.kind = "claim"
      <3>1. spend' = spend /\ Acting
        BY <1>4, <2>1, <2>3 DEF DriverSendsRefund, Acting
      <3> QED BY <1>1, <1>2, <1>3, <1>a, <2>3, <3>1
              DEF SpentInTime, UnspentInTime, LowInTime, HighInTime, MinedInTime, ClaimedInTime
    <2> QED BY <2>1, <2>2, <2>3
  <1>5. CASE DriverBumps
    <2>1. pc = "bump" /\ Acting /\ Passing
      BY <1>5 DEF DriverBumps, Acting, Passing
    <2>2. CASE spend.kind = "refund" /\ spend.confs = 0 /\ spend.fee = "low" /\ btc > spend.at
      <3>1. spend'.kind = "refund" /\ spend'.confs = 0 /\ spend'.fee = "high" /\ spend'.at = btc
        BY <1>5, <2>2 DEF DriverBumps, JobInv, TypeOK
      <3>2. btc <= Limit + Wait
        BY <1>1, <2>2 DEF SpentInTime, LowInTime
      <3> QED BY <1>2, <1>a, <3>1, <3>2
              DEF SpentInTime, UnspentInTime, LowInTime, HighInTime, MinedInTime, ClaimedInTime
    <2>3. CASE spend' = spend /\ ~(spend.kind = "refund" /\ spend.confs = 0 /\ spend.fee = "low")
      BY <1>1, <1>2, <1>3, <1>a, <2>1, <2>3
         DEF SpentInTime, UnspentInTime, LowInTime, HighInTime, MinedInTime, ClaimedInTime
    <2>4. CASE spend' = spend /\ spend.kind = "refund" /\ spend.confs = 0 /\ spend.fee = "low"
               /\ btc <= spend.at
      <3>1. /\ spend.at <= Limit /\ btc <= Limit + Wait
            /\ ~PPublic => btc <= Limit + Outage
        BY <1>1, <2>4 DEF SpentInTime, LowInTime
      <3>2. LowInTime'
        BY <1>2, <1>3, <1>a, <2>4, <3>1 DEF LowInTime
      <3> QED BY <1>a, <2>4, <3>2
              DEF SpentInTime, UnspentInTime, HighInTime, MinedInTime, ClaimedInTime
    <2> QED BY <1>5, <2>2, <2>3, <2>4 DEF DriverBumps
  <1> QED BY <1>4, <1>5

\* Every step keeps the race won.
LEMMA RaceStep ==
    ASSUME InTime, Calm, JobInv, RaceInv, [Next]_vars
    PROVE  RaceInv'
  <1>0. JobInv' /\ TypeOK' /\ Paced' /\ Driven'
    BY InvStep, PacedStep, DrivenStep DEF JobInv, RaceInv
  <1>a. TypeOK /\ Paced /\ Driven /\ HeldThrough
    BY DEF JobInv, RaceInv
  <1>b. btc \in Nat /\ TBtc \in Nat /\ seq \in Nat /\ TSeq \in Nat /\ funded \in Nat
    BY <1>a, HeightsAssumption DEF TypeOK
  <1> USE <1>0, <1>a
      DEF chainVars, driverVars, pollVars, Exposed, Buried, Acting, Passing, PPublic
  <1> DEFINE Race == HeldThrough /\ (Exposed => SpentInTime)
  <1>1. Gated'
    <2>1. CASE DriverGates
      <3>1. cover' = cover \/ TBtc <= HoldExpiry - HoldBuffer
        BY <2>1 DEF DriverGates, FundGate
      <3> QED BY <2>1, <3>1 DEF DriverGates, Gated, RaceInv
    <2>2. CASE ~DriverGates
      <3>1. TBtc' = TBtc /\ cover' = cover
        BY <2>2 DEF Next, Chains, Driver, Process, MineBtc, MineSeq, HoldArrives, HoldLapses,
             MakerLocksAsset, TakerClaims, MakerRefundsAsset, MakerClaimsBtc, RefundMined,
             RefundEvicted, DriverTicks, DriverDecidesFront, DriverFronts,
             DriverBroadcastsFront, DriverDeliversFront, DriverAdopts, DriverBroadcasts,
             DriverRecordsHtlc, DriverRelays, DriverGetsMakerLeg, DriverHandsOff,
             DriverRelayFails, DriverSettles, DriverRefunds, DriverSendsRefund, DriverBumps,
             DriverThrows, SessionEnds, ProcessStops, Boots, Reaped, vars
      <3> QED BY <3>1 DEF Gated, RaceInv
    <2> QED BY <2>1, <2>2
  <1>3. ASSUME MineBtc
        PROVE  Race'
    <2>1. HeldThrough'
      BY <1>3, <1>0, Heights DEF MineBtc, HeldThrough, TypeOK
    <2> QED BY <1>3, <2>1, BlockInTime
  <1>4. ASSUME HoldArrives
        PROVE  Race'
    <2>1. ~Exposed' /\ HeldThrough'
      <3>1. funded = 0 /\ pc # "broadcast"
        BY <1>4 DEF HoldArrives, HeldThrough
      <3> QED BY <1>4, <3>1 DEF HoldArrives, HeldThrough
    <2> QED BY <2>1
  <1>5. ASSUME HoldLapses
        PROVE  Race'
    <2>1. btc >= HoldExpiry /\ hold = "held" /\ hold' = "lapsed" /\ UNCHANGED <<funded, pc, spend>>
      BY <1>5 DEF HoldLapses
    <2>2. ~Exposed
      BY <1>b, <2>1, ExposedHasTime, Heights
    <2>3. ~Exposed' /\ HeldThrough'
      BY <1>b, <2>1, <2>2 DEF HeldThrough, Driven
    <2> QED BY <2>3
  <1>6. ASSUME MakerClaimsBtc \/ RefundMined \/ RefundEvicted
        PROVE  Race'
    <2>1. HeldThrough'
      BY <1>6, Heights DEF MakerClaimsBtc, RefundMined, RefundEvicted, HeldThrough, Calm, TypeOK
    <2> QED BY <1>6, <2>1, SpendInTime
  <1>7. ASSUME DriverTicks
        PROVE  Race'
    <2>1. HeldThrough'
      <3>1. pc' # "broadcast"
        BY <1>7, Decision
      <3>2. UNCHANGED <<hold, funded, spend>>
        BY <1>7 DEF DriverTicks
      <3> QED BY <3>1, <3>2 DEF HeldThrough
    <2> QED BY <1>7, <2>1, TickInTime
  <1>8. ASSUME DriverGates /\ FundGate
        PROVE  Race'
    <2>1. /\ hold = "held" /\ btc < TBtc /\ TBtc <= HoldExpiry - HoldBuffer
          /\ pc' = "broadcast" /\ UNCHANGED <<btc, hold, funded, spend, clear, begun, faults>>
      BY <1>8 DEF DriverGates, FundGate
    <2>2. spend.kind = "none"
      <3>1. funded = 0
        BY <1>8, <1>b DEF DriverGates, Located, JobInv, OneMode
      <3> QED BY <3>1 DEF JobInv, Keyed
    <2>3. btc <= Limit - Outage /\ Limit \in Int /\ Limit' = Limit
      BY <1>b, <2>1, LimitFacts, LimitStep, Heights
    <2>4. begun <= Limit - Outage /\ clear <= Limit - Outage /\ btc <= Limit
      BY <1>b, <2>3, Heights DEF Paced, TypeOK
    <2>5. SpentInTime'
      BY <2>1, <2>2, <2>3, <2>4
         DEF SpentInTime, UnspentInTime, LowInTime, HighInTime, MinedInTime, ClaimedInTime
    <2>6. HeldThrough'
      BY <2>1 DEF HeldThrough
    <2> QED BY <2>5, <2>6
  <1>9. ASSUME DriverBroadcasts
        PROVE  Race'
    <2>1. hold = "held"
      BY <1>9 DEF DriverBroadcasts, HeldThrough
    <2>2. /\ pc = "broadcast" /\ pc' = "record" /\ UNCHANGED <<btc, spend, clear, begun, faults>>
          /\ UNCHANGED <<hold, aleg, fleg>>
      BY <1>9 DEF DriverBroadcasts
    <2>3. HeldThrough'
      BY <2>1, <2>2 DEF HeldThrough
    <2>4. Exposed' => Exposed
      BY <2>2
    <2>5. Exposed' => SpentInTime'
      BY <2>2, <2>4, Still
    <2> QED BY <2>3, <2>5
  <1>10. ASSUME DriverDeliversFront \/ DriverHandsOff \/ DriverRelayFails
        PROVE  Race'
    <2>1. /\ pc \in {"frontRecord", "verify"} /\ pc' = "tick" /\ clear' = begun
          /\ UNCHANGED <<btc, hold, funded, spend, begun, faults, aleg, fleg>>
      BY <1>10 DEF DriverDeliversFront, DriverHandsOff, DriverRelayFails, Ticked
    <2>2. HeldThrough'
      BY <2>1 DEF HeldThrough
    <2>3. spend.kind # "refund"
      BY <2>1 DEF Driven
    <2>4. Exposed' => Exposed
      BY <2>1
    <2>5. Exposed' => SpentInTime'
      BY <2>1, <2>3, <2>4, Passes
    <2> QED BY <2>2, <2>5
  <1>11. ASSUME DriverSettles
        PROVE  Race'
    <2>1. hold = "held" => hold' = "settled"
      BY <1>11 DEF DriverSettles
    <2>2. hold # "held" => hold' = hold
      BY <1>11 DEF DriverSettles
    <2>3. pc' = "tick" /\ UNCHANGED <<funded, spend>>
      BY <1>11 DEF DriverSettles, Ticked
    <2>4. ~Exposed' /\ HeldThrough'
      BY <2>1, <2>2, <2>3 DEF HeldThrough
    <2> QED BY <2>4
  <1>12. ASSUME DriverRefunds
        PROVE  Race'
    <2>1. pc = "refund" /\ UNCHANGED <<btc, hold, funded, spend, begun, faults, aleg>>
      BY <1>12 DEF DriverRefunds, Ticked
    <2>2. funded > 0 /\ job.front = "declined" /\ spend.kind # "refund"
      BY <2>1 DEF Driven, JobInv, Keyed, OneMode
    <2>3. fleg' = fleg
      BY <1>12, <2>2 DEF DriverRefunds
    <2>4. CASE spend.kind = "none"
      <3>1. pc' = "refundSend" /\ clear' = clear
        BY <1>12, <2>2, <2>4 DEF DriverRefunds
      <3>2. HeldThrough' /\ (Exposed' => Exposed)
        BY <2>1, <3>1 DEF HeldThrough
      <3>3. Exposed' => SpentInTime'
        BY <2>1, <2>3, <3>1, <3>2, Still
      <3> QED BY <3>2, <3>3
    <2>5. CASE spend.kind # "none"
      <3>1. pc' = "tick" /\ clear' = begun
        BY <1>12, <2>5 DEF DriverRefunds, Ticked
      <3>2. HeldThrough' /\ (Exposed' => Exposed)
        BY <2>1, <3>1 DEF HeldThrough
      <3>3. Exposed' => SpentInTime'
        BY <2>1, <2>2, <2>3, <2>5, <3>1, <3>2, Passes
      <3> QED BY <3>2, <3>3
    <2> QED BY <2>4, <2>5
  <1>13. ASSUME DriverSendsRefund \/ DriverBumps
        PROVE  Race'
    <2>1. HeldThrough'
      BY <1>13, Heights DEF DriverSendsRefund, DriverBumps, HeldThrough, Ticked, TypeOK
    <2> QED BY <1>13, <2>1, RefundInTime
  <1>14. ASSUME \/ MineSeq \/ MakerLocksAsset \/ MakerRefundsAsset \/ DriverDecidesFront
                \/ DriverFronts \/ DriverBroadcastsFront \/ DriverAdopts
                \/ (DriverGates /\ ~FundGate) \/ DriverRecordsHtlc
                \/ DriverRelays \/ DriverGetsMakerLeg \/ DriverThrows \/ SessionEnds
                \/ ProcessStops \/ Boots \/ Reaped \/ UNCHANGED vars
         PROVE  Race'
    <2>1. UNCHANGED <<btc, hold, funded, spend, clear, begun>>
      BY <1>14
         DEF MineSeq, MakerLocksAsset, MakerRefundsAsset, DriverDecidesFront, DriverFronts,
             DriverBroadcastsFront, DriverAdopts, DriverGates, DriverRecordsHtlc,
             DriverRelays, DriverGetsMakerLeg, DriverThrows, SessionEnds, ProcessStops,
             Boots, Reaped, vars
    <2>2. PPublic' = PPublic
      <3>1. CASE MakerLocksAsset \/ MakerRefundsAsset
        BY <3>1 DEF MakerLocksAsset, MakerRefundsAsset
      <3>2. CASE DriverBroadcastsFront
        BY <3>2 DEF DriverBroadcastsFront
      <3>3. CASE aleg' = aleg /\ fleg' = fleg
        BY <3>3
      <3> QED
        BY <1>14, <3>1, <3>2, <3>3
           DEF MineSeq, DriverDecidesFront, DriverFronts, DriverAdopts, DriverGates,
               DriverRecordsHtlc, DriverRelays, DriverGetsMakerLeg, DriverThrows,
               SessionEnds, ProcessStops, Boots, Reaped, vars
    <2>3. faults' \in {faults, faults + 1}
      BY <1>14
         DEF MineSeq, MakerLocksAsset, MakerRefundsAsset, DriverDecidesFront, DriverFronts,
             DriverBroadcastsFront, DriverAdopts, DriverGates, DriverRecordsHtlc,
             DriverRelays, DriverGetsMakerLeg, DriverThrows, SessionEnds, ProcessStops,
             Boots, Reaped, vars, Fault
    <2>4. \/ pc' = pc \/ pc' \in {"tick", "off", "down"}
          \/ pc \in {"fund", "front", "record"} /\ pc' \in {"front", "frontRecord", "relay"}
          \/ pc \in {"fund", "relay"} /\ pc' = "verify"
      BY <1>14
         DEF MineSeq, MakerLocksAsset, MakerRefundsAsset, DriverDecidesFront, DriverFronts,
             DriverBroadcastsFront, DriverAdopts, DriverGates, DriverRecordsHtlc,
             DriverRelays, DriverGetsMakerLeg, DriverThrows, SessionEnds, ProcessStops,
             Boots, Reaped, vars
    <2>5. (Acting' => Acting) /\ (Passing' => Passing)
      BY <2>4
    <2>6. HeldThrough' /\ (Exposed' => Exposed)
      BY <2>1, <2>4 DEF HeldThrough
    <2>7. Exposed' => SpentInTime'
      BY <2>1, <2>2, <2>3, <2>5, <2>6, Still
    <2> QED BY <2>6, <2>7
  <1>15. ASSUME TakerClaims
        PROVE  Race'
    <2>1. /\ PPublic' /\ UNCHANGED <<btc, hold, funded, spend, clear, begun, faults, pc>>
      BY <1>15 DEF TakerClaims
    <2>2. HeldThrough' /\ (Exposed' => Exposed)
      BY <2>1 DEF HeldThrough
    <2>3. Exposed' => SpentInTime'
      BY <2>1, <2>2, Still
    <2> QED BY <2>2, <2>3
  <1> HIDE DEF Race
  <1>16. Race'
    BY <1>3, <1>4, <1>5, <1>6, <1>7, <1>8, <1>9, <1>10, <1>11, <1>12, <1>13, <1>14, <1>15
       DEF Next, Chains, Driver, Process
  <1> QED BY <1>1, <1>16 DEF Race, RaceInv

LEMMA RaceAlways == ASSUME Calm, InTime PROVE Spec => [](JobInv /\ RaceInv)
  <1>1. Init => JobInv /\ RaceInv
    BY InitInv, RaceInit
  <1>2. JobInv /\ RaceInv /\ [Next]_vars => (JobInv /\ RaceInv)'
    BY InvStep, RaceStep
  <1> QED BY <1>1, <1>2, PTL DEF Spec

-----------------------------------------------------------------------------
(* The promise of the intermediary                                          *)

LegFront ==
    CASE funded = 0 -> "none"
      [] spend.kind = "claim" -> "paid"
      [] Buried -> "back"
      [] OTHER -> "out"

LegRecoup ==
    CASE hold = "none" -> "none"
      [] hold = "held" -> "secured"
      [] hold = "settled" -> "taken"
      [] hold = "lapsed" -> "released"

\* The cases of the front exclude each other.
LEMMA FrontCases ==
    ASSUME TypeOK, Keyed
    PROVE  /\ LegFront = "none" <=> funded = 0
           /\ LegFront = "paid" <=> spend.kind = "claim"
           /\ LegFront = "back" <=> Buried
           /\ LegFront = "out" <=> funded > 0 /\ spend.kind # "claim" /\ ~Buried
  <1>1. funded \in Nat /\ (funded = 0 => spend.kind = "none")
    BY DEF TypeOK, Keyed
  <1>2. Buried => spend.kind = "refund"
    BY DEF Buried
  <1>3. CASE funded = 0
    <2>1. LegFront = "none"
      BY <1>1, <1>2, <1>3 DEF LegFront
    <2> QED BY <1>1, <1>2, <1>3, <2>1
  <1>4. CASE funded > 0 /\ spend.kind = "claim"
    <2>1. LegFront = "paid"
      BY <1>1, <1>2, <1>4 DEF LegFront
    <2> QED BY <1>1, <1>2, <1>4, <2>1
  <1>5. CASE funded > 0 /\ Buried
    <2>1. LegFront = "back"
      BY <1>1, <1>2, <1>5 DEF LegFront
    <2> QED BY <1>1, <1>2, <1>5, <2>1
  <1>6. CASE funded > 0 /\ spend.kind # "claim" /\ ~Buried
    <2>1. LegFront = "out"
      BY <1>1, <1>6 DEF LegFront
    <2> QED BY <1>1, <1>6, <2>1
  <1> QED BY <1>1, <1>3, <1>4, <1>5, <1>6

LEMMA RecoupCases ==
    ASSUME TypeOK
    PROVE  /\ LegRecoup = "none" <=> hold = "none"
           /\ LegRecoup = "secured" <=> hold = "held"
           /\ LegRecoup = "taken" <=> hold = "settled"
           /\ LegRecoup = "released" <=> hold = "lapsed"
  BY DEF TypeOK, LegRecoup

\* Every step of the bridge is one of the abstract leg, or leaves that as it is.
LEMMA LegStep ==
    ASSUME Calm, InTime, JobInv, RaceInv, [Next]_vars
    PROVE  \/ LegFront' = LegFront /\ LegRecoup' = LegRecoup
           \/ /\ LegFront' = LegFront
              /\ \/ LegRecoup = "none" /\ LegRecoup' = "secured"
                 \/ LegRecoup = "secured" /\ LegRecoup' = "taken" /\ LegFront \in {"out", "paid"}
                 \/ /\ LegRecoup = "secured" /\ LegRecoup' = "released"
                    /\ LegFront \in {"none", "back"}
           \/ /\ LegRecoup' = LegRecoup
              /\ \/ LegFront = "none" /\ LegRecoup = "secured" /\ LegFront' = "out"
                 \/ LegFront = "out" /\ LegRecoup # "released" /\ LegFront' = "paid"
                 \/ LegFront = "out" /\ LegRecoup # "taken" /\ LegFront' = "back"
  <1> DEFINE Goal ==
           \/ LegFront' = LegFront /\ LegRecoup' = LegRecoup
           \/ /\ LegFront' = LegFront
              /\ \/ LegRecoup = "none" /\ LegRecoup' = "secured"
                 \/ LegRecoup = "secured" /\ LegRecoup' = "taken" /\ LegFront \in {"out", "paid"}
                 \/ /\ LegRecoup = "secured" /\ LegRecoup' = "released"
                    /\ LegFront \in {"none", "back"}
           \/ /\ LegRecoup' = LegRecoup
              /\ \/ LegFront = "none" /\ LegRecoup = "secured" /\ LegFront' = "out"
                 \/ LegFront = "out" /\ LegRecoup # "released" /\ LegFront' = "paid"
                 \/ LegFront = "out" /\ LegRecoup # "taken" /\ LegFront' = "back"
  <1>a. JobInv' /\ RaceInv'
    BY InvStep, RaceStep
  <1>b. TypeOK /\ Keyed /\ OneEnd /\ HeldThrough /\ Driven
    BY DEF JobInv, RaceInv
  <1>c. TypeOK' /\ Keyed' /\ OneEnd' /\ HeldThrough'
    BY <1>a DEF JobInv, RaceInv
  <1>d. /\ LegFront = "none" <=> funded = 0
        /\ LegFront = "paid" <=> spend.kind = "claim"
        /\ LegFront = "back" <=> Buried
        /\ LegFront = "out" <=> funded > 0 /\ spend.kind # "claim" /\ ~Buried
    BY <1>b, FrontCases
  <1>e. /\ LegRecoup = "none" <=> hold = "none"
        /\ LegRecoup = "secured" <=> hold = "held"
        /\ LegRecoup = "taken" <=> hold = "settled"
        /\ LegRecoup = "released" <=> hold = "lapsed"
    BY <1>b, RecoupCases
  <1>f. UNCHANGED <<funded, spend>> => LegFront' = LegFront
    BY DEF LegFront, Buried
  <1>g. UNCHANGED hold => LegRecoup' = LegRecoup
    BY DEF LegRecoup
  <1>h. funded \in Nat /\ spend.confs \in Nat /\ spend.kind \in {"none", "claim", "refund"}
    BY <1>b DEF TypeOK
  <1>1. ASSUME MineBtc \/ RefundMined PROVE Goal
    <2>1. UNCHANGED <<funded, hold>>
      BY <1>1 DEF MineBtc, RefundMined
    <2>2. spend'.kind = spend.kind /\ (Buried => Buried')
      <3>1. CASE MineBtc
        BY <3>1, <1>b, <1>h, Heights DEF MineBtc, Buried, TypeOK
      <3>2. CASE RefundMined
        BY <3>2, <1>b, <1>h, Heights DEF RefundMined, Buried, TypeOK, Calm
      <3> QED BY <1>1, <3>1, <3>2
    <2>3. CASE Buried' <=> Buried
      <3>1. LegFront' = LegFront
        BY <2>1, <2>2, <2>3 DEF LegFront
      <3> QED BY <1>g, <2>1, <3>1
    <2>4. CASE Buried' /\ ~Buried
      <3>1. spend'.kind = "refund" /\ spend.kind = "refund" /\ funded > 0 /\ hold # "settled"
        BY <1>b, <1>h, <2>2, <2>4 DEF Buried, Keyed, OneEnd
      <3>2. LegFront' = "back"
        BY <2>1, <2>4, <3>1 DEF LegFront
      <3> QED BY <1>d, <1>e, <1>g, <2>1, <2>4, <3>1, <3>2
    <2> QED BY <2>2, <2>3, <2>4
  <1>2. ASSUME HoldArrives \/ HoldLapses \/ DriverSettles PROVE Goal
    <2>1. UNCHANGED <<funded, spend>>
      BY <1>2 DEF HoldArrives, HoldLapses, DriverSettles
    <2>2. CASE HoldArrives
      <3>1. hold = "none" /\ hold' = "held"
        BY <2>2 DEF HoldArrives
      <3>2. LegRecoup' = "secured"
        BY <3>1 DEF LegRecoup
      <3> QED BY <1>e, <1>f, <2>1, <3>1, <3>2
    <2>3. CASE HoldLapses
      <3>1. hold = "held" /\ hold' = "lapsed"
        BY <2>3 DEF HoldLapses
      <3>2. LegRecoup' = "released"
        BY <3>1 DEF LegRecoup
      <3>3. funded = 0 \/ Buried
        BY <1>c, <2>1, <3>1 DEF HeldThrough, Buried
      <3> QED BY <1>d, <1>e, <1>f, <2>1, <3>1, <3>2, <3>3
    <2>4. CASE DriverSettles
      <3>1. pc = "settle" /\ hold' = IF hold = "held" THEN "settled" ELSE hold
        BY <2>4 DEF DriverSettles
      <3>2. CASE hold = "held"
        <4>1. LegRecoup' = "taken"
          BY <3>1, <3>2 DEF LegRecoup
        <4>2. funded > 0 /\ ~Buried
          BY <1>b, <3>1 DEF Driven, OneEnd, Buried
        <4> QED BY <1>d, <1>e, <1>f, <2>1, <3>2, <4>1, <4>2
      <3>3. CASE hold # "held"
        BY <1>f, <1>g, <2>1, <3>1, <3>3
      <3> QED BY <3>2, <3>3
    <2> QED BY <1>2, <2>2, <2>3, <2>4
  <1>3. ASSUME MakerClaimsBtc PROVE Goal
    <2>1. /\ funded > 0 /\ spend.kind # "claim" /\ ~Buried /\ spend'.kind = "claim"
          /\ UNCHANGED <<funded, hold>>
      BY <1>3 DEF MakerClaimsBtc, Unspent
    <2>2. LegFront = "out" /\ LegFront' = "paid" /\ hold # "lapsed"
      <3>1. ~Buried' /\ funded' # 0
        BY <1>h, <2>1 DEF Buried
      <3>2. LegFront' = "paid"
        BY <2>1, <3>1 DEF LegFront
      <3> QED BY <1>b, <1>d, <1>h, <2>1, <3>2 DEF HeldThrough
    <2> QED BY <1>e, <1>g, <2>1, <2>2
  <1>4. ASSUME DriverBroadcasts PROVE Goal
    <2>1. /\ hold = "held" /\ UNCHANGED <<hold, spend>>
          /\ funded' = IF funded > 0 THEN funded ELSE funded + 1
      BY <1>4, <1>b DEF DriverBroadcasts, HeldThrough, Located
    <2>2. CASE funded > 0
      BY <1>f, <1>g, <2>1, <2>2
    <2>3. CASE funded = 0
      <3>1. funded' = 1 /\ spend'.kind = "none"
        BY <1>b, <2>1, <2>3 DEF Keyed
      <3>2. LegFront' = "out"
        BY <3>1 DEF LegFront, Buried
      <3> QED BY <1>d, <1>e, <1>g, <2>1, <2>3, <3>2
    <2> QED BY <1>h, <2>2, <2>3
  <1>5. ASSUME RefundEvicted \/ DriverSendsRefund \/ DriverBumps PROVE Goal
    <2>1. UNCHANGED <<funded, hold>>
      BY <1>5 DEF RefundEvicted, DriverSendsRefund, DriverBumps
    <2>2. /\ spend'.kind = "claim" <=> spend.kind = "claim"
          /\ Buried' <=> Buried
      <3>1. CASE RefundEvicted
        BY <3>1, <1>h, Heights DEF RefundEvicted, Unspent, Buried
      <3>2. CASE DriverSendsRefund
        BY <3>2, <1>h, Heights DEF DriverSendsRefund, Buried
      <3>3. CASE DriverBumps
        BY <3>3, <1>b, <1>h, Heights DEF DriverBumps, Buried, TypeOK
      <3> QED BY <1>5, <3>1, <3>2, <3>3
    <2>3. LegFront' = LegFront
      BY <2>1, <2>2 DEF LegFront
    <2> QED BY <1>g, <2>1, <2>3
  <1>6. ASSUME UNCHANGED <<funded, spend, hold>> PROVE Goal
    BY <1>6, <1>f, <1>g
  <1> HIDE DEF Goal
  <1>7. Goal
    BY <1>1, <1>2, <1>3, <1>4, <1>5, <1>6
       DEF Next, Chains, Driver, Process, MineSeq, MakerLocksAsset, TakerClaims,
           MakerRefundsAsset, DriverTicks, DriverDecidesFront, DriverFronts,
           DriverBroadcastsFront, DriverDeliversFront, DriverAdopts, DriverGates,
           DriverRecordsHtlc, DriverRelays, DriverGetsMakerLeg, DriverHandsOff,
           DriverRelayFails, DriverRefunds, DriverThrows, SessionEnds, ProcessStops, Boots,
           Reaped, vars, chainVars
  <1> QED BY <1>7 DEF Goal

-----------------------------------------------------------------------------
(* What a job promises                                                      *)

\* A job funds one HTLC, with its refund key on disk first, never besides a front; it is
\* not closed before the HTLC is resolved, and does not both settle and refund
\* (lsp-server.mjs runPayerFundOnce and decideAssetFront, bridge-driver.mjs).
THEOREM JobSound == ASSUME Calm PROVE Spec => []JobIsSound
  <1>1. JobInv => JobIsSound
    <2> SUFFICES ASSUME JobInv PROVE JobIsSound OBVIOUS
    <2> USE DEF JobInv
    <2>1. FundedOnce
      BY DEF FundedOnce, Keyed
    <2>2. RefundKeyDurable
      <3>1. disk.intent = job.intent
        BY DEF Recorded, TypeOK, Jobs
      <3> QED BY <3>1 DEF RefundKeyDurable, OneMode
    <2>3. FrontExcludesFund
      BY DEF FrontExcludesFund, OneMode
    <2>4. FundedJobIsKept
      <3>1. disk.status \in {job.status, "gone"}
        BY DEF Recorded, TypeOK, Jobs
      <3> QED BY <3>1 DEF FundedJobIsKept, Exposed, Closed, Buried
    <2>5. NoDoubleDip
      BY DEF NoDoubleDip, OneEnd
    <2> QED BY <2>1, <2>2, <2>3, <2>4, <2>5 DEF JobIsSound
  <1> QED BY JobAlways, <1>1, PTL

\* The HTLC is taken back only when the maker can take back its asset
\* (leg-bridge.mjs checkPayerFundGate and stepPayerLn).
THEOREM RefundsLate == ASSUME Calm PROVE Spec => RefundAfterTSeq
  <1>1. JobInv /\ [Next]_vars
          => [spend'.kind = "refund" /\ spend.kind = "none" => seq >= TSeq]_vars
    <2> SUFFICES ASSUME JobInv, [Next]_vars, spend'.kind = "refund", spend.kind = "none"
                 PROVE  seq >= TSeq
      OBVIOUS
    <2>1. CASE DriverSendsRefund
      <3>1. pc = "refundSend"
        BY <2>1 DEF DriverSendsRefund
      <3>2. cover > 0 /\ btc >= cover
        BY <3>1, HeightsAssumption DEF JobInv, Keyed, Timed, TypeOK
      <3> QED BY <3>2 DEF JobInv, Timed
    <2>2. CASE spend' = spend \/ MineBtc
      BY <2>2 DEF MineBtc
    <2>3. CASE MakerClaimsBtc \/ RefundMined \/ RefundEvicted \/ DriverBumps
      BY <2>3 DEF MakerClaimsBtc, RefundMined, RefundEvicted, DriverBumps, Unspent, Calm,
             JobInv, TypeOK
    <2> QED
      BY <2>1, <2>2, <2>3
         DEF Next, Chains, Driver, Process, MineSeq, HoldArrives, HoldLapses,
             MakerLocksAsset, TakerClaims, MakerRefundsAsset, DriverTicks,
             DriverDecidesFront, DriverFronts, DriverBroadcastsFront, DriverDeliversFront,
             DriverAdopts, DriverGates, DriverBroadcasts, DriverRecordsHtlc, DriverRelays,
             DriverGetsMakerLeg, DriverHandsOff, DriverRelayFails, DriverSettles,
             DriverRefunds, DriverThrows, SessionEnds, ProcessStops, Boots, Reaped, vars,
             chainVars
  <1> QED BY JobAlways, <1>1, PTL DEF Spec, RefundAfterTSeq

\* The job's state keeps its types, whatever is switched on.
THEOREM TypeCorrect == Spec => []TypeOK
  <1>1. Init => TypeOK
    BY InitInv DEF JobInv
  <1> QED BY <1>1, TypeStep, PTL DEF Spec

\* Once the maker has claimed the HTLC, the taker's hold does not lapse unsettled,
\* when the buffers take what the evictions cost (leg-bridge.mjs checkPayerFundGate,
\* stepPayerLn and the derivation of holdBuffer).
THEOREM FundRecouped == ASSUME Calm, InTime PROVE Spec => []FundIsRecouped
  <1>1. JobInv /\ RaceInv => FundIsRecouped
    BY DEF FundIsRecouped, JobInv, RaceInv, Keyed, HeldThrough, Buried
  <1> QED BY RaceAlways, <1>1, PTL

\* Under the same conditions the job keeps the intermediary's promise: it funds the
\* HTLC only against a held payment, lets that go only with the HTLC back, and never
\* has both (stepPayerLn).
THEOREM Implements == ASSUME Calm, InTime PROVE Spec => ImplementsFrontedLeg
  <1>1. Init => Leg!Init
    <2> SUFFICES ASSUME Init PROVE Leg!Init
      OBVIOUS
    <2>1. funded = 0 /\ hold = "none" /\ spend.kind = "none"
      BY DEF Init, Unspent
    <2> QED BY <2>1 DEF Leg!Init, Buried
  <1>2. JobInv /\ RaceInv /\ [Next]_vars => [Leg!Next]_(Leg!legVars)
    <2> SUFFICES ASSUME JobInv, RaceInv, [Next]_vars PROVE [Leg!Next]_(Leg!legVars)
      OBVIOUS
    <2> QED
      BY LegStep
         DEF LegFront, LegRecoup, Leg!Next, Leg!legVars, Leg!Secure, Leg!Front, Leg!Pay,
             Leg!GetBack, Leg!Take, Leg!Release
  <1> QED BY RaceAlways, <1>1, <1>2, PTL DEF Spec, ImplementsFrontedLeg, Leg!Spec
=============================================================================
