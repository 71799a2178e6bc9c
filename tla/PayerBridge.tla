---------------------------- MODULE PayerBridge ----------------------------
(***************************************************************************)
(* The LSP's bridge for a taker who pays BTC over Lightning and buys an    *)
(* asset from a maker who wants BTC on chain (tooling/lsp: lsp-server.mjs, *)
(* bridge-driver.mjs, leg-bridge.mjs, stepPayerLn).  The taker's Lightning *)
(* payment arrives held on H; against it the LSP funds a BTC HTLC for the  *)
(* maker, relays it, and hands the maker's asset HTLC to the taker, whose  *)
(* claim publishes the preimage P.  The LSP settles the hold with P or     *)
(* takes the HTLC back at T_btc.  With a stocked wallet it may instead     *)
(* front the asset itself and fund no HTLC.                                *)
(*                                                                         *)
(* The driver polls: each tick observes chain and node, decides one action *)
(* (nextBridgeStep) and runs it, and everything else may happen between    *)
(* any two of its steps.  The process may stop anywhere; a boot re-drives  *)
(* from the job's record.                                                  *)
(***************************************************************************)
EXTENDS Integers

CONSTANTS
    HoldExpiry,         \* BTC height at which the taker's held HTLC lapses
    TBtcs,              \* the refund heights of the BTC HTLC that a maker may ask for
    TSeq,               \* the refund height of an asset HTLC
    HoldBuffer,         \* holdBuffer of BRIDGE_DEFAULTS: T_btc this far inside the hold
    Finality,           \* refundFinalityConfs: burial depth of a final refund
    BumpWithin,         \* refundBumpWithin: hold life from which a refund is fee-bumped
    MakerRunway,        \* makerClaimRunwayBlocks: T_btc this far beyond T_seq
    ConfirmBudget,      \* blocks in which a well paid refund is mined
    Outage,             \* blocks from one tick of a served job that got through to the next
    MaxFaults,          \* bound: stops of the process, ended sessions, failed calls
    FrontWallet,        \* frontSeqWallet is configured: the LSP may front the asset
    DiskFaults,         \* persistJobs may fail (it logs and returns)
    LongInterruption,   \* an interrupted job may wait longer than JOB_TTL_MS for a boot
    SlowMaker,          \* a maker that P is public for may leave its claim until late
    EvictedReturns      \* a refund evicted from our mempool may still be mined

ASSUME HeightsAssumption ==
    /\ TBtcs \cup {HoldExpiry, TSeq, HoldBuffer, Finality} \subseteq Nat \ {0}
    /\ {BumpWithin, MakerRunway, ConfirmBudget, Outage, MaxFaults} \subseteq Nat
ASSUME SwitchesAssumption ==
    {FrontWallet, DiskFaults, LongInterruption, SlowMaker, EvictedReturns}
        \subseteq BOOLEAN

VARIABLES
    TBtc,        \* T_btc of this job's terms
    btc, seq,    \* heights of the two chains
    cover,       \* BTC height by which the fund gate has T_seq behind (0: no gate passed)
    hold,        \* the taker's Lightning payment on H
    funded,      \* how many HTLCs were broadcast for the maker
    spend,       \* what spends the HTLC: its kind, depth, fee, and the height it was paid at
    evicted,     \* a refund left our mempool
    aleg,        \* the maker's asset HTLC, claimable by the taker with P
    fleg,        \* the LSP's own asset HTLC when it fronts
    fronts,      \* how many of those were broadcast
    announced,   \* XcBtcLegFunded was sent to the maker
    job, disk,   \* the job in memory, and jobs.json
    pc,          \* where the driver is ("down": no process, "off": no driver)
    fronted,     \* what the running driver holds of leg.fronted
    begun,       \* height at which the running tick observed (all it reads)
    clear,       \* height of the last such tick that got its action through
    faults

chainVars  == <<TBtc, btc, seq, cover, hold, funded, spend, evicted, aleg, fleg, fronts>>
driverVars == <<job, disk, pc, fronted>>
pollVars == <<begun, clear>>
vars == <<chainVars, announced, driverVars, pollVars, faults>>

Statuses == {"confirming", "interrupted", "settled", "gone"}
Jobs == [status  : Statuses,
         done    : BOOLEAN,                         \* done_ms is set
         front   : {"open", "armed", "declined"},   \* bridge_front
         intent  : BOOLEAN,                         \* lspRefundPriv and intendedRedeem
         htlc    : BOOLEAN,                         \* legState.btc.htlc
         leg     : BOOLEAN,                         \* makerSeqLeg or frontedLeg
         relayed : BOOLEAN]                         \* forwardRelayDone: handed to the taker
Pcs == {"down", "off", "tick", "fund", "broadcast", "record", "relay", "verify",
        "front", "frontRecord", "settle", "refund", "refundSend", "bump"}
Unspent == [kind |-> "none", confs |-> 0, fee |-> "low", at |-> 0]

NewJob == [status |-> "confirming", done |-> FALSE, front |-> "open", intent |-> FALSE,
           htlc |-> FALSE, leg |-> FALSE, relayed |-> FALSE]

TypeOK ==
    /\ TBtc \in TBtcs /\ btc \in Nat /\ seq \in Nat /\ cover \in Nat
    /\ hold \in {"none", "held", "settled", "lapsed"}
    /\ funded \in Nat /\ fronts \in Nat /\ evicted \in BOOLEAN
    /\ spend \in [kind : {"none", "claim", "refund"}, confs : Nat,
                  fee : {"low", "high"}, at : Nat]
    /\ aleg \in {"none", "locked", "claimed", "refunded"}
    /\ fleg \in {"none", "locked", "claimed", "refunded"}
    /\ announced \in BOOLEAN /\ fronted \in BOOLEAN
    /\ job \in Jobs /\ disk \in Jobs
    /\ pc \in Pcs
    /\ begun \in Nat /\ clear \in Nat /\ faults \in Nat

Init ==
    /\ TBtc \in TBtcs /\ btc = 0 /\ seq = 0 /\ cover = 0 /\ hold = "none"
    /\ funded = 0 /\ spend = Unspent /\ evicted = FALSE
    /\ aleg = "none" /\ fleg = "none" /\ fronts = 0 /\ announced = FALSE
    /\ job = NewJob /\ disk = NewJob /\ pc = "tick" /\ fronted = FALSE
    /\ begun = 0 /\ clear = 0 /\ faults = 0

Fault == faults < MaxFaults /\ faults' = faults + 1

-----------------------------------------------------------------------------
(* The chains, the taker and the maker (external).                          *)

PPublic == aleg = "claimed" \/ fleg = "claimed"
Buried  == spend.kind = "refund" /\ spend.confs >= Finality

ResumableByHtlc(j) ==                                    \* mutant: intents are ignored
    j.status \in {"confirming", "interrupted"} /\ j.htlc
\* What the boot's filter re-drives: a job not terminal, with its HTLC or intent.
Resumable(j) == j.status \in {"confirming", "interrupted"} /\ (j.htlc \/ j.intent)
Served == pc \notin {"down", "off"} \/ Resumable(disk)
Exposed == (funded > 0 \/ pc = "broadcast") /\ hold = "held" /\ ~Buried

\* The rates: the gate's cover height, the blocks until a well paid refund is mined or
\* an owed maker's claim displaces it, and those a served job goes without a clear tick.
MineBtc ==
    /\ btc <= HoldExpiry
    /\ cover > 0 /\ btc + 1 >= cover => seq >= TSeq
    /\ spend.kind = "refund" /\ spend.confs = 0
           /\ (spend.fee = "high" \/ (PPublic /\ ~SlowMaker))
           => btc < spend.at + ConfirmBudget
    /\ Exposed /\ Served => btc < clear + Outage
    /\ btc' = btc + 1
    /\ spend' = IF spend.kind = "refund" /\ spend.confs \in 1 .. Finality - 1
                THEN [spend EXCEPT !.confs = @ + 1] ELSE spend
    /\ UNCHANGED <<TBtc, seq, cover, hold, funded, evicted, aleg, fleg, fronts, announced,
                   driverVars, pollVars, faults>>

MineSeq ==
    /\ seq < TSeq /\ seq' = seq + 1
    /\ UNCHANGED <<TBtc, btc, cover, hold, funded, spend, evicted, aleg, fleg, fronts, announced,
                   driverVars, pollVars, faults>>

HoldArrives ==
    /\ hold = "none" /\ btc < HoldExpiry /\ hold' = "held"
    /\ UNCHANGED <<TBtc, btc, seq, cover, funded, spend, evicted, aleg, fleg, fronts, announced,
                   driverVars, pollVars, faults>>

HoldLapses ==
    /\ hold = "held" /\ btc >= HoldExpiry /\ hold' = "lapsed"
    /\ UNCHANGED <<TBtc, btc, seq, cover, funded, spend, evicted, aleg, fleg, fronts, announced,
                   driverVars, pollVars, faults>>

MakerLocksAsset ==
    /\ announced /\ aleg = "none" /\ seq < TSeq /\ spend.kind = "none"
    /\ aleg' = "locked"
    /\ UNCHANGED <<TBtc, btc, seq, cover, hold, funded, spend, evicted, fleg, fronts, announced,
                   driverVars, pollVars, faults>>

\* The taker claims the asset HTLC it was handed and so publishes P.
TakerClaims ==
    /\ job.relayed
    /\ \/ aleg = "locked" /\ aleg' = "claimed" /\ UNCHANGED fleg
       \/ fleg = "locked" /\ fleg' = "claimed" /\ UNCHANGED aleg
    /\ UNCHANGED <<TBtc, btc, seq, cover, hold, funded, spend, evicted, fronts, announced,
                   driverVars, pollVars, faults>>

MakerRefundsAsset ==
    /\ aleg = "locked" /\ seq >= TSeq /\ aleg' = "refunded"
    /\ UNCHANGED <<TBtc, btc, seq, cover, hold, funded, spend, evicted, fleg, fronts, announced,
                   driverVars, pollVars, faults>>

\* With P the maker's claim also displaces a refund not yet mined, or one that a
\* reorganisation shallower than Finality unburies.
MakerClaimsBtc ==
    /\ PPublic /\ funded > 0 /\ spend.kind # "claim" /\ ~Buried
    /\ spend' = [Unspent EXCEPT !.kind = "claim"]
    /\ UNCHANGED <<TBtc, btc, seq, cover, hold, funded, evicted, aleg, fleg, fronts, announced,
                   driverVars, pollVars, faults>>

RefundMined ==
    /\ \/ spend.kind = "refund" /\ spend.confs = 0
       \/ EvictedReturns /\ evicted /\ spend.kind = "none"
    /\ spend' = [spend EXCEPT !.kind = "refund", !.confs = 1]
    /\ UNCHANGED <<TBtc, btc, seq, cover, hold, funded, evicted, aleg, fleg, fronts, announced,
                   driverVars, pollVars, faults>>

\* A refund whose fee has become too low leaves the mempool.
RefundEvicted ==
    /\ spend.kind = "refund" /\ spend.confs = 0 /\ spend.fee = "low"
    /\ Fault
    /\ spend' = Unspent /\ evicted' = TRUE
    /\ UNCHANGED <<TBtc, btc, seq, cover, hold, funded, aleg, fleg, fronts, announced,
                   driverVars, pollVars>>

Chains == \/ MineBtc \/ MineSeq \/ HoldArrives \/ HoldLapses \/ MakerLocksAsset
          \/ TakerClaims \/ MakerRefundsAsset \/ MakerClaimsBtc \/ RefundMined
          \/ RefundEvicted

-----------------------------------------------------------------------------
(* The gates and the decision of a tick.                                    *)

SeqBlocks == TSeq - seq

\* Mutants: without the bound on T_btc from below, and without the buffer above it.
FundGateWithoutBuffer ==
    /\ hold = "held" /\ seq < TSeq /\ btc < TBtc
    /\ TBtc >= btc + SeqBlocks + MakerRunway /\ TBtc < HoldExpiry
\* checkPayerFundGate: T_seq < T_btc < the hold's expiry, each with its margin.
FundGate ==
    /\ hold = "held" /\ seq < TSeq /\ btc < TBtc
    /\ TBtc >= btc + SeqBlocks + MakerRunway
    /\ HoldExpiry > btc + SeqBlocks
    /\ TBtc <= HoldExpiry - HoldBuffer

\* checkAssetFrontGate: only the hold has to outlive the fronted leg.
AssetFrontGate == hold = "held" /\ seq < TSeq /\ HoldExpiry > btc + SeqBlocks

\* A read of the asset HTLC (sees: it succeeded) or the claim of the BTC shows P.
KnowsP(sees) == (PPublic /\ job.leg /\ sees) \/ spend.kind = "claim"

\* nextBridgeStep on a fronted leg, on a leg whose HTLC is recorded, and before.
FrontedStep(p) ==
    CASE p -> "settle"
      [] ~p /\ hold = "held" /\ seq >= TSeq -> "refund"
      [] OTHER -> "tick"

\* Mutant: a public P goes before the look at what spends the HTLC.
FundedStepByP(p) ==
    CASE p \/ spend.kind = "claim" -> "settle"
      [] ~p /\ spend.kind = "none" /\ btc >= TBtc -> "refund"
      [] OTHER -> IF spend.kind = "none" /\ ~job.relayed THEN "fund" ELSE "tick"

FundedStep(p) ==
    CASE Buried -> "done"
      [] spend.kind = "claim" -> "settle"
      [] spend.kind = "refund" /\ ~Buried ->
            IF spend.confs = 0 /\ ~p /\ HoldExpiry - btc <= BumpWithin THEN "bump" ELSE "tick"
      [] spend.kind = "none" /\ p -> "settle"
      [] spend.kind = "none" /\ ~p /\ btc >= TBtc -> "refund"
      [] spend.kind = "none" /\ ~p /\ btc < TBtc -> IF job.relayed THEN "tick" ELSE "fund"

UnfundedStep ==
    CASE hold # "held" -> "tick"
      [] hold = "held" /\ HoldExpiry - btc <= HoldBuffer -> "failClosed"
      [] OTHER -> "fund"

NextStep(p) == IF hold = "settled" THEN "done"
               ELSE IF fronted THEN FrontedStep(p)
               ELSE IF job.htlc THEN FundedStep(p) ELSE UnfundedStep

\* persistJobs writes jobs.json; a reaped job is not written again.
Persist(j) ==
    /\ job' = j
    /\ disk' \in IF disk.status = "gone" THEN {disk}
                 ELSE IF DiskFaults THEN {disk, j} ELSE {j}

-----------------------------------------------------------------------------
(* The driver (runBridgedSwap, runBridgedLeg, makeBridgeIo).                *)

Ticked == pc' = "tick" /\ clear' = begun /\ UNCHANGED begun

\* A tick that observes the HTLC; a tick that cannot is a wait and changes nothing.
DriverTicks ==
    /\ pc = "tick"
    /\ \E sees \in BOOLEAN :
        LET step == NextStep(KnowsP(sees)) IN
        /\ begun' = IF sees THEN btc ELSE begun
        /\ clear' = IF step = "tick" THEN begun' ELSE clear
        /\ pc' = IF step \in {"done", "failClosed"} THEN "off" ELSE step
        /\ CASE step = "done" -> Persist([job EXCEPT !.status = "settled", !.done = TRUE])
             [] step = "failClosed" ->
                    Persist([job EXCEPT !.status = "interrupted", !.done = TRUE])
             [] OTHER -> UNCHANGED <<job, disk>>
    /\ UNCHANGED <<chainVars, announced, fronted, faults>>

\* Mutant: decided anew on every entry, not once per job.

\* decideAssetFront: once per job, before anything is funded; inventory may be short.
DriverDecidesFront ==
    /\ pc = "fund" /\ job.front = "open" /\ ~job.htlc
    /\ \E f \in {"armed", "declined"} :
        /\ f = "armed" => FrontWallet /\ AssetFrontGate
        /\ Persist([job EXCEPT !.front = f])
    /\ UNCHANGED <<chainVars, announced, pc, fronted, pollVars, faults>>

DriverFronts ==
    /\ pc = "fund" /\ job.front = "armed" /\ ~job.htlc
    /\ pc' = IF job.leg THEN "frontRecord" ELSE "front"
    /\ UNCHANGED <<chainVars, announced, job, disk, fronted, pollVars, faults>>

DriverBroadcastsFront ==
    /\ pc = "front"
    /\ fleg' = IF fleg = "none" THEN "locked" ELSE fleg
    /\ fronts' = fronts + 1 /\ pc' = "frontRecord"
    /\ UNCHANGED <<TBtc, btc, seq, cover, hold, funded, spend, evicted, aleg, announced, job,
                   disk, fronted, pollVars, faults>>

DriverDeliversFront ==
    /\ pc = "frontRecord"
    /\ Persist([job EXCEPT !.leg = TRUE, !.relayed = TRUE]) /\ Ticked
    /\ UNCHANGED <<chainVars, announced, fronted, faults>>

\* dryLocate: the HTLC on chain or in our wallet; the mutant goes by the job alone.
LocatedOnRecord == job.htlc
Located == funded > 0

\* runPayerFundOnce: adopt a funding already on chain before the gate ...
DriverAdopts ==
    /\ pc = "fund" /\ job.front = "declined" /\ ~job.htlc
    /\ job.intent /\ Located
    /\ Persist([job EXCEPT !.htlc = TRUE]) /\ pc' = "relay"
    /\ UNCHANGED <<chainVars, announced, fronted, pollVars, faults>>

\* Mutant: the refund key stays in memory until the HTLC is recorded.

\* ... or pass the gate and persist the refund key and script ...
DriverGates ==
    /\ pc = "fund" /\ job.front = "declined" /\ ~job.htlc
    /\ ~(job.intent /\ Located)
    /\ \/ FundGate /\ Persist([job EXCEPT !.intent = TRUE]) /\ pc' = "broadcast"
          /\ cover' = btc + SeqBlocks
       \/ ~FundGate /\ pc' = "tick" /\ UNCHANGED <<job, disk, cover>>
    /\ UNCHANGED <<TBtc, btc, seq, hold, funded, spend, evicted, aleg, fleg, fronts, announced,
                   fronted, pollVars, faults>>

\* ... look on chain once more, and broadcast.
DriverBroadcasts ==
    /\ pc = "broadcast"
    /\ funded' = IF Located THEN funded ELSE funded + 1
    /\ pc' = "record"
    /\ UNCHANGED <<TBtc, btc, seq, cover, hold, spend, evicted, aleg, fleg, fronts, announced,
                   job, disk, fronted, pollVars, faults>>

DriverRecordsHtlc ==
    /\ pc = "record"
    /\ Persist([job EXCEPT !.htlc = TRUE]) /\ pc' = "relay"
    /\ UNCHANGED <<chainVars, announced, fronted, pollVars, faults>>

DriverRelays ==
    /\ \/ pc = "relay"
       \/ pc = "fund" /\ job.htlc
    /\ announced' = TRUE /\ pc' = "verify"
    /\ UNCHANGED <<chainVars, job, disk, fronted, pollVars, faults>>

DriverGetsMakerLeg ==
    /\ pc = "verify" /\ ~job.leg /\ aleg # "none"
    /\ Persist([job EXCEPT !.leg = TRUE])
    /\ UNCHANGED <<chainVars, announced, pc, fronted, pollVars, faults>>

DriverHandsOff ==
    /\ pc = "verify" /\ job.leg /\ aleg = "locked"
    /\ Persist([job EXCEPT !.relayed = TRUE]) /\ Ticked
    /\ UNCHANGED <<chainVars, announced, fronted, faults>>

\* The maker has not answered in time, or what it locked is gone again.
DriverRelayFails ==
    /\ pc = "verify" /\ aleg # "locked" /\ Ticked
    /\ UNCHANGED <<chainVars, announced, job, disk, fronted, faults>>

DriverSettles ==
    /\ pc = "settle"
    /\ hold' = IF hold = "held" THEN "settled" ELSE hold
    /\ Ticked
    /\ UNCHANGED <<TBtc, btc, seq, cover, funded, spend, evicted, aleg, fleg, fronts, announced,
                   job, disk, fronted, faults>>

\* runPayerRefundOnce classifies the spend afresh and persists its intent; the
\* fronted branch of refundOnchain takes the asset back.
DriverRefunds ==
    /\ pc = "refund"
    /\ IF spend.kind = "none" /\ job.front # "armed"
       THEN pc' = "refundSend" /\ UNCHANGED pollVars
       ELSE Ticked
    /\ fleg' = IF job.front = "armed" /\ fleg = "locked" THEN "refunded" ELSE fleg
    /\ UNCHANGED <<TBtc, btc, seq, cover, hold, funded, spend, evicted, aleg, fronts, announced,
                   job, disk, fronted, faults>>

DriverSendsRefund ==
    /\ pc = "refundSend"
    /\ \E fee \in {"low", "high"} :
        spend' = IF spend.kind = "none"
                 THEN [kind |-> "refund", confs |-> 0, fee |-> fee, at |-> btc] ELSE spend
    /\ Ticked
    /\ UNCHANGED <<TBtc, btc, seq, cover, hold, funded, evicted, aleg, fleg, fronts, announced,
                   job, disk, fronted, faults>>

\* runPayerRefundBumpOnce: at most one replacement per block, on a fresh look.
DriverBumps ==
    /\ pc = "bump"
    /\ spend' = IF spend.kind = "refund" /\ spend.confs = 0 /\ spend.fee = "low"
                   /\ btc > spend.at
                THEN [spend EXCEPT !.fee = "high", !.at = btc] ELSE spend
    /\ Ticked
    /\ UNCHANGED <<TBtc, btc, seq, cover, hold, funded, evicted, aleg, fleg, fronts, announced,
                   job, disk, fronted, faults>>

\* A call raises, whatever it has done already: the loop re-observes.
DriverThrows ==
    /\ pc \notin {"down", "off", "tick"} /\ Fault /\ pc' = "tick"
    /\ UNCHANGED <<chainVars, announced, job, disk, fronted, pollVars>>

\* Mutant: a payer job out of ticks is closed, as a receiver's is.

\* maxTicks: a payer job is left interrupted, for the next boot.
SessionEnds ==
    /\ pc = "tick" /\ Fault
    /\ Persist([job EXCEPT !.status = "interrupted", !.done = TRUE]) /\ pc' = "off"
    /\ UNCHANGED <<chainVars, announced, fronted, pollVars>>

\* The process stops anywhere, or an operator restarts it for an interrupted job.
ProcessStops ==
    /\ pc # "down"
    /\ IF pc = "off" /\ Resumable(disk) THEN UNCHANGED faults ELSE Fault
    /\ pc' = "down" /\ job' = disk /\ fronted' = FALSE
    /\ UNCHANGED <<chainVars, announced, disk, pollVars>>

\* loadJobs marks a job in flight interrupted; the boot looks for its funding on
\* chain (found: the look-up worked) and re-drives it.
Boots ==
    /\ pc = "down"
    /\ LET j == IF job.status = "confirming"
                THEN [job EXCEPT !.status = "interrupted", !.done = TRUE] ELSE job IN
       IF Resumable(j)
       THEN \E found \in BOOLEAN :
            /\ Persist([j EXCEPT !.status = "confirming",
                                 !.htlc = @ \/ (found /\ funded > 0)])
            /\ pc' = "tick" /\ fronted' = (job.front = "armed")
       ELSE Persist(j) /\ pc' = "off" /\ UNCHANGED fronted
    /\ UNCHANGED <<chainVars, announced, pollVars, faults>>

\* reapJobs, or loadJobs of a later boot, drops a job done for JOB_TTL_MS.
Reaped ==
    /\ disk.done /\ disk.status # "gone"
    /\ LongInterruption \/ disk.status = "settled"
    /\ disk' = [disk EXCEPT !.status = "gone"]
    /\ UNCHANGED <<chainVars, announced, job, pc, fronted, pollVars, faults>>

Driver == \/ DriverTicks \/ DriverDecidesFront \/ DriverFronts \/ DriverBroadcastsFront
          \/ DriverDeliversFront \/ DriverAdopts \/ DriverGates \/ DriverBroadcasts
          \/ DriverRecordsHtlc \/ DriverRelays \/ DriverGetsMakerLeg \/ DriverHandsOff
          \/ DriverRelayFails \/ DriverSettles \/ DriverRefunds \/ DriverSendsRefund
          \/ DriverBumps \/ DriverThrows

Process == SessionEnds \/ ProcessStops \/ Boots \/ Reaped

Next == Chains \/ Driver \/ Process

Spec == Init /\ [][Next]_vars

\* The chains advance, the poll loop runs on, an interrupted job gets its next
\* boot, a maker takes what it is owed, and a well paid refund is mined.
Fairness ==
    /\ WF_vars(MineBtc) /\ WF_vars(MineSeq) /\ WF_vars(HoldLapses)
    /\ WF_vars(MakerClaimsBtc) /\ WF_vars(MakerRefundsAsset)
    /\ WF_vars(spend.fee = "high" /\ RefundMined)
    /\ WF_vars(Driver) /\ SF_vars(DriverTicks /\ begun' = btc)
    /\ WF_vars(Boots) /\ WF_vars(pc = "off" /\ ProcessStops)

FairSpec == Spec /\ Fairness

-----------------------------------------------------------------------------
(* Properties                                                               *)

\* The LSP is never out of its HTLC without the payment it was funded against:
\* once the maker has claimed it, the taker's hold does not lapse unsettled
\* (holdBuffer = refundFinalityConfs + the confirmation budget).
FundIsRecouped == spend.kind = "claim" => hold # "lapsed"

\* The LSP never settles the hold and also takes its HTLC back (stepPayerLn:
\* "NEVER also recoup-settle the hold, EVEN IF P later goes public").
NoDoubleDip == ~(hold = "settled" /\ spend.kind = "refund")

\* Crashes, retries and lost responses never fund a second HTLC for one job.
FundedOnce == funded <= 1

\* What a refund needs is in jobs.json before any HTLC is on chain
\* (runPayerFundOnce: "durable BEFORE any broadcast").
RefundKeyDurable == funded > 0 => disk.intent

\* The LSP never both fronts the asset and funds the HTLC, where P would let the
\* maker take the BTC for nothing (fundOnchain: "INVARIANT VIOLATED: ...").
FrontExcludesFund == ~(fronts > 0 /\ funded > 0)

\* A funded job is on record until its HTLC is resolved ("A funded payer leg is
\* never dropped").
FundedJobIsKept == Exposed /\ funded > 0 /\ spend.kind = "none" => disk.status \notin {"gone", "settled"}

\* A fronted asset that the taker took is paid for (stepPayerLn: losing it "is the
\* one outcome fronting must never produce").
FrontIsRecouped == fleg = "claimed" => hold # "lapsed"

\* One job fronts one asset leg.
FrontedOnce == fronts <= 1

\* The HTLC is only taken back when the maker can take back its asset: never
\* while the taker could still claim that for nothing (checkPayerFundGate, B1).
RefundAfterTSeq ==
    [][spend'.kind = "refund" /\ spend.kind = "none" => seq >= TSeq]_vars

\* The HTLC does not stay locked: the maker takes it or the LSP has it back.
HtlcResolves == funded > 0 ~> (spend.kind = "claim" \/ Buried \/ hold = "settled")

\* The bridge implements the intermediary's promise, with the HTLC as the front
\* and the taker's hold as the recoup.
Leg == INSTANCE FrontedLeg WITH
    front  <- CASE funded = 0 -> "none"
                [] spend.kind = "claim" -> "paid"
                [] Buried -> "back"
                [] OTHER -> "out",
    recoup <- CASE hold = "none" -> "none"
                [] hold = "held" -> "secured"
                [] hold = "settled" -> "taken"
                [] hold = "lapsed" -> "released"

\* Every behaviour of the bridge is one the abstract fronted leg allows.
ImplementsFrontedLeg == Leg!Spec

\* The job and what it has on chain agree: one HTLC at most, whose refund key is
\* on disk first, never together with a front, never given up, never paid twice.
JobIsSound ==
    /\ TypeOK
    /\ FundedOnce /\ RefundKeyDurable /\ FrontExcludesFund /\ FundedJobIsKept /\ NoDoubleDip

\* The HTLC is spent in the end, by a refund only when the maker's asset is back.
HtlcEnds == RefundAfterTSeq /\ HtlcResolves
=============================================================================
