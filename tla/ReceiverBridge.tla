--------------------------- MODULE ReceiverBridge ---------------------------
(***************************************************************************)
(* The LSP's bridge for a taker who sells an asset for BTC over Lightning  *)
(* to a maker who pays BTC on chain (tooling/lsp: lsp-server.mjs,          *)
(* bridge-driver.mjs, leg-bridge.mjs, stepReceiverLn).  The maker locks a  *)
(* BTC HTLC on H to the LSP (the recoup); the LSP pays the taker's hold    *)
(* invoice on H (the front), and only then does the taker lock its asset   *)
(* on H for the maker, whose claim publishes P.  The taker settles the     *)
(* front with P, which gives P to the LSP, which claims the HTLC before    *)
(* T_btc.                                                                  *)
(*                                                                         *)
(* The maker minted P, so a taker may have P at any time.  The job is      *)
(* written to jobs.json as it changes; what the process alone holds is in  *)
(* pc, session and attempted.                                              *)
(***************************************************************************)
EXTENDS Integers

CONSTANTS
    TBtc, TSeq,      \* refund heights of the BTC HTLC and of the taker's asset HTLC
    ClaimMargin,     \* claimMarginBlocks: the front expires this far before T_btc
    FrontRunway,     \* frontRunway: no front closer than this to T_btc
    LateClaim,       \* claimMargin: with P public, no front closer than this to T_btc
    MinSeqRunway,    \* the least Sequentia runway to T_seq at which the gate opens
    Outage,          \* blocks within which a served job claims once the front settled
    LapseDelay,      \* blocks past its expiry within which a front is failed back
    MaxFaults,       \* bound: stops of the process, ended sessions, failed calls
    SlowFront,       \* a front may outlive the driver's wait, session or gates
    UnmarkedStop,    \* the process may stop between sendpay and the save of frontHeld
    ReadsFail        \* a read of a chain may fail while a front is in flight

ASSUME HeightsAssumption ==
    /\ {TBtc, TSeq, MinSeqRunway} \subseteq Nat \ {0}
    /\ {ClaimMargin, FrontRunway, LateClaim, Outage, LapseDelay, MaxFaults} \subseteq Nat
ASSUME SwitchesAssumption == {SlowFront, UnmarkedStop, ReadsFail} \subseteq BOOLEAN

VARIABLES
    btc, seq,    \* heights of the two chains
    cover,       \* BTC height by which the gate of the front has T_seq behind
    expiry,      \* final-CLTV delta of the route, then the height at which the front lapses
    due,         \* BTC height at which the front settled
    recoup,      \* the maker's BTC HTLC locked to the LSP
    front,       \* the LSP's Lightning payment of the taker's hold invoice
    aleg,        \* the taker's asset HTLC, claimable by the maker
    job,         \* the job, as jobs.json has it
    pc,          \* where the driver is ("down": no process, "off": no driver)
    session,     \* the courier session to the maker is open (job._bridgeSession)
    attempted,   \* this session of runBridgedLeg has tried to front
    faults

chainVars == <<btc, seq, cover, expiry, due, recoup, front, aleg>>
procVars  == <<pc, session, attempted>>
vars == <<chainVars, job, procVars, faults>>

Jobs == [status : {"confirming", "fronted", "interrupted", "failed", "settled"},
         ready  : BOOLEAN,      \* recvNodeId: the taker's hold invoice is registered
         held   : BOOLEAN,      \* frontHeld
         p      : BOOLEAN,      \* frontPreimage
         asset  : BOOLEAN]      \* legState.asset.onchain, relayed to the maker

TypeOK ==
    /\ btc \in Nat /\ seq \in Nat /\ cover \in Nat /\ expiry \in Int /\ due \in Nat
    /\ recoup \in {"mempool", "gone", "mined", "claimed", "refunded"}
    /\ front \in {"none", "pending", "settled", "failed"}
    /\ aleg \in {"none", "locked", "claimed", "refunded"}
    /\ job \in Jobs
    /\ pc \in {"down", "off", "tick", "front", "send", "mark", "wait", "claim"}
    /\ session \in BOOLEAN /\ attempted \in BOOLEAN /\ faults \in Nat

\* After prepareBridgeLegs: the maker's HTLC is broadcast and its script verified.
Init ==
    /\ btc = 0 /\ seq = 0 /\ cover = 0 /\ expiry = 0 /\ due = 0
    /\ recoup = "mempool" /\ front = "none" /\ aleg = "none"
    /\ job = [status |-> "confirming", ready |-> FALSE, held |-> FALSE, p |-> FALSE,
              asset |-> FALSE]
    /\ pc = "tick" /\ session = TRUE /\ attempted = FALSE /\ faults = 0

Fault == faults < MaxFaults /\ faults' = faults + 1

-----------------------------------------------------------------------------
(* The gates, and what the environment is assumed to keep.                  *)

MintTargetAtTBtc == TBtc                                 \* mutant: no claim margin
\* frontHtlcMintTarget: the height at which the front is to lapse.
MintTarget == TBtc - ClaimMargin

\* Mutant: the front is not made to outlive T_seq.
OrderingGateWithoutCover(b, s) == b < TBtc /\ TSeq - s >= MinSeqRunway
\* checkBridgeLocktimeOrdering with requiredTakerHold (one BTC block covers one of
\* Sequentia at the least favourable rate).
OrderingGate(b, s) ==
    /\ b < TBtc
    /\ TSeq - s >= MinSeqRunway
    /\ TBtc - b - ClaimMargin >= TSeq - s

\* P read off the maker's claim of the asset HTLC that was handed over.
ReadsP == job.asset /\ aleg = "claimed"

\* What lets stepReceiverLn return front-ln on a mined recoup.
FrontGate(b, s) ==
    /\ TBtc - b >= FrontRunway
    /\ OrderingGate(b, s) \/ (ReadsP /\ TBtc - b > LateClaim)

InFlight == front \in {"pending", "settled"} /\ ~job.p
Live == pc \notin {"down", "off"}

ResumableByAsset ==                                       \* mutant: fronts are ignored
    job.status \notin {"settled", "failed"} /\ job.ready /\ job.asset

\* What the boot's filter re-drives.
Resumable ==
    /\ job.status \notin {"settled", "failed"}
    /\ job.ready /\ (job.held \/ job.asset)

Served == Live \/ Resumable

\* No driver is to look again, or it waits on the payment, or would pass its gates.
InTime(b, s) == SlowFront \/ ~InFlight \/ ~Served \/ pc = "wait" \/ FrontGate(b, s)

-----------------------------------------------------------------------------
(* The chains, the taker and the maker (external).                          *)

\* The rates: at most one block between mint and sendpay, the gate's cover height, a taker
\* that settles once P is public, a lapsed front failed back, a node that hands over P,
\* and a served job that claims within Outage blocks.
MineBtc ==
    /\ btc <= TBtc
    /\ pc = "send" => btc + expiry <= MintTarget
    /\ cover > 0 /\ btc + 1 >= cover => seq >= TSeq
    /\ front = "pending" => aleg # "claimed" /\ btc < expiry + LapseDelay
    /\ pc = "wait" => front # "settled"
    /\ front = "settled" /\ recoup = "mined" /\ Served => btc < due + Outage
    /\ InTime(btc + 1, seq)
    /\ btc' = btc + 1
    /\ UNCHANGED <<seq, cover, expiry, due, recoup, front, aleg, job, procVars, faults>>

MineSeq ==
    /\ seq < TSeq /\ InTime(btc, seq + 1)
    /\ seq' = seq + 1
    /\ UNCHANGED <<btc, cover, expiry, due, recoup, front, aleg, job, procVars, faults>>

RecoupMined ==
    /\ recoup = "mempool" /\ recoup' = "mined"
    /\ UNCHANGED <<btc, seq, cover, expiry, due, front, aleg, job, procVars, faults>>

\* The maker replaces its unconfirmed funding with a payment to itself.
RecoupReplaced ==
    /\ recoup = "mempool" /\ recoup' = "gone"
    /\ UNCHANGED <<btc, seq, cover, expiry, due, front, aleg, job, procVars, faults>>

MakerRefunds ==
    /\ recoup = "mined" /\ btc >= TBtc /\ recoup' = "refunded"
    /\ UNCHANGED <<btc, seq, cover, expiry, due, front, aleg, job, procVars, faults>>

\* With P the taker takes the payment, past its expiry too while it is not failed back.
TakerSettles ==
    /\ front = "pending" /\ front' = "settled"
    /\ due' = btc
    /\ UNCHANGED <<btc, seq, cover, expiry, recoup, aleg, job, procVars, faults>>

\* No taker that has locked its asset drops the payment.
TakerDeclines ==
    /\ front = "pending" /\ aleg = "none" /\ front' = "failed"
    /\ UNCHANGED <<btc, seq, cover, expiry, due, recoup, aleg, job, procVars, faults>>

FrontLapses ==
    /\ front = "pending" /\ btc >= expiry /\ front' = "failed"
    /\ UNCHANGED <<btc, seq, cover, expiry, due, recoup, aleg, job, procVars, faults>>

\* The wallet locks its asset once the job reads fronted and its own node has the
\* payment in hold.
TakerLocksAsset ==
    /\ job.status = "fronted" /\ front = "pending" /\ aleg = "none" /\ seq < TSeq
    /\ aleg' = "locked"
    /\ UNCHANGED <<btc, seq, cover, expiry, due, recoup, front, job, procVars, faults>>

MakerClaimsAsset ==
    /\ aleg = "locked" /\ job.asset /\ seq < TSeq /\ aleg' = "claimed"
    /\ UNCHANGED <<btc, seq, cover, expiry, due, recoup, front, job, procVars, faults>>

TakerRefundsAsset ==
    /\ aleg = "locked" /\ seq >= TSeq /\ aleg' = "refunded"
    /\ UNCHANGED <<btc, seq, cover, expiry, due, recoup, front, job, procVars, faults>>

Chains == \/ MineBtc \/ MineSeq \/ RecoupMined \/ RecoupReplaced \/ MakerRefunds
          \/ TakerSettles \/ TakerDeclines \/ FrontLapses
          \/ TakerLocksAsset \/ MakerClaimsAsset \/ TakerRefundsAsset

-----------------------------------------------------------------------------
(* The taker's calls (POST /bridge/front, POST /bridge/asset).              *)

HoldReady ==
    /\ Live /\ ~job.ready
    /\ job' = [job EXCEPT !.ready = TRUE]
    /\ UNCHANGED <<chainVars, procVars, faults>>

\* Refused unless the front is confirmed, the driver lives with its session, and the
\* ordering still holds at the live tips.
HandOff ==
    /\ Live /\ session /\ (job.held \/ job.p) /\ OrderingGate(btc, seq)
    /\ aleg = "locked"
    /\ job' = [job EXCEPT !.asset = TRUE] /\ session' = FALSE
    /\ UNCHANGED <<chainVars, pc, attempted, faults>>

-----------------------------------------------------------------------------
(* The driver (runBridgedLeg, stepReceiverLn, frontLn, recoupClaim).        *)

\* The next step on what the tick could read: all of it, all but Sequentia's tip, or
\* not even the HTLC.
NextStep(reads) ==
    CASE reads # "none" /\ recoup \in {"claimed", "refunded"} -> "done"
      [] job.p /\ reads # "none" /\ recoup = "mined" -> "claim"
      [] job.p /\ (reads = "none" \/ recoup \in {"mempool", "gone"}) -> "failClosed"
      [] ~job.p /\ (reads = "none" \/ recoup = "gone") -> "tick"
      [] ~job.p /\ reads # "none" /\ recoup = "mempool" ->
            IF TBtc - btc < FrontRunway THEN "failClosed" ELSE "tick"
      [] ~job.p /\ reads # "none" /\ recoup = "mined" ->
            IF ~FrontGate(btc, seq) \/ (reads = "noSeq" /\ ~ReadsP) THEN "failClosed"
            ELSE IF job.ready THEN "front" ELSE "tick"

DriverTicks ==
    /\ pc = "tick"
    /\ \E reads \in {"all", "noSeq", "none"} :
        LET step == NextStep(reads) IN
        /\ reads # "all" /\ step = "failClosed" /\ front \in {"pending", "settled"} => ReadsFail
        /\ pc' = IF step \in {"done", "failClosed"} THEN "off" ELSE step
        /\ attempted' = (attempted \/ step = "front")
        /\ job' = CASE step = "done" -> [job EXCEPT !.status = "settled"]
                    [] step = "failClosed" -> [job EXCEPT !.status = "failed"]
                    [] OTHER -> job
    /\ UNCHANGED <<chainVars, session, faults>>

\* Mutants: the mark is only shown, or is a status of its own.

\* markFronted: a resumed job that was marked before keeps its status.
Marked(j) == IF j.held THEN j
             ELSE [j EXCEPT !.held = TRUE,
                            !.status = IF @ = "confirming" THEN "fronted" ELSE @]

\* paymentStatusForHash first: a payment made or in flight is adopted.
DriverFindsPayment ==
    /\ pc = "front" /\ front \in {"pending", "settled"}
    /\ job' = [Marked(job) EXCEPT !.p = (front = "settled")]
    /\ pc' = IF front = "settled" THEN "tick" ELSE "wait"
    /\ UNCHANGED <<chainVars, session, attempted, faults>>

\* The mint target is computed on fresh tips and the route is checked against it.
DriverMints ==
    /\ pc = "front" /\ front \in {"none", "failed"}
    /\ \/ /\ OrderingGate(btc, seq) /\ pc' = "send"
          /\ cover' = btc + (TSeq - seq) /\ expiry' = MintTarget - btc
       \/ ~OrderingGate(btc, seq) /\ pc' = "tick" /\ UNCHANGED <<cover, expiry>>
    /\ UNCHANGED <<btc, seq, due, recoup, front, aleg, job, session, attempted, faults>>

\* sendpay adds the route's delta to the height it is sent at.
DriverPays ==
    /\ pc = "send" /\ front' = "pending" /\ pc' = "mark"
    /\ expiry' = btc + expiry
    /\ UNCHANGED <<btc, seq, cover, due, recoup, aleg, job, session, attempted, faults>>

DriverMarks ==
    /\ pc = "mark" /\ job' = Marked(job) /\ pc' = "wait"
    /\ UNCHANGED <<chainVars, session, attempted, faults>>

\* waitsendpay returns P, or fails, or runs into its time limit.
DriverAdoptsP ==
    /\ pc = "wait" /\ front = "settled"
    /\ job' = [job EXCEPT !.p = TRUE] /\ pc' = "tick"
    /\ UNCHANGED <<chainVars, session, attempted, faults>>

WaitEnds ==
    /\ pc = "wait"
    /\ \/ front = "failed" /\ UNCHANGED faults
       \/ front = "pending" /\ (SlowFront \/ FrontGate(btc, seq)) /\ Fault
    /\ pc' = "tick"
    /\ UNCHANGED <<chainVars, job, session, attempted>>

DriverClaims ==
    /\ pc = "claim"
    /\ recoup' = IF recoup = "mined" THEN "claimed" ELSE recoup
    /\ pc' = "tick"
    /\ UNCHANGED <<btc, seq, cover, expiry, due, front, aleg, job, session, attempted, faults>>

\* A call raises before it has done anything: the loop re-observes.
DriverThrows ==
    /\ pc \in {"front", "send", "claim"} /\ Fault /\ pc' = "tick"
    /\ UNCHANGED <<chainVars, job, session, attempted>>

Driver == \/ DriverTicks \/ DriverFindsPayment \/ DriverMints \/ DriverPays
          \/ DriverMarks \/ DriverAdoptsP \/ WaitEnds \/ DriverClaims \/ DriverThrows

-----------------------------------------------------------------------------
(* The process.                                                             *)

\* maxTicks: resumable only if this session has not tried to front.
SessionEnds ==
    /\ pc = "tick" /\ Fault
    /\ SlowFront \/ front \notin {"pending", "settled"}
    /\ job' = [job EXCEPT !.status = IF attempted THEN "failed" ELSE "interrupted"]
    /\ pc' = "off"
    /\ UNCHANGED <<chainVars, session, attempted>>

ProcessStops ==
    /\ pc # "down" /\ Fault
    /\ UnmarkedStop \/ pc # "mark"
    /\ SlowFront \/ ~InFlight \/ FrontGate(btc, seq)
    /\ pc' = "down" /\ session' = FALSE /\ attempted' = FALSE
    /\ UNCHANGED <<chainVars, job>>

Boots ==
    /\ pc = "down"
    /\ job' = [job EXCEPT !.status = IF @ \in {"settled", "failed"} THEN @
                                     ELSE IF Resumable THEN "confirming" ELSE "interrupted"]
    /\ pc' = IF Resumable THEN "tick" ELSE "off"
    /\ UNCHANGED <<chainVars, session, attempted, faults>>

Next == Chains \/ HoldReady \/ HandOff \/ Driver \/ SessionEnds \/ ProcessStops \/ Boots

Spec == Init /\ [][Next]_vars

\* The chains advance, the poll loop runs on, the process comes back, and a taker
\* settles once P is public.
Fairness ==
    /\ WF_vars(MineBtc) /\ WF_vars(MineSeq) /\ WF_vars(FrontLapses)
    /\ WF_vars(aleg = "claimed" /\ TakerSettles)
    /\ WF_vars(Driver) /\ SF_vars(DriverTicks /\ (pc' # "tick")) /\ WF_vars(Boots)

FairSpec == Spec /\ Fairness

-----------------------------------------------------------------------------
(* Properties                                                               *)

\* The front the taker took is recouped: the maker never has its BTC back once the
\* LSP's payment settled (stepReceiverLn: "refuse to front ... cannot recoup").
FrontIsRecouped == front = "settled" => recoup \notin {"refunded", "gone"}

\* A taker whose asset the maker took is paid: the front never lapses first
\* (checkBridgeLocktimeOrdering, requiredTakerHold).
TakerIsPaid == aleg = "claimed" => front # "failed"

\* While a front may still settle, a driver serves the job or a boot will.
FrontIsServed == front \in {"pending", "settled"} /\ recoup = "mined" => Served

\* The HTLC is claimed before its maker could take it back.
ClaimedInTime == [][recoup' = "claimed" /\ recoup # "claimed" => btc < TBtc]_vars

\* A front that settled ends in the LSP's claim.
SettledFrontIsClaimed == front = "settled" ~> recoup = "claimed"

\* The bridge implements the intermediary's promise, with its Lightning payment as
\* the front and the maker's HTLC as the recoup.
Leg == INSTANCE FrontedLeg WITH
    front  <- CASE front = "none" -> "none"
                [] front = "pending" -> "out"
                [] front = "settled" -> "paid"
                [] front = "failed" -> "back",
    recoup <- CASE recoup \in {"mempool", "gone"} -> "none"
                [] recoup = "mined" -> "secured"
                [] recoup = "claimed" -> "taken"
                [] recoup = "refunded" -> "released"

\* Every behaviour of the bridge is one the abstract fronted leg allows.
ImplementsFrontedLeg == Leg!Spec

\* Who paid has what it paid for: the LSP the maker's BTC for its front, the taker
\* the front for its asset.
BothArePaid == TypeOK /\ FrontIsRecouped /\ FrontIsServed /\ TakerIsPaid

\* A settled front is claimed, and before the maker's refund opens.
FrontEnds == ClaimedInTime /\ SettledFrontIsClaimed
=============================================================================
