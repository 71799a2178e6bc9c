----------------------------- MODULE SwapSlot ------------------------------
(***************************************************************************)
(* The storage of xswap.js under several swaps: one in-memory record       *)
(* (SWAP), its one copy on disk (swk.sequentia.xswap) and the parked list  *)
(* (swk.sequentia.xswap.parked) that a timer sweeps.  Every continuation   *)
(* in the module reads and writes SWAP, so a continuation of one swap may  *)
(* run while the slot holds another.                                       *)
(*                                                                         *)
(* ForwardSwap models one swap against its maker and chains; here a swap   *)
(* is reduced to what the slot can lose: whether its BTC is locked and     *)
(* which record holds the only material that can reclaim it.               *)
(***************************************************************************)
EXTENDS FiniteSets

CONSTANTS
    Swaps,            \* the takes the user makes in one wallet
    Sweeps,           \* runs of resumeParkedRefunds that may be alive at once
    None,             \* no swap
    ConcurrentTakes,  \* a take may start while another is not yet locked
    LateWrites,       \* a continuation may run when the slot is another swap's
    SweepRaces,       \* a park or a sweep may start while a sweep is running
    StubInterference  \* a render may hit a lock's stub, an Abandon any stub

ASSUME SlotAssumption ==
    /\ None \notin Swaps
    /\ {ConcurrentTakes, LateWrites, SweepRaces, StubInterference}
        \subseteq BOOLEAN

VARIABLES
    mem,      \* SWAP: the record in memory
    disk,     \* the persisted record
    parked,   \* the parked list on disk: entries [swap, leg]
    run,      \* where runForwardCourier of each swap is
    btc,      \* each swap's BTC HTLC
    mature,   \* the swaps whose T_btc has passed
    sweep     \* each sweep's entries still to do and to keep

vars == <<mem, disk, parked, run, btc, mature, sweep>>

\* A record: whose keys and script it holds, its state, and whose outpoint
\* (btc_leg) and asset leg (seq_leg) were written into it.
NoRec == [swap |-> None, state |-> "none", leg |-> None, asset |-> None]
Records == [swap : Swaps \union {None}, leg : Swaps \union {None},
            asset : Swaps \union {None},
            state : {"none", "quoted", "pending", "seq_locked", "seq_claimed",
                     "refunded", "failed"}]
Quoted(s) == [swap |-> s, state |-> "quoted", leg |-> None, asset |-> None]
Stub(s)   == [swap |-> s, state |-> "pending", leg |-> None, asset |-> None]
Entries   == [swap : Swaps, leg : Swaps]
Idle      == [on |-> FALSE, todo |-> {}, keep |-> {}]

TypeOK ==
    /\ mem \in Records /\ disk \in Records
    /\ parked \subseteq Entries
    /\ run \in [Swaps -> {"off", "open", "fund", "posted", "await"}]
    /\ btc \in [Swaps -> {"none", "locked", "refunded", "paid"}]
    /\ mature \subseteq Swaps
    /\ sweep \in [Sweeps -> [on : BOOLEAN, todo : SUBSET Entries, keep : SUBSET Entries]]

Init ==
    /\ mem = NoRec /\ disk = NoRec /\ parked = {}
    /\ run = [s \in Swaps |-> "off"] /\ btc = [s \in Swaps |-> "none"]
    /\ mature = {} /\ sweep = [w \in Sweeps |-> Idle]

-----------------------------------------------------------------------------
(* The record                                                               *)

\* A continuation of s runs while the slot holds r.
MayTouch(s, r) == LateWrites \/ r.swap \in {s, None}

\* saveSwap after an assignment to SWAP.
Save(r) == mem' = r /\ disk' = r

\* isForwardComplete, and the record's BTC is locked as far as it knows.
Complete(r)         == r.state = "seq_claimed"
LockedUnrefunded(r) == r.leg # None /\ r.state \notin {"refunded"}

\* Mutant: a FAILED swap is finished, whatever it locked.
FailedIsFree(r) == r.state \in {"pending", "seq_locked", "seq_claimed"}

\* hasInFlight's verdict on the record it has just loaded.
InFlight(r) ==
    /\ r # NoRec
    /\ IF r.state = "failed" THEN LockedUnrefunded(r) ELSE r.state # "refunded"

ParkEligible(r) == r.leg # None /\ r.asset = None /\ r.state \in {"pending", "failed"}

\* Mutant: an abandon clears whatever it cannot park.
ClearAlways(r) == r # NoRec
ClearAllowed(r) == r # NoRec /\ (~LockedUnrefunded(r) \/ Complete(r))

NoLock == \A s \in Swaps : run[s] \notin {"fund", "posted"}

-----------------------------------------------------------------------------
(* One take: runForwardCourier                                              *)

\* Its catch: the record stays if it holds an outpoint, else SWAP is null.
BackToComposer == IF mem.leg # None THEN mem ELSE NoRec

\* reviewCross asks hasInFlight, which loads the disk over SWAP; the take then
\* starts with an in-memory record that is not persisted.
Take(s) ==
    /\ run[s] = "off" /\ btc[s] = "none" /\ disk.swap # s
    /\ ~InFlight(disk)
    /\ ConcurrentTakes \/ \A t \in Swaps : run[t] \notin {"open", "fund", "posted"}
    /\ mem' = Quoted(s) /\ run' = [run EXCEPT ![s] = "open"]
    /\ UNCHANGED <<disk, parked, btc, mature, sweep>>

\* hasInFlight from a render, the tray or the Back button.
LoadSwap ==
    /\ mem # disk /\ mem' = disk
    /\ UNCHANGED <<disk, parked, run, btc, mature, sweep>>

\* No maker answered, or Cancel in the modal: SWAP = null, nothing saved.
Leave(s) ==
    /\ run[s] = "open" /\ MayTouch(s, mem)
    /\ mem' = NoRec /\ run' = [run EXCEPT ![s] = "off"]
    /\ UNCHANGED <<disk, parked, btc, mature, sweep>>

\* lockBtcLeg puts the stub of s into the slot and on disk; it asks nothing
\* about what the slot held.
Lock(s) ==
    /\ run[s] = "open"
    /\ Save(Stub(s)) /\ run' = [run EXCEPT ![s] = "fund"]
    /\ UNCHANGED <<parked, btc, mature, sweep>>

\* The broadcast is accepted; or refused: back to the composer, stub on disk.
PostFunding(s) ==
    /\ run[s] = "fund"
    /\ \/ /\ btc' = [btc EXCEPT ![s] = "locked"] /\ run' = [run EXCEPT ![s] = "posted"]
          /\ UNCHANGED mem
       \/ /\ run' = [run EXCEPT ![s] = "off"] /\ UNCHANGED btc
          /\ MayTouch(s, mem) /\ mem' = BackToComposer
    /\ UNCHANGED <<disk, parked, mature, sweep>>

\* onBroadcast writes the outpoint into SWAP, whichever swap it now is; with
\* SWAP null the assignment throws.
RecordOutpoint(s) ==
    /\ run[s] = "posted" /\ MayTouch(s, mem)
    /\ IF mem = NoRec
         THEN run' = [run EXCEPT ![s] = "off"] /\ UNCHANGED <<mem, disk>>
         ELSE run' = [run EXCEPT ![s] = "await"] /\ Save([mem EXCEPT !.leg = s])
    /\ UNCHANGED <<parked, btc, mature, sweep>>

\* SeqLegLocked: leg and state are written into SWAP; the slice and script
\* checks then fail for another swap's record, or if the maker locked wrongly.
GetsSeqLeg(s) ==
    /\ run[s] = "await" /\ MayTouch(s, mem)
    /\ run' = [run EXCEPT ![s] = "off"]
    /\ IF mem = NoRec
         THEN UNCHANGED <<mem, disk>>
         ELSE \E legOk \in {mem.swap = s, FALSE} :
                Save([mem EXCEPT !.asset = s,
                                 !.state = IF legOk THEN "seq_locked" ELSE "failed"])
    /\ UNCHANGED <<parked, btc, mature, sweep>>

\* The session is lost.
LosesSession(s) ==
    /\ run[s] = "await" /\ MayTouch(s, mem)
    /\ run' = [run EXCEPT ![s] = "off"]
    /\ mem' = BackToComposer
    /\ UNCHANGED <<disk, parked, btc, mature, sweep>>

-----------------------------------------------------------------------------
(* Resume hooks, off-ramps, reloads                                         *)

\* resumeFunding on a stub no run is funding: its script's address is scanned
\* (a scan that fails is ForwardSwap's subject).
ResumeFunding ==
    /\ mem.state = "pending" /\ mem.leg = None /\ (StubInterference \/ NoLock)
    /\ IF btc[mem.swap] = "locked"
         THEN Save([mem EXCEPT !.leg = mem.swap])
         ELSE Save(NoRec)
    /\ UNCHANGED <<parked, run, btc, mature, sweep>>

\* resumeCourierStranded: the maker's leg is at this record's HTLC address.
FindsStrandedLeg ==
    /\ mem.state = "pending" /\ mem.leg # None /\ mem.asset = None
    /\ run[mem.swap] = "off" /\ btc[mem.swap] = "locked"
    /\ Save([mem EXCEPT !.asset = mem.swap, !.state = "seq_locked"])
    /\ UNCHANGED <<parked, run, btc, mature, sweep>>

\* The claim of a verified leg; the BTC is then the maker's.
ClaimSeq ==
    /\ mem.state = "seq_locked" /\ mem.asset = mem.swap /\ btc[mem.swap] = "locked"
    /\ Save([mem EXCEPT !.state = "seq_claimed"])
    /\ btc' = [btc EXCEPT ![mem.swap] = "paid"]
    /\ UNCHANGED <<parked, run, mature, sweep>>

\* onRefundBtc: the node accepts a refund of the outpoint the record's own
\* script locked.
RefundBtc ==
    /\ LockedUnrefunded(mem) /\ ~Complete(mem) /\ mem.leg = mem.swap
    /\ mem.swap \in mature /\ btc[mem.swap] = "locked"
    /\ btc' = [btc EXCEPT ![mem.swap] = "refunded"]
    /\ Save([mem EXCEPT !.state = "refunded"])
    /\ UNCHANGED <<parked, run, mature, sweep>>

\* onPark: reload, append unless the txid is listed, free the slot.
Park ==
    /\ ParkEligible(disk)
    /\ SweepRaces \/ \A w \in Sweeps : ~sweep[w].on
    /\ parked' = parked \union
         (IF \E p \in parked : p.leg = disk.leg THEN {}
          ELSE {[swap |-> disk.swap, leg |-> disk.leg]})
    /\ Save(NoRec)
    /\ UNCHANGED <<run, btc, mature, sweep>>

\* onAbandon of a record it need not keep or park; a stub has no outpoint, so
\* it is cleared without a look at the chain.
Abandon ==
    /\ ClearAllowed(disk) /\ (StubInterference \/ disk.state # "pending")
    /\ Save(NoRec)
    /\ UNCHANGED <<parked, run, btc, mature, sweep>>

\* The page closes at any point and opens again.
Reload ==
    /\ mem' = disk /\ run' = [s \in Swaps |-> "off"]
    /\ sweep' = [w \in Sweeps |-> Idle]
    /\ UNCHANGED <<disk, parked, btc, mature>>

\* Bitcoin reaches T_btc of s.
Mature(s) ==
    /\ btc[s] # "none" /\ mature' = mature \union {s}
    /\ UNCHANGED <<mem, disk, parked, run, btc, sweep>>

-----------------------------------------------------------------------------
(* The sweeper: resumeParkedRefunds                                         *)

\* The list, then the tip: what has not matured is kept.
SweepReads(w) ==
    /\ ~sweep[w].on /\ parked # {}
    /\ SweepRaces \/ \A v \in Sweeps : ~sweep[v].on
    /\ LET ripe == {p \in parked : p.swap \in mature}
       IN sweep' = [sweep EXCEPT ![w] =
                      [on |-> TRUE, todo |-> ripe, keep |-> parked \ ripe]]
    /\ UNCHANGED <<mem, disk, parked, run, btc, mature>>

\* Mutant: an entry whose refund fails is dropped.
RefundOrDrop(w, p) ==
    /\ sweep' = [sweep EXCEPT ![w].todo = @ \ {p}]
    /\ btc' \in {btc, [btc EXCEPT ![p.leg] = "refunded"]}
    /\ p.leg = p.swap /\ btc[p.leg] = "locked"

\* One entry's refund: accepted, or it throws and the entry is kept.
RefundOrKeep(w, p) ==
    \/ /\ p.leg = p.swap /\ btc[p.leg] = "locked"
       /\ btc' = [btc EXCEPT ![p.leg] = "refunded"]
       /\ sweep' = [sweep EXCEPT ![w].todo = @ \ {p}]
    \/ /\ sweep' = [sweep EXCEPT ![w].todo = @ \ {p}, ![w].keep = @ \union {p}]
       /\ UNCHANGED btc

SweepRefunds(w) ==
    /\ \E p \in sweep[w].todo : RefundOrKeep(w, p)
    /\ UNCHANGED <<mem, disk, parked, run, mature>>

\* saveParked(keep) replaces the whole list.
SweepWrites(w) ==
    /\ sweep[w].on /\ sweep[w].todo = {}
    /\ parked' = sweep[w].keep
    /\ sweep' = [sweep EXCEPT ![w] = Idle]
    /\ UNCHANGED <<mem, disk, run, btc, mature>>

Next ==
    \/ \E s \in Swaps : \/ Take(s) \/ Leave(s) \/ Lock(s) \/ PostFunding(s)
                        \/ RecordOutpoint(s) \/ GetsSeqLeg(s) \/ LosesSession(s)
                        \/ Mature(s)
    \/ LoadSwap \/ ResumeFunding \/ FindsStrandedLeg \/ ClaimSeq \/ RefundBtc
    \/ Park \/ Abandon \/ Reload
    \/ \E w \in Sweeps : SweepReads(w) \/ SweepRefunds(w) \/ SweepWrites(w)

Spec == Init /\ [][Next]_vars

\* Blocks arrive; the timer keeps sweeping, and a refund that is retried on
\* every pass does not fail, and is not cut by a reload, for ever.
SweeperFairness ==
    /\ \A s \in Swaps : WF_vars(Mature(s))
    /\ WF_vars(\E w \in Sweeps : SweepReads(w))
    /\ WF_vars(\E w \in Sweeps : SweepRefunds(w))
    /\ WF_vars(\E w \in Sweeps : SweepWrites(w))
    /\ \A s \in Swaps : SF_vars(\E w \in Sweeps : SweepRefunds(w) /\ btc'[s] # btc[s])

FairSpec == Spec /\ SweeperFairness

-----------------------------------------------------------------------------
(* Properties                                                               *)

\* The record that leaves the disk while its BTC is locked leaves it for the
\* parked list (reviewCross: "starting another would OVERWRITE it and strand
\* those funds ... this guard closes the strand hole safely").
SlotKeepsLockedBtc ==
    [][\A s \in Swaps :
         disk.swap = s /\ btc[s] = "locked" /\ disk'.swap # s
           => \E p \in parked' : p.swap = s]_vars

\* An entry leaves the parked list only once its BTC is refunded
\* (resumeParkedRefunds: "refund what has matured, drop what is done, keep
\* (and retry) the rest").
ParkedUntilRefunded ==
    [][\A p \in parked : p \notin parked' => btc[p.leg] = "refunded"]_vars

\* An outpoint or asset leg on disk is that of the swap whose keys and script
\* the record holds (onPark: "the slot frees immediately").
LegsBelongToTheRecord ==
    disk.leg \in {None, disk.swap} /\ disk.asset \in {None, disk.swap}

\* Every locked BTC leg has its reclaim material on disk, in the slot or in
\* the parked list, across parks, sweeps, takes and reloads.
NoFundsOffRecord ==
    \A s \in Swaps : btc[s] = "locked" =>
        disk.swap = s \/ \E p \in parked : p.swap = s

\* A parked swap is refunded without the user.
ParkedIsRefunded ==
    \A s \in Swaps :
        (\E p \in parked : p.swap = s) ~> btc[s] = "refunded"
=============================================================================
