--------------------------- MODULE SwapSlotProofs ---------------------------
(***************************************************************************)
(* Proofs about SwapSlot for any number of swaps and sweeps.  The slot     *)
(* argument needs takes, continuations and stubs that keep apart; the list *)
(* argument needs sweeps that keep apart; neither needs the other's.       *)
(*                                                                         *)
(* The swaps of the slot reach their makers through courier sessions; what *)
(* one end of a session promises is proved at the end, for any number of   *)
(* frames and recv calls.                                                  *)
(***************************************************************************)
EXTENDS SwapSlot, CourierTransport, SequenceTheorems, TLAPS

\* A record that is not empty names its swap.
Named(r) == r.swap = None => r = NoRec
TypeInv  == TypeOK /\ Named(mem) /\ Named(disk)

\* The slot's invariant.  Memory is the disk, nothing, or a quoted take.
MemFollowsDisk ==
    \/ mem = disk
    \/ mem = NoRec
    \/ mem.swap # None /\ mem = Quoted(mem.swap) /\ run[mem.swap] = "open"

\* What the record on disk says of its own swap.
RecordIsTrue ==
    /\ LegsBelongToTheRecord
    /\ disk.swap # None /\ disk.leg = None => disk.state = "pending"
    /\ disk.state \in {"refunded", "seq_claimed"} => btc[disk.swap] # "locked"
    /\ \A s \in Swaps : run[s] = "await" /\ disk.swap = s => disk.leg = s

\* One take is before its outpoint; it owns the slot, or the slot holds no
\* locked BTC.
OneLock ==
    \A s, t \in Swaps :
        run[s] \in {"open", "fund", "posted"} /\ run[t] \in {"open", "fund", "posted"}
            => s = t
LockOwnsSlot ==
    \A s \in Swaps :
        /\ run[s] \in {"fund", "posted"} => disk = Stub(s)
        /\ run[s] = "open" => disk.swap = None \/ btc[disk.swap] # "locked"

\* A parked entry holds its own outpoint.
EntriesOwnTheirLegs ==
    /\ \A p \in parked : p.swap = p.leg
    /\ \A w \in Sweeps : \A p \in sweep[w].todo \union sweep[w].keep : p.swap = p.leg

SlotInv == /\ TypeInv /\ MemFollowsDisk /\ RecordIsTrue /\ OneLock /\ LockOwnsSlot
           /\ EntriesOwnTheirLegs

\* The list's invariant: a running sweep will write back every entry whose
\* BTC is still locked.
FreshLock == \A s \in Swaps : run[s] \in {"open", "fund"} => btc[s] = "none"
OneSweep == \A v, w \in Sweeps : sweep[v].on /\ sweep[w].on => v = w
SweepCovers ==
    \A w \in Sweeps : sweep[w].on =>
        \A p \in parked : p \in sweep[w].todo \union sweep[w].keep
                          \/ btc[p.leg] = "refunded"
ListInv == TypeInv /\ FreshLock /\ OneSweep /\ SweepCovers

LEMMA TypeInit == Init => TypeInv
  BY SlotAssumption DEF Init, TypeInv, TypeOK, Named, NoRec, Records, Entries, Idle

\* What a continuation writes into a record leaves it a record.
LEMMA AssetWritten ==
    ASSUME NEW r \in Records, NEW a \in Swaps \union {None},
           NEW st \in {"seq_locked", "failed"}
    PROVE  LET x == [r EXCEPT !.asset = a, !.state = st]
           IN /\ x \in Records /\ x.asset = a /\ x.state = st
              /\ x.swap = r.swap /\ x.leg = r.leg
  BY DEF Records

\* A sweep that moves an entry from todo to keep is still a sweep.
LEMMA EntryKept ==
    ASSUME NEW x \in [on : BOOLEAN, todo : SUBSET Entries, keep : SUBSET Entries],
           NEW p \in x.todo
    PROVE  [x EXCEPT !.todo = @ \ {p}, !.keep = @ \union {p}]
             \in [on : BOOLEAN, todo : SUBSET Entries, keep : SUBSET Entries]
  OBVIOUS

\* A sweep's attempt at one entry: the entry leaves todo, refunded or kept.
LEMMA SweepMoves ==
    ASSUME sweep \in [Sweeps -> [on : BOOLEAN, todo : SUBSET Entries, keep : SUBSET Entries]],
           NEW w \in Sweeps, SweepRefunds(w)
    PROVE  \E p \in sweep[w].todo :
             /\ sweep'[w].on = sweep[w].on
             /\ sweep'[w].todo = sweep[w].todo \ {p}
             /\ \/ /\ btc[p.leg] = "locked" /\ sweep'[w].keep = sweep[w].keep
                   /\ btc' = [btc EXCEPT ![p.leg] = "refunded"]
                \/ /\ sweep'[w].keep = sweep[w].keep \union {p}
                   /\ UNCHANGED btc
             /\ \A v \in Sweeps \ {w} : sweep'[v] = sweep[v]
             /\ UNCHANGED <<mem, disk, parked, run, mature>>
  <1>1. PICK p \in sweep[w].todo : RefundOrKeep(w, p)
    BY DEF SweepRefunds
  <1>2. UNCHANGED <<mem, disk, parked, run, mature>>
    BY DEF SweepRefunds
  <1> QED BY <1>1, <1>2 DEF RefundOrKeep

\* A step of the storage keeps its types.
LEMMA TypeStep == ASSUME TypeInv, [Next]_vars PROVE TypeInv'
  <1> USE SlotAssumption DEF TypeInv, TypeOK, Named, NoRec, Records, Entries, Idle
  <1>1. ASSUME NEW s \in Swaps, Take(s) PROVE TypeInv'
    BY <1>1 DEF Take, Quoted
  <1>2. ASSUME NEW s \in Swaps, Leave(s) PROVE TypeInv'
    BY <1>2 DEF Leave
  <1>3. ASSUME NEW s \in Swaps, Lock(s) PROVE TypeInv'
    BY <1>3 DEF Lock, Stub, Save
  <1>4. ASSUME NEW s \in Swaps, PostFunding(s) PROVE TypeInv'
    BY <1>4 DEF PostFunding, BackToComposer
  <1>5. ASSUME NEW s \in Swaps, RecordOutpoint(s) PROVE TypeInv'
    BY <1>5 DEF RecordOutpoint, Save
  <1>6. ASSUME NEW s \in Swaps, GetsSeqLeg(s) PROVE TypeInv'
    <2>1. CASE mem = NoRec
      BY <1>6, <2>1 DEF GetsSeqLeg, Save
    <2>2. CASE mem # NoRec
      <3>1. PICK legOk \in {mem.swap = s, FALSE} :
               Save([mem EXCEPT !.asset = s,
                                !.state = IF legOk THEN "seq_locked" ELSE "failed"])
        BY <1>6, <2>2 DEF GetsSeqLeg
      <3>2. mem' \in Records /\ disk' = mem' /\ mem'.swap = mem.swap
        <4>1. CASE legOk
          BY <3>1, <4>1, AssetWritten DEF Save
        <4>2. CASE ~legOk
          BY <3>1, <4>2, AssetWritten DEF Save
        <4> QED BY <3>1, <4>1, <4>2
      <3>3. UNCHANGED <<parked, btc, mature, sweep>> /\ run' = [run EXCEPT ![s] = "off"]
        BY <1>6 DEF GetsSeqLeg
      <3>4. mem.swap # None
        BY <2>2
      <3> QED BY <3>2, <3>3, <3>4
    <2> QED BY <2>1, <2>2
  <1>7. ASSUME NEW s \in Swaps, LosesSession(s) PROVE TypeInv'
    BY <1>7 DEF LosesSession, BackToComposer
  <1>8. ASSUME NEW s \in Swaps, Mature(s) PROVE TypeInv'
    BY <1>8 DEF Mature
  <1>9. ASSUME LoadSwap PROVE TypeInv'
    BY <1>9 DEF LoadSwap
  <1>10. ASSUME ResumeFunding PROVE TypeInv'
    BY <1>10 DEF ResumeFunding, Save
  <1>11. ASSUME FindsStrandedLeg PROVE TypeInv'
    <2>1. mem' = [mem EXCEPT !.asset = mem.swap, !.state = "seq_locked"] /\ disk' = mem'
      BY <1>11 DEF FindsStrandedLeg, Save
    <2>2. mem' \in Records /\ mem'.swap = mem.swap
      BY <2>1, AssetWritten
    <2>3. mem.swap # None /\ UNCHANGED <<parked, run, btc, mature, sweep>>
      BY <1>11 DEF FindsStrandedLeg
    <2> QED BY <2>1, <2>2, <2>3
  <1>12. ASSUME ClaimSeq PROVE TypeInv'
    BY <1>12 DEF ClaimSeq, Save
  <1>13. ASSUME RefundBtc PROVE TypeInv'
    BY <1>13 DEF RefundBtc, Save, LockedUnrefunded
  <1>14. ASSUME Park PROVE TypeInv'
    BY <1>14 DEF Park, Save, ParkEligible
  <1>15. ASSUME Abandon PROVE TypeInv'
    BY <1>15 DEF Abandon, Save
  <1>16. ASSUME Reload PROVE TypeInv'
    BY <1>16 DEF Reload
  <1>17. ASSUME NEW w \in Sweeps, SweepReads(w) PROVE TypeInv'
    BY <1>17 DEF SweepReads
  <1>18. ASSUME NEW w \in Sweeps, SweepRefunds(w) PROVE TypeInv'
    <2>1. PICK p \in sweep[w].todo : RefundOrKeep(w, p)
      BY <1>18 DEF SweepRefunds
    <2>2. UNCHANGED <<mem, disk, parked, run, mature>>
      BY <1>18 DEF SweepRefunds
    <2>3. CASE /\ p.leg = p.swap /\ btc[p.leg] = "locked"
               /\ btc' = [btc EXCEPT ![p.leg] = "refunded"]
               /\ sweep' = [sweep EXCEPT ![w].todo = @ \ {p}]
      BY <2>2, <2>3
    <2>4. CASE /\ sweep' = [sweep EXCEPT ![w].todo = @ \ {p},
                                         ![w].keep = @ \union {p}]
               /\ UNCHANGED btc
      <3>1. sweep[w] \in [on : BOOLEAN, todo : SUBSET Entries, keep : SUBSET Entries]
        OBVIOUS
      <3>2. [sweep[w] EXCEPT !.todo = @ \ {p}, !.keep = @ \union {p}]
              \in [on : BOOLEAN, todo : SUBSET Entries, keep : SUBSET Entries]
        BY <3>1, EntryKept
      <3>3. sweep' = [sweep EXCEPT ![w] = [sweep[w] EXCEPT !.todo = @ \ {p},
                                                          !.keep = @ \union {p}]]
        BY <2>4
      <3> QED BY <2>2, <2>4, <3>2, <3>3
    <2> QED BY <2>1, <2>3, <2>4 DEF RefundOrKeep
  <1>19. ASSUME NEW w \in Sweeps, SweepWrites(w) PROVE TypeInv'
    BY <1>19 DEF SweepWrites
  <1>20. ASSUME UNCHANGED vars PROVE TypeInv'
    BY <1>20 DEF vars
  <1> QED BY <1>1, <1>2, <1>3, <1>4, <1>5, <1>6, <1>7, <1>8, <1>9, <1>10, <1>11, <1>12, <1>13, <1>14, <1>15, <1>16, <1>17, <1>18, <1>19, <1>20 DEF Next

\* The storage always holds well-formed records and entries, whatever races.
THEOREM TypeCorrect == Spec => []TypeOK
  <1>1. Init => TypeInv BY TypeInit
  <1>2. TypeInv /\ [Next]_vars => TypeInv' BY TypeStep
  <1>3. TypeInv => TypeOK BY DEF TypeInv
  <1> QED BY <1>1, <1>2, <1>3, PTL DEF Spec

Calm == ~ConcurrentTakes /\ ~LateWrites /\ ~StubInterference

LEMMA SlotInit == Init => SlotInv
  BY TypeInit, SlotAssumption
     DEF SlotInv, Init, NoRec, MemFollowsDisk, RecordIsTrue, LegsBelongToTheRecord,
         OneLock, LockOwnsSlot, EntriesOwnTheirLegs, Idle

\* Every step of a calm slot keeps its invariant.
LEMMA SlotStep == ASSUME Calm, SlotInv, [Next]_vars PROVE SlotInv'
  <1> USE SlotAssumption
      DEF Calm, SlotInv, TypeInv, TypeOK, Named, NoRec, Records, Entries, Idle, Stub,
          Quoted, MemFollowsDisk, RecordIsTrue, LegsBelongToTheRecord, OneLock,
          LockOwnsSlot, EntriesOwnTheirLegs
  <1> DEFINE Rest == /\ MemFollowsDisk /\ RecordIsTrue /\ OneLock /\ LockOwnsSlot
                     /\ EntriesOwnTheirLegs
  <1>0. TypeInv'
    BY TypeStep
  <1>1. ASSUME NEW s \in Swaps, Take(s) PROVE Rest'
    BY <1>0, <1>1 DEF Take, InFlight, LockedUnrefunded
  <1>2. ASSUME NEW s \in Swaps, Leave(s) PROVE Rest'
    BY <1>0, <1>2 DEF Leave, MayTouch
  <1>3. ASSUME NEW s \in Swaps, Lock(s) PROVE Rest'
    BY <1>0, <1>3 DEF Lock, Save
  <1>4. ASSUME NEW s \in Swaps, PostFunding(s) PROVE Rest'
    BY <1>0, <1>4 DEF PostFunding, BackToComposer, MayTouch
  <1>5. ASSUME NEW s \in Swaps, RecordOutpoint(s) PROVE Rest'
    BY <1>0, <1>5 DEF RecordOutpoint, Save, MayTouch
  <1>6. ASSUME NEW s \in Swaps, GetsSeqLeg(s) PROVE Rest'
    <2>1. CASE mem = NoRec
      BY <1>0, <1>6, <2>1 DEF GetsSeqLeg
    <2>2. CASE mem # NoRec
      <3>1. mem = disk /\ disk.swap = s /\ disk.leg = s
        BY <1>6, <2>2 DEF GetsSeqLeg, MayTouch
      <3>2. PICK legOk \in {mem.swap = s, FALSE} :
               Save([mem EXCEPT !.asset = s,
                                !.state = IF legOk THEN "seq_locked" ELSE "failed"])
        BY <1>6, <2>2 DEF GetsSeqLeg
      <3>3. /\ mem' = disk' /\ disk'.swap = s /\ disk'.leg = s /\ disk'.asset = s
            /\ disk'.state \in {"seq_locked", "failed"}
        BY <3>1, <3>2, AssetWritten DEF Save
      <3>4. /\ run[s] = "await" /\ run' = [run EXCEPT ![s] = "off"]
            /\ UNCHANGED <<parked, btc, sweep>>
        BY <1>6 DEF GetsSeqLeg
      <3>5. LockOwnsSlot'
        BY <3>1, <3>3, <3>4
      <3>6. RecordIsTrue'
        BY <1>0, <3>3, <3>4
      <3> QED BY <3>3, <3>4, <3>5, <3>6
    <2> QED BY <2>1, <2>2
  <1>7. ASSUME NEW s \in Swaps, LosesSession(s) PROVE Rest'
    BY <1>0, <1>7 DEF LosesSession, BackToComposer, MayTouch
  <1>8. ASSUME NEW s \in Swaps, Mature(s) PROVE Rest'
    BY <1>0, <1>8 DEF Mature
  <1>9. ASSUME LoadSwap PROVE Rest'
    BY <1>0, <1>9 DEF LoadSwap
  <1>10. ASSUME ResumeFunding PROVE Rest'
    BY <1>0, <1>10 DEF ResumeFunding, Save, NoLock
  <1>11. ASSUME FindsStrandedLeg PROVE Rest'
    BY <1>0, <1>11 DEF FindsStrandedLeg, Save
  <1>12. ASSUME ClaimSeq PROVE Rest'
    BY <1>0, <1>12 DEF ClaimSeq, Save
  <1>13. ASSUME RefundBtc PROVE Rest'
    BY <1>0, <1>13 DEF RefundBtc, Save, LockedUnrefunded, Complete
  <1>14. ASSUME Park PROVE Rest'
    BY <1>0, <1>14 DEF Park, Save, ParkEligible
  <1>15. ASSUME Abandon PROVE Rest'
    BY <1>0, <1>15 DEF Abandon, Save, ClearAllowed, LockedUnrefunded, Complete
  <1>16. ASSUME Reload PROVE Rest'
    BY <1>0, <1>16 DEF Reload
  <1>17. ASSUME NEW w \in Sweeps, SweepReads(w) PROVE Rest'
    BY <1>0, <1>17 DEF SweepReads
  <1>18. ASSUME NEW w \in Sweeps, SweepRefunds(w) PROVE Rest'
    <2>1. MemFollowsDisk'
      BY <1>0, <1>18 DEF SweepRefunds, RefundOrKeep
    <2>2. RecordIsTrue'
      BY <1>0, <1>18 DEF SweepRefunds, RefundOrKeep
    <2>3. OneLock'
      BY <1>0, <1>18 DEF SweepRefunds, RefundOrKeep
    <2>4. LockOwnsSlot'
      BY <1>0, <1>18 DEF SweepRefunds, RefundOrKeep
    <2>5. EntriesOwnTheirLegs'
      <3>1. PICK p \in sweep[w].todo :
               /\ sweep'[w].todo = sweep[w].todo \ {p}
               /\ sweep'[w].keep \subseteq sweep[w].keep \union {p}
               /\ \A v \in Sweeps \ {w} : sweep'[v] = sweep[v]
               /\ UNCHANGED parked
        BY <1>18, SweepMoves
      <3> QED BY <3>1
    <2> QED BY <2>1, <2>2, <2>3, <2>4, <2>5
  <1>19. ASSUME NEW w \in Sweeps, SweepWrites(w) PROVE Rest'
    BY <1>0, <1>19 DEF SweepWrites
  <1>20. ASSUME UNCHANGED vars PROVE Rest'
    BY <1>20 DEF vars
  <1> QED BY <1>0, <1>1, <1>2, <1>3, <1>4, <1>5, <1>6, <1>7, <1>8, <1>9, <1>10, <1>11, <1>12, <1>13, <1>14, <1>15, <1>16, <1>17, <1>18, <1>19, <1>20 DEF Next
\* The slot's invariant holds of every calm behaviour.
LEMMA SlotAlways == ASSUME Calm PROVE Spec => []SlotInv
  <1>1. Init => SlotInv BY SlotInit
  <1>2. SlotInv /\ [Next]_vars => SlotInv' BY SlotStep
  <1> QED BY <1>1, <1>2, PTL DEF Spec

\* The slot lets go of a swap whose BTC is locked only by parking it.
LEMMA SlotLetsGo ==
    ASSUME Calm, SlotInv, [Next]_vars,
           NEW s \in Swaps, disk.swap = s, btc[s] = "locked", disk'.swap # s
    PROVE  \E p \in parked' : p.swap = s
  <1> USE SlotAssumption
      DEF Calm, SlotInv, TypeInv, TypeOK, Named, NoRec, Records, MemFollowsDisk, Quoted,
          Save, RecordIsTrue, LegsBelongToTheRecord
  <1>1. ASSUME NEW t \in Swaps, Lock(t) PROVE FALSE
    BY <1>1 DEF Lock, LockOwnsSlot
  <1>2. ASSUME NEW t \in Swaps, RecordOutpoint(t) PROVE FALSE
    BY <1>2 DEF RecordOutpoint, MayTouch, LockOwnsSlot, Stub
  <1>3. ASSUME NEW t \in Swaps, GetsSeqLeg(t) PROVE FALSE
    <2>1. mem # NoRec
      BY <1>3 DEF GetsSeqLeg
    <2>2. mem.swap = s
      BY <1>3, <2>1 DEF GetsSeqLeg, MayTouch
    <2>3. PICK st \in {"seq_locked", "failed"} :
             disk' = [mem EXCEPT !.asset = t, !.state = st]
      BY <1>3, <2>1 DEF GetsSeqLeg
    <2> QED BY <2>2, <2>3, AssetWritten
  <1>4. ASSUME FindsStrandedLeg PROVE FALSE
    <2>1. disk' = [mem EXCEPT !.asset = mem.swap, !.state = "seq_locked"] /\ mem.swap = s
      BY <1>4 DEF FindsStrandedLeg
    <2> QED BY <2>1, AssetWritten
  <1>5. ASSUME ClaimSeq \/ RefundBtc PROVE FALSE
    BY <1>5 DEF ClaimSeq, RefundBtc, LockedUnrefunded
  <1>6. ASSUME Abandon PROVE FALSE
    BY <1>6 DEF Abandon, ClearAllowed, LockedUnrefunded, Complete
  <1>7. ASSUME ResumeFunding PROVE FALSE
    BY <1>7 DEF ResumeFunding
  <1>8. ASSUME Park PROVE \E p \in parked' : p.swap = s
    <2>1. disk.leg = s
      BY <1>8 DEF Park, ParkEligible
    <2>2. CASE \E p \in parked : p.leg = s
      BY <1>8, <2>1, <2>2 DEF Park, EntriesOwnTheirLegs
    <2>3. CASE ~\E p \in parked : p.leg = s
      <3>1. [swap |-> s, leg |-> s] \in parked'
        BY <1>8, <2>1, <2>3 DEF Park
      <3> QED BY <3>1
    <2> QED BY <2>2, <2>3
  <1>9. ASSUME UNCHANGED disk PROVE FALSE
    BY <1>9
  <1> QED
    BY <1>1, <1>2, <1>3, <1>4, <1>5, <1>6, <1>7, <1>8, <1>9
       DEF Next, vars, Take, Leave, PostFunding, LosesSession, Mature, LoadSwap, Reload,
           SweepReads, SweepRefunds, SweepWrites

\* A record whose BTC is locked leaves the slot only for the parked list, even
\* while sweeps race over that list.
THEOREM SlotSafe == ASSUME Calm PROVE Spec => SlotKeepsLockedBtc
  <1> DEFINE Kept == \A s \in Swaps : disk.swap = s /\ btc[s] = "locked" /\ disk'.swap # s
                                        => \E p \in parked' : p.swap = s
  <1>1. SlotInv /\ [Next]_vars => [Kept]_vars
    BY SlotLetsGo
  <1> QED BY <1>1, SlotAlways, PTL DEF Spec, SlotKeepsLockedBtc

-----------------------------------------------------------------------------
(* The parked list                                                          *)

LEMMA ListInit == Init => ListInv
  BY TypeInit DEF ListInv, Init, FreshLock, OneSweep, SweepCovers, Idle

\* A sweep's cover of the list survives every step: a refunded leg stays so.
LEMMA ListStep == ASSUME ~SweepRaces, ListInv, [Next]_vars PROVE ListInv'
  <1> DEFINE Cover == FreshLock /\ OneSweep /\ SweepCovers
  <1> USE SlotAssumption DEF ListInv, FreshLock, TypeInv, TypeOK, Entries, Idle, OneSweep, SweepCovers
  <1>0. TypeInv'
    BY TypeStep
  <1>1. ASSUME NEW w \in Sweeps, SweepReads(w) PROVE Cover'
    BY <1>0, <1>1 DEF SweepReads
  <1>2. ASSUME NEW w \in Sweeps, SweepRefunds(w) PROVE Cover'
    <2>1. PICK p \in sweep[w].todo :
             /\ sweep'[w].on = sweep[w].on
             /\ sweep'[w].todo = sweep[w].todo \ {p}
             /\ \/ /\ btc[p.leg] = "locked" /\ sweep'[w].keep = sweep[w].keep
                   /\ btc' = [btc EXCEPT ![p.leg] = "refunded"]
                \/ /\ sweep'[w].keep = sweep[w].keep \union {p}
                   /\ UNCHANGED btc
             /\ \A v \in Sweeps \ {w} : sweep'[v] = sweep[v]
             /\ UNCHANGED <<mem, disk, parked, run, mature>>
      BY <1>2, SweepMoves
    <2>2. FreshLock'
      BY <1>0, <2>1
    <2>3. OneSweep'
      BY <2>1
    <2>4. SweepCovers'
      BY <1>0, <2>1
    <2> QED BY <2>2, <2>3, <2>4
  <1>3. ASSUME NEW w \in Sweeps, SweepWrites(w) PROVE Cover'
    BY <1>0, <1>3 DEF SweepWrites
  <1>4. ASSUME Park PROVE Cover'
    BY <1>4 DEF Park
  <1>5. ASSUME Reload PROVE Cover'
    BY <1>5 DEF Reload
  <1>6. ASSUME NEW s \in Swaps, PostFunding(s) PROVE Cover'
    BY <1>6 DEF PostFunding
  <1>7. ASSUME ClaimSeq \/ RefundBtc PROVE Cover'
    BY <1>7 DEF ClaimSeq, RefundBtc
  <1>8. ASSUME NEW s \in Swaps,
               Take(s) \/ Leave(s) \/ Lock(s) \/ RecordOutpoint(s) \/ GetsSeqLeg(s)
                 \/ LosesSession(s) \/ Mature(s)
        PROVE  Cover'
    BY <1>8 DEF Take, Leave, Lock, RecordOutpoint, GetsSeqLeg, LosesSession, Mature
  <1>9. ASSUME UNCHANGED <<parked, btc, run, sweep>> PROVE Cover'
    BY <1>9
  <1> QED
    BY <1>0, <1>1, <1>2, <1>3, <1>4, <1>5, <1>6, <1>7, <1>8, <1>9
       DEF Next, vars, LoadSwap, ResumeFunding, FindsStrandedLeg, Abandon

\* The list drops no entry whose BTC is still locked.
LEMMA ListLetsGo ==
    ASSUME ~SweepRaces, ListInv, [Next]_vars, NEW p \in parked, p \notin parked'
    PROVE  btc[p.leg] = "refunded"
  <1>1. ASSUME NEW w \in Sweeps, SweepWrites(w) PROVE btc[p.leg] = "refunded"
    BY <1>1 DEF SweepWrites, ListInv, SweepCovers
  <1>2. ASSUME parked \subseteq parked' PROVE FALSE
    BY <1>2
  <1> QED
    BY <1>1, <1>2
       DEF Next, vars, Take, Leave, Lock, PostFunding, RecordOutpoint, GetsSeqLeg,
           LosesSession, Mature, LoadSwap, ResumeFunding, FindsStrandedLeg, ClaimSeq,
           RefundBtc, Park, Abandon, Reload, SweepReads, SweepRefunds

LEMMA ListAlways == ASSUME ~SweepRaces PROVE Spec => []ListInv
  <1>1. Init => ListInv BY ListInit
  <1>2. ListInv /\ [Next]_vars => ListInv' BY ListStep
  <1> QED BY <1>1, <1>2, PTL DEF Spec

\* Every leg written into a record is of the swap the record names: no
\* continuation leaves its outpoint or asset in another one's slot (lockBtcLeg,
\* runForwardCourier, resumeCourierStranded).
THEOREM LegsOwned == ASSUME Calm PROVE Spec => []LegsBelongToTheRecord
  <1>1. SlotInv => LegsBelongToTheRecord
    BY DEF SlotInv, RecordIsTrue
  <1> QED BY SlotAlways, <1>1, PTL

\* An entry leaves the parked list only once its BTC is refunded, whatever the
\* takes and their continuations do to the slot.
THEOREM ListSafe == ASSUME ~SweepRaces PROVE Spec => ParkedUntilRefunded
  <1> DEFINE Kept == \A p \in parked : p \notin parked' => btc[p.leg] = "refunded"
  <1>1. ListInv /\ [Next]_vars => [Kept]_vars
    BY ListLetsGo
  <1> QED BY <1>1, ListAlways, PTL DEF Spec, ParkedUntilRefunded

-----------------------------------------------------------------------------
(* Both                                                                     *)

\* The slot and the list together always hold the reclaim material of every
\* locked BTC leg.
THEOREM FundsOnRecord ==
    ASSUME Calm, ~SweepRaces PROVE Spec => []NoFundsOffRecord
  <1>1. Init => NoFundsOffRecord
    BY DEF Init, NoFundsOffRecord
  <1>2. ASSUME SlotInv, ListInv, NoFundsOffRecord, [Next]_vars PROVE NoFundsOffRecord'
    <2> SUFFICES ASSUME NEW s \in Swaps, btc'[s] = "locked"
                 PROVE  disk'.swap = s \/ \E p \in parked' : p.swap = s
      BY DEF NoFundsOffRecord
    <2>1. CASE btc[s] = "locked" /\ disk.swap = s
      BY <1>2, <2>1, SlotLetsGo
    <2>2. CASE btc[s] = "locked" /\ \E p \in parked : p.swap = s
      <3>1. PICK p \in parked : p.swap = s
        BY <2>2
      <3>2. p.leg = s
        BY <1>2, <3>1 DEF SlotInv, EntriesOwnTheirLegs
      <3> QED BY <1>2, <2>2, <3>1, <3>2, ListLetsGo
    <2>3. CASE btc[s] # "locked"
      <3>1. ASSUME NEW t \in Swaps, PostFunding(t) PROVE disk'.swap = s
        <4>1. t = s
          BY <1>2, <2>3, <3>1 DEF PostFunding, SlotInv, TypeInv, TypeOK
        <4>2. disk' = disk /\ run[s] = "fund"
          BY <3>1, <4>1 DEF PostFunding
        <4> QED BY <1>2, <4>2 DEF SlotInv, LockOwnsSlot, Stub
      <3>2. ASSUME ClaimSeq \/ RefundBtc PROVE FALSE
        BY <1>2, <2>3, <3>2 DEF ClaimSeq, RefundBtc, SlotInv, TypeInv, TypeOK
      <3>3. ASSUME NEW w \in Sweeps, SweepRefunds(w) PROVE FALSE
        BY <1>2, <2>3, <3>3 DEF SweepRefunds, RefundOrKeep, SlotInv, TypeInv, TypeOK
      <3>4. ASSUME UNCHANGED btc PROVE FALSE
        BY <2>3, <3>4
      <3> QED
        BY <1>2, <3>1, <3>2, <3>3, <3>4
           DEF Next, vars, Take, Leave, Lock, RecordOutpoint, GetsSeqLeg, LosesSession,
               Mature, LoadSwap, ResumeFunding, FindsStrandedLeg, Park, Abandon, Reload,
               SweepReads, SweepWrites
    <2> QED BY <1>2, <2>1, <2>2, <2>3 DEF NoFundsOffRecord
  <1> QED BY <1>1, <1>2, SlotAlways, ListAlways, PTL DEF Spec

-----------------------------------------------------------------------------
(* The courier session                                                      *)

\* The order of the frames, index by index; a parked recv means an empty inbox.
QueueInv ==
    /\ CTTypeOK
    /\ Len(got) + Len(inbox) = arrived
    /\ \A i \in 1 .. Len(got) : got[i] = i
    /\ \A i \in 1 .. Len(inbox) : inbox[i] = Len(got) + i
    /\ waiter # 0 => inbox = <<>>

\* What the settlement argument needs: only calls made are settled or parked.
CallsInv ==
    /\ CTTypeOK
    /\ waiter <= calls
    /\ \A o \in settled : o.recv <= calls
    /\ SettledOnce

LEMMA CTTypeInit == CTInit => CTTypeOK
  <1> SUFFICES ASSUME CTInit PROVE CTTypeOK
    OBVIOUS
  <1>1. inbox \in Seq(1 .. MaxFrames) /\ got \in Seq(1 .. MaxFrames)
    BY EmptySeq DEF CTInit
  <1>2. closed \in BOOLEAN /\ settled \subseteq Outcomes /\ timers \subseteq Calls
    BY DEF CTInit
  <1>3. waiter \in 0 .. MaxRecvs /\ arrived \in 0 .. MaxFrames /\ calls \in 0 .. MaxRecvs
    BY TransportAssumption DEF CTInit
  <1> QED BY <1>1, <1>2, <1>3 DEF CTTypeOK

LEMMA CTTypeStep ==
    ASSUME CTTypeOK, [CTNext]_ctVars
    PROVE  CTTypeOK'
  <1> USE TransportAssumption DEF CTTypeOK, Calls, Outcomes, Settle
  <1>1. ASSUME FrameArrives PROVE CTTypeOK'
    <2>1. arrived + 1 \in 1 .. MaxFrames
      BY <1>1 DEF FrameArrives
    <2>2. Append(got, arrived + 1) \in Seq(1 .. MaxFrames)
          /\ Append(inbox, arrived + 1) \in Seq(1 .. MaxFrames)
      BY <2>1
    <2>3. inbox' \in Seq(1 .. MaxFrames) /\ got' \in Seq(1 .. MaxFrames)
      BY <1>1, <2>2 DEF FrameArrives, Push
    <2>4. settled' \subseteq Outcomes /\ waiter' \in 0 .. MaxRecvs
      BY <1>1 DEF FrameArrives, Push
    <2>5. arrived' \in 0 .. MaxFrames /\ UNCHANGED <<timers, closed, calls>>
      BY <1>1 DEF FrameArrives
    <2> QED BY <2>3, <2>4, <2>5
  <1>2. ASSUME Closes PROVE CTTypeOK'
    BY <1>2 DEF Closes
  <1>3. ASSUME Recv PROVE CTTypeOK'
    <2>1. CASE inbox # <<>>
      <3>1. Head(inbox) \in 1 .. MaxFrames /\ Tail(inbox) \in Seq(1 .. MaxFrames)
        BY <2>1, HeadTailProperties
      <3>2. Append(got, Head(inbox)) \in Seq(1 .. MaxFrames)
        BY <3>1
      <3>3. inbox' \in Seq(1 .. MaxFrames) /\ got' \in Seq(1 .. MaxFrames)
        BY <1>3, <2>1, <3>1, <3>2 DEF Recv
      <3>4. calls + 1 \in Calls /\ calls' = calls + 1
            /\ settled' = settled \union {[recv |-> calls + 1, how |-> "frame", by |-> 0]}
            /\ UNCHANGED <<waiter, timers, closed, arrived>>
        BY <1>3, <2>1 DEF Recv
      <3> QED BY <3>3, <3>4
    <2>2. CASE inbox = <<>>
      <3>1. calls + 1 \in Calls /\ calls' = calls + 1
            /\ UNCHANGED <<inbox, got, closed, arrived>>
        BY <1>3, <2>2 DEF Recv
      <3>2. waiter' \in 0 .. MaxRecvs /\ timers' \subseteq Calls
            /\ settled' \subseteq Outcomes
        <4>1. CASE SeesClose
          <5>1. settled' = settled \union {[recv |-> calls + 1, how |-> "closed", by |-> 0]}
                /\ UNCHANGED <<waiter, timers>>
            BY <1>3, <2>2, <4>1 DEF Recv
          <5> QED BY <3>1, <5>1
        <4>2. CASE ~SeesClose
          <5>1. waiter' = calls + 1 /\ timers' = timers \union {calls + 1} /\ settled' = settled
            BY <1>3, <2>2, <4>2 DEF Recv
          <5> QED BY <3>1, <5>1
        <4> QED BY <4>1, <4>2
      <3> QED BY <3>1, <3>2
    <2> QED BY <2>1, <2>2
  <1>4. ASSUME NEW n \in Calls, TimerFires(n) PROVE CTTypeOK'
    BY <1>4 DEF TimerFires, Hits
  <1>5. ASSUME UNCHANGED ctVars PROVE CTTypeOK'
    BY <1>5 DEF ctVars
  <1> QED BY <1>1, <1>2, <1>3, <1>4, <1>5 DEF CTNext

\* The transport's state always has its types.
THEOREM CTTypeCorrect == CTSpec => []CTTypeOK
  <1>1. CTTypeOK /\ [CTNext]_ctVars => CTTypeOK' BY CTTypeStep
  <1> QED BY CTTypeInit, <1>1, PTL DEF CTSpec

-----------------------------------------------------------------------------
(* The order of the frames                                                  *)

LEMMA QueueIsOrder == QueueInv => FramesInOrder
  <1> SUFFICES ASSUME QueueInv PROVE FramesInOrder
    OBVIOUS
  <1> DEFINE T == 1 .. MaxFrames
             all == got \o inbox
  <1>1. got \in Seq(T) /\ inbox \in Seq(T) /\ arrived \in Nat
    BY TransportAssumption DEF QueueInv, CTTypeOK
  <1>2. /\ all \in Seq(T) /\ Len(all) = arrived
        /\ \A i \in 1 .. arrived : all[i] = IF i <= Len(got) THEN got[i] ELSE inbox[i - Len(got)]
    BY <1>1, ConcatProperties DEF QueueInv
  <1>a. Len(got) \in Nat /\ Len(inbox) \in Nat /\ Len(got) + Len(inbox) = arrived
    BY <1>1, LenProperties DEF QueueInv
  <1>3. ASSUME NEW i \in 1 .. arrived PROVE all[i] = i
    <2>1. CASE i <= Len(got)
      <3>1. all[i] = got[i] /\ i \in 1 .. Len(got)
        BY <1>2, <1>a, <2>1
      <3> HIDE DEF all
      <3> QED BY <3>1 DEF QueueInv
    <2>2. CASE ~(i <= Len(got))
      <3>1. i - Len(got) \in 1 .. Len(inbox) /\ all[i] = inbox[i - Len(got)]
        BY <1>1, <1>2, <1>a, <2>2
      <3>2. inbox[i - Len(got)] = Len(got) + (i - Len(got))
        BY <3>1 DEF QueueInv
      <3> HIDE DEF all
      <3> QED BY <1>a, <3>1, <3>2
    <2> HIDE DEF all
    <2> QED BY <2>1, <2>2
  <1>4. all \in [1 .. arrived -> T]
    BY <1>2, LenProperties
  <1> QED BY <1>3, <1>4 DEF FramesInOrder

LEMMA QueueStep == ASSUME QueueInv, [CTNext]_ctVars PROVE QueueInv'
  <1> USE TransportAssumption DEF QueueInv, CTTypeOK
  <1>0. CTTypeOK'
    BY CTTypeStep
  <1>a. Len(got) \in Nat /\ Len(inbox) \in Nat
    BY LenProperties
  <1>b. arrived = Len(got) + Len(inbox)
    OBVIOUS
  <1>1. ASSUME FrameArrives PROVE QueueInv'
    <2>1. CASE waiter # 0
      <3>1. inbox = <<>> /\ inbox' = inbox /\ got' = Append(got, arrived + 1) /\ waiter' = 0
            /\ arrived' = arrived + 1
        BY <1>1, <2>1 DEF FrameArrives, Push
      <3> QED BY <1>0, <1>a, <3>1
    <2>2. CASE waiter = 0
      <3>1. inbox' = Append(inbox, arrived + 1) /\ got' = got /\ waiter' = 0
            /\ arrived' = arrived + 1
        BY <1>1, <2>2 DEF FrameArrives, Push
      <3>2. /\ Len(inbox') = Len(inbox) + 1
            /\ \A i \in 1 .. Len(inbox) : inbox'[i] = inbox[i]
            /\ inbox'[Len(inbox) + 1] = arrived + 1
        BY <3>1, AppendProperties
      <3>3. \A i \in 1 .. Len(inbox') : inbox'[i] = Len(got') + i
        <4> SUFFICES ASSUME NEW i \in 1 .. Len(inbox') PROVE inbox'[i] = Len(got) + i
          BY <3>1
        <4>1. CASE i <= Len(inbox)
          BY <1>a, <3>2, <4>1
        <4>2. CASE i = Len(inbox) + 1
          <5>1. inbox'[i] = Len(got) + Len(inbox) + 1
            BY <1>b, <3>2, <4>2
          <5> HIDE DEF QueueInv, CTTypeOK
          <5> QED BY <1>a, <4>2, <5>1
        <4> QED BY <1>a, <3>2, <4>1, <4>2
      <3>4. Len(got') + Len(inbox') = arrived'
        BY <1>a, <3>1, <3>2
      <3>5. \A i \in 1 .. Len(got') : got'[i] = i
        BY <3>1
      <3> QED BY <1>0, <3>1, <3>3, <3>4, <3>5
    <2> QED BY <2>1, <2>2
  <1>2. ASSUME Recv PROVE QueueInv'
    <2>1. CASE inbox # <<>>
      <3>1. inbox' = Tail(inbox) /\ got' = Append(got, Head(inbox)) /\ waiter' = 0
            /\ arrived' = arrived
        BY <1>2, <2>1 DEF Recv
      <3>2. /\ Len(inbox') = Len(inbox) - 1 /\ Len(got') = Len(got) + 1
            /\ \A i \in 1 .. Len(inbox') : inbox'[i] = inbox[i + 1]
        BY <2>1, <3>1, HeadTailProperties
      <3>3. Head(inbox) = Len(got) + 1
        BY <1>a, <2>1
      <3>4. \A i \in 1 .. Len(got') : got'[i] = i
        <4>1. /\ \A i \in 1 .. Len(got) : got'[i] = got[i]
              /\ got'[Len(got) + 1] = Len(got) + 1
          BY <2>1, <3>1, <3>3, HeadTailProperties, AppendProperties
        <4>2. ASSUME NEW i \in 1 .. Len(got') PROVE got'[i] = i
          <5>1. i \in 1 .. Len(got) \/ i = Len(got) + 1
            <6>1. Len(got) \in Nat /\ Len(got') = Len(got) + 1
              BY <1>a, <3>2
            <6> HIDE DEF QueueInv, CTTypeOK
            <6> QED BY <4>2, <6>1
          <5> QED BY <4>1, <5>1
        <4> QED BY <4>2
      <3>5. \A i \in 1 .. Len(inbox') : inbox'[i] = Len(got') + i
        BY <1>a, <3>2
      <3>6. Len(got') + Len(inbox') = arrived'
        <4>1. Len(got') + Len(inbox') = Len(got) + Len(inbox)
          BY <1>a, <3>2
        <4> QED BY <3>1, <4>1
      <3> QED BY <1>0, <3>1, <3>4, <3>5, <3>6
    <2>2. CASE inbox = <<>>
      BY <1>0, <1>2, <2>2 DEF Recv
    <2> QED BY <2>1, <2>2
  <1>3. ASSUME Closes PROVE QueueInv'
    BY <1>0, <1>3 DEF Closes
  <1>4. ASSUME NEW n \in Calls, TimerFires(n) PROVE QueueInv'
    BY <1>0, <1>4 DEF TimerFires, Hits
  <1>5. ASSUME UNCHANGED ctVars PROVE QueueInv'
    BY <1>0, <1>5 DEF ctVars
  <1> QED BY <1>1, <1>2, <1>3, <1>4, <1>5 DEF CTNext

\* Both transports hand over every frame once and in order, across timeouts
\* and a close.
THEOREM InOrder == CTSpec => []FramesInOrder
  <1>0. CTInit => CTTypeOK
    BY CTTypeInit
  <1>1. CTInit => QueueInv
    BY <1>0 DEF CTInit, QueueInv
  <1>2. QueueInv /\ [CTNext]_ctVars => QueueInv' BY QueueStep
  <1>3. QueueInv => FramesInOrder BY QueueIsOrder
  <1> QED BY <1>1, <1>2, <1>3, PTL DEF CTSpec

-----------------------------------------------------------------------------
(* How calls settle                                                         *)

LEMMA ParkedSettles ==
    ASSUME CallsInv, CTTypeOK', waiter # 0, waiter' = 0, calls' = calls,
           NEW o, o.recv = waiter, settled' = settled \union {o}
    PROVE  CallsInv'
  <1> USE DEF CallsInv, CTTypeOK
  <1>1. \A p \in settled : p.recv # waiter
    <2> SUFFICES ASSUME NEW p \in settled, p.recv = waiter PROVE FALSE
      OBVIOUS
    <2>1. waiter \in 1 .. calls
      OBVIOUS
    <2> QED BY <2>1 DEF SettledOnce
  <1>2. \A p, q \in settled' : p.recv = q.recv => p = q
    BY <1>1 DEF SettledOnce
  <1>3. \A n \in 1 .. calls : n = 0 <=> ~\E p \in settled' : p.recv = n
    <2> SUFFICES ASSUME NEW n \in 1 .. calls PROVE \E p \in settled' : p.recv = n
      OBVIOUS
    <2>1. CASE n = waiter
      BY <2>1
    <2>2. CASE n # waiter
      BY <2>2 DEF SettledOnce
    <2> QED BY <2>1, <2>2
  <1>4. \A p \in settled' : p.recv <= calls'
    OBVIOUS
  <1>5. SettledOnce'
    BY <1>2, <1>3 DEF SettledOnce
  <1> QED BY <1>4, <1>5

LEMMA CallsStep == ASSUME CallsInv, [CTNext]_ctVars PROVE CallsInv'
  <1> USE TransportAssumption DEF CallsInv, CTTypeOK
  <1>0. CTTypeOK'
    BY CTTypeStep
  <1>i. ASSUME UNCHANGED <<waiter, settled, calls>> PROVE CallsInv'
    BY <1>0, <1>i DEF SettledOnce
  <1>1. ASSUME FrameArrives PROVE CallsInv'
    <2>1. CASE waiter = 0
      BY <1>1, <1>i, <2>1 DEF FrameArrives, Push
    <2>2. CASE waiter # 0
      <3>1. /\ settled' = settled \union {[recv |-> waiter, how |-> "frame", by |-> 0]}
            /\ waiter' = 0 /\ calls' = calls
        BY <1>1, <2>2 DEF FrameArrives, Push, Settle
      <3> QED BY <1>0, <2>2, <3>1, ParkedSettles
    <2> QED BY <2>1, <2>2
  <1>2. ASSUME Recv PROVE CallsInv'
    <2>1. waiter = 0 /\ calls' = calls + 1
      BY <1>2 DEF Recv
    <2>2. ASSUME NEW how, waiter' = waiter,
                 settled' = settled \union {[recv |-> calls + 1, how |-> how, by |-> 0]}
          PROVE  CallsInv'
      <3>1. \A p \in settled : p.recv \in 1 .. calls
        BY DEF Outcomes, Calls
      <3>2. \A p, q \in settled' : p.recv = q.recv => p = q
        BY <2>2, <3>1 DEF SettledOnce
      <3>3. \A n \in 1 .. calls + 1 : \E p \in settled' : p.recv = n
        <4> SUFFICES ASSUME NEW n \in 1 .. calls + 1 PROVE \E p \in settled' : p.recv = n
          OBVIOUS
        <4>1. CASE n \in 1 .. calls
          BY <2>1, <2>2, <4>1 DEF SettledOnce
        <4>2. CASE n = calls + 1
          <5> DEFINE p == [recv |-> calls + 1, how |-> how, by |-> 0]
          <5>1. p \in settled' /\ p.recv = n
            BY <2>2, <4>2
          <5> QED BY <5>1
        <4> QED BY <4>1, <4>2
      <3>4. \A p \in settled' : p.recv <= calls'
        BY <2>1, <2>2, <3>1
      <3>5. SettledOnce'
        BY <2>1, <2>2, <3>2, <3>3 DEF SettledOnce
      <3> QED BY <1>0, <2>1, <2>2, <3>4, <3>5
    <2>3. CASE inbox # <<>>
      BY <1>2, <2>2, <2>3 DEF Recv, Settle
    <2>4. CASE inbox = <<>> /\ SeesClose
      BY <1>2, <2>2, <2>4 DEF Recv, Settle
    <2>5. CASE inbox = <<>> /\ ~SeesClose
      <3>1. waiter' = calls + 1 /\ settled' = settled
        BY <1>2, <2>5 DEF Recv
      <3>2. \A p \in settled : p.recv \in 1 .. calls
        BY DEF Outcomes, Calls
      <3>3. SettledOnce'
        BY <2>1, <3>1, <3>2 DEF SettledOnce
      <3>4. \A p \in settled' : p.recv <= calls'
        BY <2>1, <3>1, <3>2
      <3> QED BY <1>0, <2>1, <3>1, <3>3, <3>4
    <2> QED BY <2>3, <2>4, <2>5
  <1>3. ASSUME Closes PROVE CallsInv'
    <2>1. CASE waiter = 0
      BY <1>3, <1>i, <2>1 DEF Closes
    <2>2. CASE waiter # 0
      <3>1. /\ settled' = settled \union {[recv |-> waiter, how |-> "closed", by |-> 0]}
            /\ waiter' = 0 /\ calls' = calls
        BY <1>3, <2>2 DEF Closes, Settle
      <3> QED BY <1>0, <2>2, <3>1, ParkedSettles
    <2> QED BY <2>1, <2>2
  <1>4. ASSUME NEW n \in Calls, TimerFires(n) PROVE CallsInv'
    <2>1. CASE ~Hits(n)
      BY <1>4, <1>i, <2>1 DEF TimerFires
    <2>2. CASE Hits(n)
      <3>1. /\ settled' = settled \union {[recv |-> waiter, how |-> "timeout", by |-> n]}
            /\ waiter' = 0 /\ calls' = calls /\ waiter # 0
        BY <1>4, <2>2 DEF TimerFires, Settle, Hits, Calls
      <3> QED BY <1>0, <3>1, ParkedSettles
    <2> QED BY <2>1, <2>2
  <1>5. ASSUME UNCHANGED ctVars PROVE CallsInv'
    BY <1>5, <1>i DEF ctVars
  <1> QED BY <1>1, <1>2, <1>3, <1>4, <1>5 DEF CTNext

\* Both transports settle every recv call at most once.
THEOREM Once == CTSpec => []SettledOnce
  <1>0. CTInit => CTTypeOK
    BY CTTypeInit
  <1>1. CTInit => CallsInv
    BY <1>0 DEF CTInit, CallsInv, SettledOnce
  <1>2. CallsInv /\ [CTNext]_ctVars => CallsInv' BY CallsStep
  <1>3. CallsInv => SettledOnce BY DEF CallsInv
  <1> QED BY <1>1, <1>2, <1>3, PTL DEF CTSpec

\* wsTransport's identity check is what keeps a timer to its own recv.
THEOREM OwnTimer == ASSUME IdentityChecked PROVE CTSpec => []TimeoutIsOwn
  <1>1. CTInit => TimeoutIsOwn
    BY DEF CTInit, TimeoutIsOwn
  <1>2. TimeoutIsOwn /\ [CTNext]_ctVars => TimeoutIsOwn'
    BY DEF TimeoutIsOwn, CTNext, ctVars, FrameArrives,
           Push, Closes, Recv, TimerFires, Hits,
           Settle
  <1> QED BY <1>1, <1>2, PTL DEF CTSpec

\* wsTransport's closed flag is what keeps a recv from a dead socket.
THEOREM NoDeadWait == ASSUME StickyClose PROVE CTSpec => []NoWaitAfterClose
  <1>1. CTInit => NoWaitAfterClose
    BY DEF CTInit, NoWaitAfterClose
  <1>2. NoWaitAfterClose /\ [CTNext]_ctVars => NoWaitAfterClose'
    BY DEF NoWaitAfterClose, CTNext, ctVars, FrameArrives,
           Push, Closes, Recv, SeesClose,
           TimerFires, Hits, Settle
  <1> QED BY <1>1, <1>2, PTL DEF CTSpec
=============================================================================
