----------------------------- MODULE BookWalk ------------------------------
(***************************************************************************)
(* A take larger than the best offer: the plan that fills it across        *)
(* several offers of the book (walkBook, subswap.js) and the orchestrator  *)
(* that runs the plan's legs one at a time (swap.js, "sequential walk      *)
(* execution").                                                            *)
(*                                                                         *)
(* What settles one leg is the module Submarine; here a leg's driver ends  *)
(* in any of its ways: settled, failed with nothing committed, or left     *)
(* resumable, to settle or be refunded later.  The orchestrator's state is *)
(* ONE persisted slot, WALK; a driver that ends waits for a sync and then  *)
(* reports to whatever walk that slot holds.                               *)
(*                                                                         *)
(* TwoWalks: a person starts another trade while a walk's leg is driven.   *)
(* The code lets them; with FALSE they wait.                               *)
(***************************************************************************)
EXTENDS TakeTerms, Sequences

CONSTANTS Books,        \* [side, offers]: offers [seq, btc, minFill], best first
          Wants,        \* the amounts a person asks for
          MaxOrders,    \* bound: the trades placed
          MaxReloads,   \* bound: the reloads of the page
          TwoWalks

ASSUME BookWalkAssumption ==
    /\ \A b \in Books :
          /\ b.side \in {"buy", "sell"} /\ b.offers # <<>>
          /\ b.offers \in Seq([seq : Nat \ {0}, btc : Nat \ {0}, minFill : Nat])
    /\ Wants \subseteq Nat \ {0}
    /\ {MaxOrders, MaxReloads} \subseteq Nat
    /\ TwoWalks \in BOOLEAN

VARIABLES walk,         \* WALK
          orders,       \* what was asked for, and the plan shown for it
          recs,         \* SUBSWAPS, with the driver of each record
          reloads,
          cut           \* the orders whose walk a reload left running

walkVars == <<walk, orders, recs, reloads, cut>>

NoWalk == [state |-> "none"]
Settled(r)  == r.state = "settled"
SubswapTerminal(r) == r.state \in {"settled", "failed", "refunded"}
-----------------------------------------------------------------------------
(* The plan.                                                               *)

\* A leg the remaining size cannot meet is passed over, not forced.
TakesLeg(sz) == ~sz.belowMin /\ sz.take > 0 /\ sz.btc > 0

TakeLeg(plan, o, side) ==
    LET sz == SizeSubswapTake(plan.left, o, side)
    IN  IF plan.left > 0 /\ TakesLeg(sz)
        THEN [legs |-> Append(plan.legs, [atoms |-> sz.take, btc |-> sz.btc]),
              left |-> plan.left - sz.take]
        ELSE plan
WalkBook(book, want, side) ==
    LET plan[i \in 0 .. Len(book)] ==
            IF i = 0 THEN [legs |-> <<>>, left |-> want]
            ELSE TakeLeg(plan[i - 1], book[i], side)
    IN  plan[Len(book)].legs

SumTo(f, n) ==
    LET sum[i \in 0 .. n] == IF i = 0 THEN 0 ELSE sum[i - 1] + f[i] IN sum[n]
Total(legs) == SumTo([i \in DOMAIN legs |-> legs[i].atoms], Len(legs))
-----------------------------------------------------------------------------
(* The orchestrator.                                                       *)

HasWalkInFlight == walk.state = "running"

\* addSubswap, and driveSubswap on the new record.
Record(order, leg, walking) ==
    [order |-> order, atoms |-> leg.atoms, btc |-> leg.btc, walk |-> walking,
     state |-> "starting", pc |-> "drive"]

Driven(r) == r.pc # "idle"

\* A driver that ended with a leg of a walk reports, settled or not.
Reports(r, s) == r.walk /\ HasWalkInFlight

\* The walk goes on only from a leg that settled.
GoesOnAnyway(r) == TRUE
GoesOn(r) == r.pc = "settled"

\* advanceWalk counts the leg the walk is at, then moves on.
CountsNext == walk.filled + walk.legs[Smaller(walk.legIndex + 1, Len(walk.legs))].atoms
Counts == walk.filled + walk.legs[walk.legIndex].atoms

WalkInit ==
    /\ walk = NoWalk
    /\ orders = <<>>
    /\ recs = <<>>
    /\ reloads = 0
    /\ cut = {}

\* startSubswapP2P: more than one leg makes a walk, in whatever slot there is.
PlaceOrder(book, want) ==
    LET plan   == WalkBook(book.offers, want, book.side)
        single == SizeSubswapTake(want, book.offers[1], book.side)
        order  == Len(orders) + 1
        walking == Len(plan) > 1
        first  == IF walking THEN plan[1] ELSE [atoms |-> single.take, btc |-> single.btc]
    IN  /\ Len(orders) < MaxOrders
        /\ TwoWalks \/ ~\E i \in DOMAIN recs : recs[i].walk /\ Driven(recs[i])
        /\ ~single.belowMin
        /\ orders' = Append(orders, [want |-> want, plan |-> plan])
        /\ walk' = IF walking
                   THEN [state |-> "running", order |-> order, legs |-> plan,
                         legIndex |-> 1, filled |-> 0]
                   ELSE walk
        /\ recs' = Append(recs, Record(order, first, walking))
        /\ UNCHANGED <<reloads, cut>>

\* driveSubswap ends; a walk's leg then awaits a sync.
DriverEnds(i) ==
    /\ recs[i].pc = "drive"
    /\ \E s \in {"settled", "failed", "resumable"} :
          recs' = [recs EXCEPT ![i].state = s,
                               ![i].pc = IF ~Reports(recs[i], s) THEN "idle"
                                         ELSE IF s = "settled" THEN "settled"
                                         ELSE "unsettled"]
    /\ UNCHANGED <<walk, orders, reloads, cut>>

\* onWalkLegFinished with runNextWalkLeg, for the walk the slot holds by now.
Idled(i) == [recs EXCEPT ![i].pc = "idle"]

ReportsInVain(i) ==
    /\ recs[i].pc \in {"settled", "unsettled"}
    /\ ~HasWalkInFlight
    /\ recs' = Idled(i)
    /\ UNCHANGED <<walk, orders, reloads, cut>>

StopWalk(i) ==
    /\ recs[i].pc \in {"settled", "unsettled"}
    /\ HasWalkInFlight
    /\ ~GoesOn(recs[i])
    /\ walk' = [walk EXCEPT !.state = "stopped"]
    /\ recs' = Idled(i)
    /\ UNCHANGED <<orders, reloads, cut>>

AdvanceWalk(i) ==
    /\ recs[i].pc \in {"settled", "unsettled"}
    /\ HasWalkInFlight
    /\ GoesOn(recs[i])
    /\ LET next == walk.legIndex + 1
           last == next > Len(walk.legs)
       IN  /\ walk' = [walk EXCEPT !.filled = Counts, !.legIndex = next,
                                   !.state = IF last THEN "done" ELSE "running"]
           /\ recs' = IF last THEN Idled(i)
                      ELSE Append(Idled(i), Record(walk.order, walk.legs[next], TRUE))
    /\ UNCHANGED <<orders, reloads, cut>>

\* resumeOneSubswap: a trade left resumable settles, or takes its coins back.
Resumes(i) ==
    /\ recs[i].state = "resumable"
    /\ \E s \in {"settled", "refunded"} : recs' = [recs EXCEPT ![i].state = s]
    /\ UNCHANGED <<walk, orders, reloads, cut>>

\* The page goes and comes back: drivers are gone.  A record that committed
\* nothing is dropped, another is resumed, and no resume reports to WALK.
Reloads ==
    /\ reloads < MaxReloads
    /\ reloads' = reloads + 1
    /\ \E kept \in SUBSET {i \in DOMAIN recs : recs[i].state = "starting"} :
          recs' = [i \in DOMAIN recs |->
                      [recs[i] EXCEPT
                          !.pc = "idle",
                          !.state = IF i \in kept THEN "resumable"
                                    ELSE IF @ = "starting" THEN "failed" ELSE @]]
    /\ cut' = IF HasWalkInFlight THEN cut \cup {walk.order} ELSE cut
    /\ UNCHANGED <<walk, orders>>

\* The row of a stopped walk has a button that drops it.
ClearWalk ==
    /\ walk.state = "stopped"
    /\ walk' = NoWalk
    /\ UNCHANGED <<orders, recs, reloads, cut>>

WalkNext ==
    \/ \E b \in Books, w \in Wants : PlaceOrder(b, w)
    \/ \E i \in DOMAIN recs :
          \/ DriverEnds(i)
          \/ ReportsInVain(i)
          \/ StopWalk(i)
          \/ AdvanceWalk(i)
          \/ Resumes(i)
    \/ Reloads
    \/ ClearWalk

MaxRecs == MaxOrders * 3

\* A driver ends, each of its waits being bounded, and so does the sync.
WalkFairness ==
    \A i \in 1..MaxRecs :
        /\ WF_walkVars(i \in DOMAIN recs /\ DriverEnds(i))
        /\ WF_walkVars(i \in DOMAIN recs /\ (ReportsInVain(i) \/ StopWalk(i) \/ AdvanceWalk(i)))

WalkSpec     == WalkInit /\ [][WalkNext]_walkVars
WalkFairSpec == WalkSpec /\ WalkFairness
-----------------------------------------------------------------------------
(* Properties.                                                             *)

Leg == [atoms : Nat \ {0}, btc : Nat \ {0}]
Walks == [state : {"running", "done", "stopped"}, order : Nat, legs : Seq(Leg),
          legIndex : Nat, filled : Nat]
Orders == [want : Nat \ {0}, plan : Seq(Leg)]
Trades == [order : Nat, atoms : Nat \ {0}, btc : Nat, walk : BOOLEAN,
            state : {"starting", "settled", "failed", "resumable", "refunded"},
            pc : {"drive", "settled", "unsettled", "idle"}]

\* The store holds what the code writes into it; a walk's leg is never empty.
WalkTypeOK ==
    /\ walk = NoWalk \/ walk \in Walks
    /\ walk # NoWalk =>
          /\ walk.order \in DOMAIN orders
          /\ walk.legIndex \in 1 .. Len(walk.legs) + 1
          /\ walk.state = "running" => walk.legIndex <= Len(walk.legs)
    /\ orders \in Seq(Orders)
    /\ recs \in Seq(Trades)
    /\ \A i \in DOMAIN recs :
          recs[i].order \in DOMAIN orders /\ (recs[i].walk => recs[i].btc > 0)
    /\ reloads \in Nat
    /\ cut \subseteq DOMAIN orders

\* The atoms of an order's legs that pass a test.
Atoms(o, Test(_)) ==
    SumTo([i \in DOMAIN recs |->
              IF recs[i].order = o /\ Test(recs[i]) THEN recs[i].atoms ELSE 0],
          Len(recs))
Open(r) == ~SubswapTerminal(r)
Committed(r) == Settled(r) \/ Open(r)

\* A person never receives, or has under way, more than was asked for: the
\* legs that settled and those that still may add up to the request at most
\* (subswap.js: "taking MORE than the user asked for ... would spend money
\* they did not offer to spend").
NeverOverfills ==
    \A o \in DOMAIN orders : Atoms(o, Committed) <= orders[o].want

\* "Only one leg's recovery material is ever live": of the legs of one walk
\* at most one is still to settle or to be refunded (swap.js, the header of
\* the walk).
OneLegLive ==
    \A i, j \in DOMAIN recs :
        recs[i].order = recs[j].order /\ Open(recs[i]) /\ Open(recs[j]) => i = j

\* "The accounting never claims more than the legs that settled", and a walk
\* shown as done has filled all of its plan (walk-exec.test.mjs).
FilledIsReal ==
    walk # NoWalk =>
        /\ walk.filled <= Atoms(walk.order, Settled)
        /\ walk.state = "done" =>
              Atoms(walk.order, Settled) = Total(orders[walk.order].plan)

\* A leg that did not settle ends its order: no later leg is started, neither
\* at once nor after the leg is resumed, a reload or another trade.
EndedShort(o) == \E i \in DOMAIN recs : recs[i].order = o /\ ~Driven(recs[i])
                                                         /\ ~Settled(recs[i])
Started(o) == {i \in DOMAIN recs : recs[i].order = o}
NothingAfterAFailure ==
    [][\A o \in DOMAIN orders :
          EndedShort(o) => Started(o)' = Started(o)]_walkVars

\* "Close the walk out honestly": a walk that is running ends, done or
\* stopped, unless the page is reloaded under it.
WalkEnds ==
    \A o \in 1..MaxOrders :
        (HasWalkInFlight /\ walk.order = o) ~> (o \in cut \/ ~HasWalkInFlight)

\* The same without the exception.  Violated: no boot path reports a resumed
\* leg to the walk, so its row says it is running for good.
WalkEndsAfterAll == HasWalkInFlight ~> ~HasWalkInFlight

\* The walk takes no more than was asked, one leg at a time, and says it filled
\* only what settled.
WalkIsHonest == WalkTypeOK /\ NeverOverfills /\ OneLegLive /\ FilledIsReal

\* It starts nothing after a failure, and closes; the fairness covers every leg.
WalkEndsCleanly == NothingAfterAFailure /\ WalkEnds /\ [](Len(recs) <= MaxRecs)
=============================================================================
