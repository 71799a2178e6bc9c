----------------------------- MODULE BtcTrade -----------------------------
(***************************************************************************)
(* One trade of an asset held in the operator's tree against BTC over      *)
(* Lightning, in one hash-lock, between a wallet (user-trade-btc.js under  *)
(* user-trade.js) and the leaf maker's BTC desk (leaf-maker-btc.mjs).      *)
(* Whoever receives the BTC makes the hash; whoever gives the asset pays   *)
(* it to the operator first; the BTC is paid once the leaf made of it is   *)
(* held for good, and its preimage opens the leaf.  In a sale the wallet   *)
(* gives the asset, in a purchase the desk does.                           *)
(*                                                                         *)
(* Both sides are interrupted between any two of their calls: the desk's   *)
(* process restarts from btc-swaps.json, the page from its trade record.   *)
(* The clock runs from the moment the operator holds the asset.            *)
(***************************************************************************)
EXTENDS Integers

CONSTANTS
    Hold,             \* how long the operator holds the asset for the secret
    Lock,             \* the longest a BTC payment stays in flight (its route's whole lock)
    Reaction,         \* REACTION_SECONDS, kept to claim after that
    InvoiceEnds,      \* when the BTC invoice may run out
    Drift,            \* the most between the answer that clears a payment and the payment
    Absence,          \* the most between a payment's success and the claim it buys
    MaxFaults,        \* bound: interruptions and failed calls
    RoundVoids,       \* the operator may void a round the desk paid ahead of
    ClaimInterrupted, \* a page may close, or its call fail, as it hands over the secret
    StatusFails,      \* a payment's status may be unreadable
    LockSlow          \* the library may take longer than LOCKING_SECONDS over a payment

ASSUME ClockAssumption ==
    /\ Hold \in Nat /\ Lock \in Nat /\ Reaction \in Nat /\ Drift \in Nat
    /\ Absence \in Nat /\ MaxFaults \in Nat /\ InvoiceEnds \subseteq Nat
ASSUME SwitchesAssumption ==
    {RoundVoids, ClaimInterrupted, StatusFails, LockSlow} \subseteq BOOLEAN

VARIABLES
    dir,      \* "sell" or "buy", the wallet's side of it
    now,
    op,       \* the operator's record of the receive under the hash
    opKnows,  \* it was handed the secret: the asset's payer is settled with
    btc,      \* the Lightning payment
    mark,     \* when it was cleared, then begun, then complete
    inv,      \* the BTC invoice: whether it can be paid, and when it runs out
    libHas,   \* the library of whoever paid the BTC has the secret
    lapsed,   \* the firm offer's time is over
    drec,     \* the desk's record of the swap ('paying' is "cleared" until the payment begins)
    early,    \* ... and its mark that BTC was paid before the leaf was final
    attempt,  \* the desk's latest attempt to pay the asset (0, 1, 2)
    calls,    \* where each attempt's call is
    dup,      \* the desk's process is up
    wrec,     \* the wallet's trade record
    wpc,      \* where the page is in a pass over it
    wsaw,     \* what the pass read of the operator
    wx,       \* the record holds the operator's invoice
    wup,      \* the page is open
    faults

worldVars  == <<dir, now, op, opKnows, btc, mark, inv, libHas, lapsed>>
deskVars   == <<drec, early, attempt, calls, dup>>
walletVars == <<wrec, wpc, wsaw, wx, wup>>
vars == <<worldVars, deskVars, walletVars, faults>>

OpStates == {"none", "waiting", "accepted", "final", "claimed", "returned"}
Attempts == 1..2

TypeOK ==
    /\ dir \in {"sell", "buy"} /\ now \in Nat /\ mark \in Nat /\ faults \in Nat
    /\ op \in OpStates /\ wsaw \in OpStates
    /\ btc \in {"none", "flight", "complete", "failed"}
    /\ inv \in [open : BOOLEAN, ends : Nat]
    /\ {opKnows, libHas, lapsed, early, dup, wup, wx} \subseteq BOOLEAN
    /\ drec \in {"none", "offered", "locking", "locked", "cleared", "paying", "claiming",
                 "done", "void", "lapsed", "released"}
    /\ attempt \in 0..2 /\ calls \in [Attempts -> {"none", "checked", "paid"}]
    /\ wrec \in {"none", "quoted", "confirming", "waiting", "sent", "claiming",
                 "settled", "returned", "failed"}
    /\ wpc \in {"idle", "pay", "paid", "status", "post", "receive", "received", "heard"}

Init ==
    /\ dir \in {"sell", "buy"}
    /\ now = 0 /\ op = "none" /\ opKnows = FALSE /\ btc = "none" /\ mark = 0
    /\ inv \in [open : {TRUE}, ends : InvoiceEnds] /\ libHas = FALSE /\ lapsed = FALSE
    /\ drec = "none" /\ early = FALSE /\ attempt = 0 /\ calls = [a \in Attempts |-> "none"]
    /\ dup = TRUE
    /\ wrec = "none" /\ wpc = "idle" /\ wsaw = "none" /\ wx = FALSE /\ wup = TRUE
    /\ faults = 0

Sell == dir = "sell"
Buy  == dir = "buy"
Fault == faults < MaxFaults /\ faults' = faults + 1

Held == op \in {"accepted", "final"}
\* The operator takes a claim, or the secret, until the hold's time is over.
InTime == now < Hold \/ opKnows

\* needSeconds (user-trade-btc.js:49-51)
NeedLockOnly == Lock
Need == Lock + Reaction
HoldLasts == Hold - now >= Need

\* The side that pays the BTC has it cleared, not begun.
Cleared == \/ Sell /\ drec = "cleared"
           \/ Buy /\ wrec = "sent" /\ btc = "none"
Paying  == btc = "flight" \/ Cleared

-----------------------------------------------------------------------------
(* The clock, the operator and the Lightning network (external).            *)

\* The secret paid for is with the library, or about to be handed to it.
SecretUnderWay == btc = "complete" /\ (libHas \/ Sell \/ wrec = "sent" \/ wpc = "heard")

\* The rates: a payment follows the answer that cleared it, is resolved within its
\* lock, and its secret has the leaf claimed soon after.
Pass ==
    /\ Held /\ now < Hold
    /\ Cleared => now < mark + Drift
    /\ btc = "flight" => now < mark + Lock
    /\ SecretUnderWay => now < mark + Absence
    /\ now' = now + 1
    /\ UNCHANGED <<dir, op, opKnows, btc, mark, inv, libHas, lapsed, deskVars, walletVars, faults>>

OfferLapses ==
    /\ ~lapsed /\ lapsed' = TRUE
    /\ UNCHANGED <<dir, now, op, opKnows, btc, mark, inv, libHas, deskVars, walletVars, faults>>

\* The round that makes the leaf is run and final, or never is.
RoundIsFinal ==
    /\ op = "accepted" /\ op' = "final"
    /\ UNCHANGED <<dir, now, opKnows, btc, mark, inv, libHas, lapsed, deskVars, walletVars, faults>>

RoundFails ==
    /\ op = "accepted" /\ ~opKnows /\ op' = "returned"
    /\ btc \in {"flight", "complete"} \/ Cleared => RoundVoids
    /\ UNCHANGED <<dir, now, opKnows, btc, mark, inv, libHas, lapsed, deskVars, walletVars, faults>>

HoldEnds ==
    /\ Held /\ ~InTime /\ op' = "returned"
    /\ UNCHANGED <<dir, now, opKnows, btc, mark, inv, libHas, lapsed, deskVars, walletVars, faults>>

\* The library of whoever paid the BTC opens the leaf, once it is final.
LeafIsClaimed ==
    /\ libHas /\ op = "final" /\ InTime /\ op' = "claimed"
    /\ UNCHANGED <<dir, now, opKnows, btc, mark, inv, libHas, lapsed, deskVars, walletVars, faults>>

\* A payment finds no route, or its lock runs out.
BtcFails ==
    /\ btc = "flight" /\ btc' = "failed"
    /\ UNCHANGED <<dir, now, op, opKnows, mark, inv, libHas, lapsed, deskVars, walletVars, faults>>

\* A payment reaches the desk's node, which has the secret and settles it at once.
BtcReachesDesk ==
    /\ Buy /\ btc = "flight" /\ inv.open
    /\ btc' = "complete" /\ mark' = now
    /\ UNCHANGED <<dir, now, op, opKnows, inv, libHas, lapsed, deskVars, walletVars, faults>>

World == Pass \/ OfferLapses \/ RoundIsFinal \/ RoundFails \/ HoldEnds \/ LeafIsClaimed
         \/ BtcFails \/ BtcReachesDesk

-----------------------------------------------------------------------------
(* The desk.                                                                *)

\* POST /v1/btc/firm: in a sale the desk asks to receive under the wallet's hash; in a
\* purchase it makes the invoice.  The answer may be lost.
Firm ==
    /\ drec = "none" /\ dup /\ wup
    /\ drec' = "offered"
    /\ op' = IF Sell THEN "waiting" ELSE op
    /\ \/ wrec' = "quoted" /\ UNCHANGED faults
       \/ Fault /\ UNCHANGED wrec
    /\ UNCHANGED <<dir, now, opKnows, btc, mark, inv, libHas, lapsed,
                   early, attempt, calls, dup, wpc, wsaw, wx, wup>>

\* POST /v1/btc/release, best effort: the wallet's own hold is cancelled too.
LetGo ==
    /\ drec' \in {drec, IF drec = "offered" /\ dup THEN "released" ELSE drec}
    /\ \E kept \in BOOLEAN :
          inv' = [inv EXCEPT !.open = @ /\ Buy /\ (kept \/ drec' # "released")]

\* step, a swap in which the desk pays BTC, up to the payment: the leaf is held for
\* good, or the owner's caps allow paying as soon as the operator accepted.
LeafReady == op = "final" /\ HoldLasts
PaysOnceAsked == op \in {"waiting", "accepted"} /\ HoldLasts
PaysEarly == op = "accepted" /\ HoldLasts

DeskClears ==
    /\ dup /\ Sell /\ drec = "offered"
    /\ early' = PaysEarly
    /\ LeafReady \/ PaysEarly
    /\ IF now < inv.ends
       THEN drec' = "cleared" /\ mark' = now
       ELSE drec' = "void" /\ UNCHANGED mark
    /\ UNCHANGED <<dir, now, op, opKnows, btc, inv, libHas, lapsed, attempt, calls, dup,
                   walletVars, faults>>

\* ... the receive failed, the leaf will never do, or nobody ever paid.
DeskGivesUp ==
    /\ dup /\ Sell
    /\ drec' = "void"
    /\ \/ op = "returned" /\ drec \in {"offered", "cleared", "paying", "claiming"}
       \/ op = "final" /\ drec = "offered" /\ ~HoldLasts
    /\ UNCHANGED <<worldVars, early, attempt, calls, dup, walletVars, faults>>

DeskLapses ==
    /\ dup /\ drec = "offered" /\ lapsed
    /\ op \in {"none", "waiting"}
    /\ drec' = "lapsed"
    /\ inv' \in {inv, [inv EXCEPT !.open = @ /\ Sell]}
    /\ UNCHANGED <<dir, now, op, opKnows, btc, mark, libHas, lapsed, early, attempt, calls,
                   dup, walletVars, faults>>

\* step, 'paying': what never left since then is paid, with no second look at the leaf.
DeskPays ==
    /\ dup /\ drec = "cleared"
    /\ IF now < inv.ends THEN drec' = "paying" /\ btc' = "flight" /\ mark' = now
       ELSE drec' = "offered" /\ UNCHANGED <<btc, mark>>
    /\ UNCHANGED <<dir, now, op, opKnows, inv, libHas, lapsed, early, attempt, calls, dup,
                   walletVars, faults>>

\* A payment that failed is cleared again later, unless the wallet's node answered that it
\* does not know the invoice (UNKNOWN_INVOICE); one whose answer and status are both lost
\* is taken for failed (cln-rpc.mjs:92-97).
DeskHearsFailed ==
    /\ dup /\ Sell /\ drec = "paying"
    /\ \/ btc = "failed" /\ drec' \in {"offered", "void"}
       \/ StatusFails /\ btc = "flight" /\ drec' = "offered"
    /\ UNCHANGED <<worldVars, early, attempt, calls, dup, walletVars, faults>>

DeskHearsPaid ==
    /\ dup /\ Sell /\ drec = "paying" /\ btc = "complete"
    /\ drec' = "claiming" /\ libHas' = TRUE
    /\ UNCHANGED <<dir, now, op, opKnows, btc, mark, inv, lapsed, early, attempt, calls, dup,
                   walletVars, faults>>

DeskIsDone ==
    /\ dup
    /\ \/ Sell /\ drec = "claiming" /\ op = "claimed"
       \/ Buy /\ drec = "locked" /\ btc = "complete" /\ (opKnows \/ op = "claimed")
    /\ drec' = "done"
    /\ UNCHANGED <<worldVars, early, attempt, calls, dup, walletVars, faults>>

\* POST /v1/btc/lock, which the wallet repeats while its receive waits: an attempt to pay
\* it from the desk's leaves.  One unrecorded for LOCKING_SECONDS is taken over.
Unrecorded == drec = "locking" /\ (LockSlow \/ calls[attempt] = "none")

DeskTakesLock ==
    /\ dup /\ wup /\ wx /\ wrec = "waiting" /\ op = "waiting" /\ ~lapsed
    /\ drec = "offered" \/ Unrecorded
    /\ attempt < 2 /\ attempt' = attempt + 1
    /\ drec' = "locking" /\ calls' = [calls EXCEPT ![attempt'] = "checked"]
    /\ UNCHANGED <<worldVars, early, dup, walletVars, faults>>

\* lightning_pay: the library pays an invoice once.
DeskCallPays(a) ==
    /\ calls[a] = "checked" /\ op = "waiting"
    /\ op' = "accepted" /\ calls' = [calls EXCEPT ![a] = "paid"]
    /\ UNCHANGED <<dir, now, opKnows, btc, mark, inv, libHas, lapsed,
                   drec, early, attempt, dup, walletVars, faults>>

Mine(a) == attempt = a /\ drec = "locking"

DeskCallFails(a) ==
    /\ calls[a] = "checked" /\ IF op = "waiting" THEN Fault ELSE UNCHANGED faults
    /\ calls' = [calls EXCEPT ![a] = "none"]
    /\ drec' = IF Mine(a) THEN "offered" ELSE drec
    /\ UNCHANGED <<worldVars, early, attempt, dup, walletVars>>

DeskCallReturns(a) ==
    /\ calls[a] = "paid"
    /\ calls' = [calls EXCEPT ![a] = "none"]
    /\ drec' = IF Mine(a) \/ drec = "offered" THEN "locked" ELSE drec
    /\ UNCHANGED <<worldVars, early, attempt, dup, walletVars, faults>>

\* tick: a payment the library recorded is a lock; one it never recorded is offered again.
Recorded == op \notin {"none", "waiting"}

DeskAdopts ==
    /\ dup /\ Buy /\ drec \in {"offered", "locking"}
    /\ \/ Recorded /\ drec' = "locked"
       \/ ~Recorded /\ Unrecorded /\ drec' = "offered"
    /\ UNCHANGED <<worldVars, early, attempt, calls, dup, walletVars, faults>>

DeskLockReturned ==
    /\ dup /\ Buy /\ drec = "locked" /\ op = "returned"
    /\ drec' = "void" /\ inv' \in {inv, [inv EXCEPT !.open = FALSE]}
    /\ UNCHANGED <<dir, now, op, opKnows, btc, mark, libHas, lapsed, early, attempt, calls,
                   dup, walletVars, faults>>

\* lightning_post_preimage: the desk's payment is settled even if the wallet never claims.
DeskPostsSecret ==
    /\ dup /\ Buy /\ drec = "locked" /\ btc = "complete"
    /\ Held /\ InTime /\ ~opKnows /\ opKnows' = TRUE
    /\ UNCHANGED <<dir, now, op, btc, mark, inv, libHas, lapsed, deskVars, walletVars, faults>>

DeskStops ==
    /\ dup /\ Fault
    /\ dup' = FALSE /\ calls' = [a \in Attempts |-> "none"]
    /\ UNCHANGED <<worldVars, drec, early, attempt, walletVars>>

DeskRestarts ==
    /\ ~dup /\ dup' = TRUE
    /\ UNCHANGED <<worldVars, drec, early, attempt, calls, walletVars, faults>>

Desk == \/ Firm \/ DeskClears \/ DeskGivesUp \/ DeskLapses \/ DeskPays \/ DeskHearsFailed
        \/ DeskHearsPaid \/ DeskIsDone \/ DeskTakesLock \/ DeskAdopts \/ DeskLockReturned
        \/ DeskPostsSecret \/ DeskRestarts
        \/ \E a \in Attempts : DeskCallPays(a) \/ DeskCallFails(a) \/ DeskCallReturns(a)

-----------------------------------------------------------------------------
(* The wallet: the ticket and its confirmation.                             *)

Passes == wup /\ wpc = "idle"

\* drop, or a ticket confirmed too late.
WDropsTicket ==
    /\ Passes /\ wrec = "quoted" /\ wrec' = "failed" /\ LetGo
    /\ UNCHANGED <<dir, now, op, opKnows, btc, mark, libHas, lapsed,
                   early, attempt, calls, dup, wpc, wsaw, wx, wup, faults>>

\* confirm: the record is written before anything is signed.
WConfirms ==
    /\ Passes /\ wrec = "quoted" /\ ~lapsed
    /\ wrec' = "confirming" /\ wpc' = IF Sell THEN "pay" ELSE "receive"
    /\ UNCHANGED <<worldVars, deskVars, wsaw, wx, wup, faults>>

\* A sale: lightning_pay.  A refusal leaves nothing moved.
WLocks ==
    /\ wpc = "pay" /\ op = "waiting"
    /\ op' = "accepted" /\ wpc' = "paid"
    /\ UNCHANGED <<dir, now, opKnows, btc, mark, inv, libHas, lapsed, deskVars,
                   wrec, wsaw, wx, wup, faults>>

WIsRefused ==
    /\ wpc = "pay" /\ Fault
    /\ wrec' = "failed" /\ wpc' = "idle" /\ LetGo
    /\ UNCHANGED <<dir, now, op, opKnows, btc, mark, libHas, lapsed,
                   early, attempt, calls, dup, wsaw, wx, wup>>

\* A purchase: lightning_receive under the desk's hash, then the desk is asked to lock.
WAsksToReceive ==
    /\ wpc = "receive" /\ op = "none"
    /\ op' = "waiting" /\ wpc' = "received"
    /\ UNCHANGED <<dir, now, opKnows, btc, mark, inv, libHas, lapsed, deskVars,
                   wrec, wsaw, wx, wup, faults>>

AfterStep == IF Sell THEN "sent" ELSE "waiting"

WIsAnswered ==
    /\ wpc \in {"paid", "received"}
    /\ wrec' = AfterStep /\ wx' = Buy /\ wpc' = "idle"
    /\ UNCHANGED <<worldVars, deskVars, wsaw, wup, faults>>

\* advanceOnce, 'confirming': the step is looked for in the library.
WLooksForStep ==
    /\ Passes /\ wrec = "confirming"
    /\ wrec' = IF Sell THEN IF Recorded THEN "sent" ELSE "failed"
               ELSE IF op # "none" THEN "waiting" ELSE "failed"
    /\ UNCHANGED <<worldVars, deskVars, wpc, wsaw, wx, wup, faults>>

-----------------------------------------------------------------------------
(* The wallet following a sale: advanceSell.                                *)

WReads ==
    /\ Passes /\ Sell /\ wrec = "sent"
    /\ wsaw' = (IF opKnows THEN "claimed" ELSE op) /\ wpc' = "status"
    /\ UNCHANGED <<worldVars, deskVars, wrec, wx, wup, faults>>

\* invoiceStatus: a payment held for the whole amount is settled, if there is room.
RoomToSettle == now < mark + Lock

WSettlesHold ==
    /\ wpc = "status" /\ inv.open /\ btc = "flight" /\ RoomToSettle
    /\ btc' = "complete" /\ mark' = now /\ wpc' = "post"
    /\ UNCHANGED <<dir, now, op, opKnows, inv, libHas, lapsed, deskVars,
                   wrec, wsaw, wx, wup, faults>>

HoldIsPaid == btc = "complete"

WIsPaid ==
    /\ wpc = "status" /\ HoldIsPaid
    /\ IF wsaw = "claimed" THEN wrec' = "settled" /\ wpc' = "idle"
       ELSE wpc' = "post" /\ UNCHANGED wrec
    /\ UNCHANGED <<worldVars, deskVars, wsaw, wx, wup, faults>>

\* Not paid, or the node does not answer: a sale whose asset came back is over.
WIsUnpaid ==
    /\ wpc = "status"
    /\ IF btc = "complete" \/ (btc = "flight" /\ inv.open /\ RoomToSettle)
       THEN Fault ELSE UNCHANGED faults
    /\ wrec' = IF wsaw = "returned" THEN "returned" ELSE wrec
    /\ inv' = [inv EXCEPT !.open = @ /\ wsaw # "returned"]
    /\ wpc' = "idle"
    /\ UNCHANGED <<dir, now, op, opKnows, btc, mark, libHas, lapsed, deskVars, wsaw, wx, wup>>

\* lightning_post_preimage: the sale is settled even if the desk never claims.
WPostsSecret ==
    /\ wpc = "post" /\ wpc' = "idle"
    /\ opKnows' = (opKnows \/ (Held /\ InTime))
    /\ UNCHANGED <<dir, now, op, btc, mark, inv, libHas, lapsed, deskVars,
                   wrec, wsaw, wx, wup, faults>>

-----------------------------------------------------------------------------
(* The wallet following a purchase: advanceBuy.                             *)

\* The receive failed, the leaf will never do, or the desk never locked.
MakerIsLateIfUnasked == op = "none"
MakerIsLate == op \in {"none", "waiting"}

WComesBack ==
    /\ Passes /\ Buy /\ wrec = "waiting" /\ wrec' = "returned"
    /\ \/ op = "returned" /\ UNCHANGED <<drec, inv>>
       \/ op = "final" /\ ~HoldLasts /\ UNCHANGED <<drec, inv>>
       \/ MakerIsLate /\ LetGo
    /\ UNCHANGED <<dir, now, op, opKnows, btc, mark, libHas, lapsed,
                   early, attempt, calls, dup, wpc, wsaw, wx, wup, faults>>

WClears ==
    /\ Passes /\ Buy /\ wrec = "waiting" /\ LeafReady
    /\ wrec' = "sent" /\ mark' = now
    /\ UNCHANGED <<dir, now, op, opKnows, btc, inv, libHas, lapsed, deskVars,
                   wpc, wsaw, wx, wup, faults>>

\* 'sent': what never left is paid, with no second look at the leaf.
SeenUnpaid == btc = "none" \/ (StatusFails /\ btc = "flight")

WPays ==
    /\ Passes /\ Buy /\ wrec = "sent" /\ btc = "none" /\ now < inv.ends
    /\ btc' = "flight" /\ mark' = now
    /\ UNCHANGED <<dir, now, op, opKnows, inv, libHas, lapsed, deskVars, walletVars, faults>>

\* freshInvoice and POST /v1/btc/invoice: one that ran out is renewed under its hash.
WRenewsInvoice ==
    /\ Passes /\ Buy /\ wrec = "sent" /\ SeenUnpaid /\ now >= inv.ends
    /\ dup /\ drec = "locked" /\ now < Hold
    /\ inv' = [open |-> TRUE, ends |-> Hold]
    /\ UNCHANGED <<dir, now, op, opKnows, btc, mark, libHas, lapsed, deskVars, walletVars, faults>>

\* ... or the trade comes back with nothing paid.
WGivesUp ==
    /\ Passes /\ Buy /\ wrec = "sent" /\ SeenUnpaid /\ now >= inv.ends
    /\ IF dup /\ drec = "locked" THEN Fault ELSE UNCHANGED faults
    /\ wrec' = "returned" /\ LetGo
    /\ UNCHANGED <<dir, now, op, opKnows, btc, mark, libHas, lapsed,
                   early, attempt, calls, dup, wpc, wsaw, wx, wup>>

WHearsFailed ==
    /\ Passes /\ Buy /\ wrec = "sent" /\ btc = "failed" /\ wrec' = "returned"
    /\ UNCHANGED <<worldVars, deskVars, wpc, wsaw, wx, wup, faults>>

\* The secret is saved in the record, and then handed to the library, once.
WHearsPaid ==
    /\ Passes /\ Buy /\ wrec = "sent" /\ btc = "complete"
    /\ wrec' = "claiming" /\ wpc' = "heard"
    /\ UNCHANGED <<worldVars, deskVars, wsaw, wx, wup, faults>>

WHandsOver ==
    /\ wpc = "heard" /\ libHas' = TRUE /\ wpc' = "idle"
    /\ UNCHANGED <<dir, now, op, opKnows, btc, mark, inv, lapsed, deskVars,
                   wrec, wsaw, wx, wup, faults>>

WSettles ==
    /\ Passes /\ Buy /\ wrec = "claiming" /\ op = "claimed" /\ wrec' = "settled"
    /\ UNCHANGED <<worldVars, deskVars, wpc, wsaw, wx, wup, faults>>

\* The page closes, or a call of the pass throws.
PageCloses ==
    /\ wup /\ Fault /\ (wpc # "heard" \/ ClaimInterrupted)
    /\ wup' = FALSE /\ wpc' = "idle"
    /\ UNCHANGED <<worldVars, deskVars, wrec, wsaw, wx>>

PageOpens ==
    /\ ~wup /\ wup' = TRUE
    /\ UNCHANGED <<worldVars, deskVars, wrec, wpc, wsaw, wx, faults>>

Wallet == \/ WLocks \/ WAsksToReceive \/ WIsAnswered \/ WLooksForStep \/ WReads
          \/ WSettlesHold \/ WIsPaid \/ WIsUnpaid \/ WPostsSecret \/ WComesBack \/ WClears
          \/ WPays \/ WRenewsInvoice \/ WGivesUp \/ WHearsFailed \/ WHearsPaid
          \/ WHandsOver \/ WSettles \/ PageOpens

Next == \/ World \/ Desk \/ DeskStops
        \/ WDropsTicket \/ WConfirms \/ WIsRefused \/ Wallet \/ PageCloses

Spec == Init /\ [][Next]_vars

\* Fairness: time passes, payments and claims resolve, timers run each pass again.
FairSpec ==
    /\ Spec
    /\ WF_vars(Pass) /\ WF_vars(OfferLapses) /\ WF_vars(HoldEnds) /\ WF_vars(LeafIsClaimed)
    /\ WF_vars(RoundIsFinal) /\ WF_vars(BtcFails \/ BtcReachesDesk)
    /\ WF_vars(Desk) /\ WF_vars(Wallet)

-----------------------------------------------------------------------------
(* Properties.                                                              *)

\* Whoever pays the BTC finds the asset still held for it when the secret comes: the
\* readiness asked for covers the payment's whole lock (user-trade-btc.js:46-51).
PayerNeverPaysForNothing == btc = "complete" => op # "returned"

\* The asset goes only for BTC paid: neither the secret nor the leaf comes first.
GiverNeverDeliversForNothing == opKnows \/ op = "claimed" => btc = "complete"

\* Whoever has something out follows it: no record is given up over an asset the
\* desk locked (leaf-maker-btc.mjs:60-62) or a payment under way (cln-rpc.mjs:91).
OutIsFollowed ==
    /\ Buy /\ Held /\ ~opKnows => drec \in {"offered", "locking", "locked"}
    /\ Sell /\ Held => wrec \in {"confirming", "sent", "settled"}
    /\ Sell /\ btc \in {"flight", "complete"} => drec \in {"paying", "claiming", "done"}
    /\ Buy /\ btc \in {"flight", "complete"} => wrec \in {"sent", "claiming", "settled"}

\* Paid BTC brings the asset home (user-trade-btc.js:19-21, leaf-maker-btc.mjs:5-9).
PaidIsClaimed == btc = "complete" ~> op = "claimed"

\* Every trade that was confirmed ends, on both sides.
TradeEnds == wrec \in {"confirming", "waiting", "sent", "claiming"}
                 ~> wrec \in {"settled", "returned", "failed"}
DeskEnds == drec \in {"locking", "locked", "cleared", "paying", "claiming"}
                 ~> drec \in {"done", "void", "lapsed", "released"}

\* The BTC is fronted against the asset held, as an intermediary fronts a leg.
Leg == INSTANCE FrontedLeg WITH
    front <- CASE btc = "flight" -> "out" [] btc = "complete" -> "paid"
               [] btc = "failed" -> "back" [] OTHER -> "none",
    recoup <- CASE Held -> "secured" [] op = "claimed" -> "taken"
                [] op = "returned" -> "released" [] OTHER -> "none"
ImplementsFrontedLeg == Leg!Spec

\* The Bitcoin and the leaf go together, and no payment under way is forgotten.
PaymentsAreSafe ==
    /\ TypeOK
    /\ PayerNeverPaysForNothing /\ GiverNeverDeliversForNothing /\ OutIsFollowed

\* Both sides finish, and the payer takes what it paid for.
BothSidesEnd == PaidIsClaimed /\ TradeEnds /\ DeskEnds
=============================================================================
