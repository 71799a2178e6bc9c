# Verification of the Sequentia web wallet

TLA+ models of the wallet's trades across chains and payment networks, the TLC runs that check them on
small instances, and TLAPS proofs of main properties for every value of the constants. Paths
below are relative to the repository (`src/` here is its root).

- [The system](#the-system): components, state, interactions, what is hard
- [The modules](#the-modules): what each models and how it corresponds to the code
- [Runs](#runs): what each shows, its bounds and its fairness
- [Where the code and its comments disagree](#where-the-code-and-its-comments-disagree)
- [Proofs](#proofs): theorems, assumptions, arguments, and what is only model-checked
- [Not modelled, and the plan](#not-modelled-and-the-plan)

## The system

The wallet is a single page of vanilla JavaScript that holds keys for two chains, Bitcoin testnet4 and
Sequentia (whose blocks each commit to a Bitcoin block, their *anchor*), and trades between them and
Lightning without a custodian. A trade is two legs bound by one secret: whoever takes one leg publishes what the
other is taken with, and each leg goes back to its owner at a timelock. What may be interrupted is the page,
closed or reloaded at any `await` with `localStorage` all that survives, and two server processes with
a JSON file each: the LSP and the leaf maker.

| Component | Where | State | Operations, interactions | Hard part |
|---|---|---|---|---|
| Forward swap, taker | `xswap.js` | `SWAP` and its copy `swk.sequentia.xswap`; the list `.xswap.parked`; one watcher | lock BTC, announce, wait, gate, claim; resume hooks on load; refund, park, sweep, abandon | crash at any await, one slot for all takes, two timelocks on two chains |
| Forward swap, maker | `xmaker.js` 365-579 | `swk.sequentia.xmaker[session]` | terms, verify BTC, wait for the anchor, fund the asset, watch, claim or refund; resume on load | crash between the funding and the record; checks that age |
| Reverse swap | `xrswap.js`, `xmaker.js` 621-833 | `.xrswap`, the maker's record | the maker locks BTC and holds the secret, the taker locks the asset; a heartbeat redrives a stalled funding | three programs of one page on one record, revealing across a crash |
| Anchor checks | `xmaker.js`, `xrswap.js`, `xswap.js` | heights read once and recorded | wait for an anchor past the BTC leg, look again, read the anchor of the funded leg | both chains reorganise between the reads |
| Courier | `xcourier.js` | per session: inbox, one waiter, timers | frames of a relay's WebSocket, sealed end to end | stale timers, closes |
| Submarine swap | `subswap.js`, `swap.js` 5700-6650 | `SUBSWAPS` and its rescue copies | a Lightning payment against an asset HTLC; a driver per trade, a resume tick every two minutes | driver and tick act on one record, payments that settle late |
| Walk | `swap.js` 6000-6250, `subswap.js` 230-264 | `WALK`, one slot | a take larger than one offer, leg after leg | legs that fail, stay resumable, or report to another walk |
| LSP bridge | `tooling/lsp/leg-bridge.mjs`, `bridge-*.mjs`, `lsp-server.mjs` | `jobs.json`, Core Lightning | buys one leg for a taker that pays the other: funds or fronts, relays, recoups, refunds, bumps | restarts in the middle of a job; spent money whose recoup lapses |
| Leaf maker, BTC desk | `tooling/lsp/leaf-maker-btc.mjs` | `btc-swaps.json` | sells and buys leaves of an operator's tree for BTC over Lightning | payments of unknown fate, holds that end |
| Leaf maker, quotes | `leaf-maker.mjs`, `leaf-maker-ladder.mjs` | rates, coins | ladder, firm price, budget cut, price readings, merge of coins | roundings, a wrong reading |
| Wallet, BTC trade | `user-trade-btc.js`, `user-trade.js` | a trade record | the other side of the desk | a page away for the length of a hold |
| Order book | `seqob.js` | none beyond its connection | signed offers, canonical encoding, sealing | |
| Composer, routing | `swap.js`, `user-trade.js`, `user-composer.js`, `default-arca.js` | the quote on screen | chooses a route, hands it to a swap module; guards one swap at a time | checks made long before they are acted on |
| Mixed jobs | `submarine.js` | a record per LSP job | one job of the LSP, polled | late responses |
| Ark and leaves | `btc-ark.js`, `lightning-to-ark.js`, `leaf-rail.js`, `leaves.js` | records, WASM wallets | payments and trades in an operator's tree | claims that must precede an expiry |
| Staking | `stake-records.js` | a record per pool join | two transactions with a record between | crash in between |
| Covenant orders | `covenant*.js` | the chain | on-chain orders | arithmetic of partial fills |
| Lightning | `seqln.js`, `lncredit.js`, `lnupgrade.js` | node state, a credit ledger | channels, invoices | |
| Site orders, page API | `wallet-api.js`, `site-orders.js` | orders of connected sites | requests from other pages | reloads |
| Coinjoin | `coinjoin*.js`, `blindsig.js` | a round | inputs, blind signatures, outputs, signing | participants that vanish |
| Shell | `index.html`, `btc.js` | wallet lifecycle | `C.btcLeg`, `C.seqLeg`: what the swaps call on each chain | |

What must be true, by component, is what the modules' properties say. `PROJECT.json` lists the hazards found,
each at its line, with the properties that cover it or the reason none does.

### One forward swap

```
taker (xswap.js)                    maker (xmaker.js)
   terms_request  ───────────────────▶  keys, T_btc = btc tip + 100, T_seq = seq tip + 240 saved
                  ◀─────────────────── terms
   stub saved; BTC HTLC broadcast; outpoint saved
   btc_leg_funded ───────────────────▶  BTC leg confirmed? anchor past it? window open?
                                        asset HTLC broadcast; mined; leg saved
                  ◀─────────────────── seq_leg_locked  (withheld if its block anchors too low)
   anchor gate, T_seq margin, claim: the secret is public
                                        reads the secret off the chain, claims the BTC
   else: BTC refund at T_btc            else: asset refund at T_seq
```

## The modules

| Module | Models | Composes | Proofs |
|---|---|---|---|
| `AtomicSwap` | what any hash-locked swap promises; three variables, no code | | `ReverseSwapProofs` |
| `FrontedLeg` | what an intermediary promises itself when it pays one leg to be paid by the other; no code | | |
| `ForwardSwap` | one swap: `xswap.js` and `xmaker.js` over two chains | implements `AtomicSwap` | `ForwardSwapProofs` |
| `ReverseSwap` | one swap the other way: `xrswap.js` and `xmaker.js` | implements `AtomicSwap` | `ReverseSwapProofs` |
| `AnchorGate` | both directions' anchor checks under reorganisations of both chains | | `AnchorGateProofs` |
| `SwapSlot` | the slot, the parked list and the sweeper of `xswap.js` under several swaps | | `SwapSlotProofs` |
| `CourierTransport` | one end of a courier session | | `SwapSlotProofs`, at its end |
| `Submarine` | a trade over Lightning, both directions: driver and tick of one page | implements `AtomicSwap` | `SubmarineProofs` |
| `BookWalk` | the plan and the orchestrator of a walk | extends `TakeTerms` | `SubmarineProofs`, its second part |
| `PayerBridge` | the LSP's job that funds a BTC HTLC against a held payment, or fronts the asset | implements `FrontedLeg` | `PayerBridgeProofs` |
| `ReceiverBridge` | the LSP's job that pays the taker first and takes the maker's BTC HTLC after | implements `FrontedLeg` | `ReceiverBridgeProofs` |
| `BtcTrade` | a leaf against BTC over Lightning: desk and wallet | implements `FrontedLeg` | `BtcTradeProofs` |
| `TakeTerms`, `MakerQuotes` | the arithmetic of terms and of quotes, as operators | | |
| `PriceTerms` | asks each of those operators every question of a bounded kind | extends both | `SubmarineProofs`, its last part |

`ForwardSwap`, `ReverseSwap` and `Submarine` instantiate `AtomicSwap` with one leg as the coins and the other
as the goods; `ImplementsAtomicSwap` says that every behaviour of the two programs is one the abstract swap
allows. `PayerBridge`, `ReceiverBridge` and `BtcTrade` do the same with `FrontedLeg`, whose promise is one-sided:
the front goes out only against a recoup locked to the payer, and the recoup is let go of only if the front never left or
came back.

**Switches.** Each module takes a few Boolean constants that admit one hazard each, named for what they
admit (`LossyClaim`: a fault may hit the await of the claim broadcast). A passing run or a theorem says
which are off, so it reads as "the code is safe as long as this does not happen"; the table of
[disagreements](#where-the-code-and-its-comments-disagree) turns one on and shows what the code then does.
Everything that has no switch (crashes and reloads elsewhere, late clicks, lost sessions, order of mining) is
always possible. Time is a block height (a minute count in `BtcTrade`); constants such as `Outage`,
`Absence` and `Drift` bound how much of it passes between two steps of one program, and a guard on the
clock is how such a bound is stated.

### ForwardSwap

*Chains.* `btcTip`, `seqTip` count blocks since the terms, so `TBtc` and `TSeq` are the deltas of
`RunMakerForward`. A leg goes `none → mempool → mined → claimed | refunded`; `btcPend`, `seqPend` hold the
spends broadcast and not mined, and a block picks one, so a race between a claim and a refund is decided
either way. `anchored` is the anchor comparison of the asset leg's block, true or (after a Sequentia
reorganisation) false. `Inclusion` bounds how many blocks pass between the tip a gate read and the mining
of the spend that gate cleared: the code's margins exist for exactly this delay, and `InclusionAssumption` says
they are at least as long.

*Taker.* `tk` is where `runForwardCourier` or a resume hook stands: the awaits of the code, in
order. `rec` is the record on disk reduced to `state`, how much of the outpoint it holds, and whether it
has the mined height. In this module memory and disk agree (the code saves after each assignment);
their divergence is `SwapSlot`'s subject. `watch` is `startBtcConfWatcher`. `TakerFault` closes the
page at any await, or makes the await of a broadcast throw after the node accepted the transaction;
`TakerReloads` then leaves `idle`, from which the resume hooks `TakerResumesClaim`,
`TakerResumesFunding`, `TakerFindsStrandedLeg` and the sweeper `TakerSweeps` act. `TakerRefunds`,
`TakerParks` and `TakerAbandons` are the buttons, pressed whenever they are offered, also in the middle
of a gate: `TakerGatePasses` does not look at the state again, as `claimSeq` does not.

*Maker.* `mk` is where `RunMakerForward` / `settleMakerForward` stands and `mrec` the state of the
persisted record. `MakerFault` ends the driver at any await; nothing restarts it but `MakerReloads`
(`resumeMakerSwaps`), which resumes only a record that carries `seq_leg`.

*Abstracted.* Hashes, keys, scripts, amounts, fees and the choice of an offer: both parties run this code,
so legs match terms (`verifyLeg` and the maker's script comparison pass). The legacy RFQ states and the
session reattach are left out. A failed read is a Boolean choice where the code tells failure from
absence wrongly (`LossyReads`, `LossyTips`) and a stutter where it just retries.

### SwapSlot

`mem` is `SWAP`, `disk` its saved copy, `parked` the list. A record holds whose keys it has (`swap`), whose
outpoint (`leg`) and whose asset leg (`asset`) were written into it: in the code these are one object's
fields and the question is whether they stay of one swap. Each swap's run is the part of
`runForwardCourier` that touches `SWAP`. `Take` is `reviewCross` (`swap.js:9181`) followed by the in-memory
record; `hasInFlight` is `LoadSwap` with `InFlight`, and reloading the disk over an unsaved take is
something it does. The sweeper is three actions, split at its awaits: `SweepReads`, `SweepRefunds` (one
entry), `SweepWrites` (the whole list replaced). The maker and the timelock race are not here: the BTC of a
swap is locked, refunded or paid.

`ParkEligible` includes a failed swap with an outpoint and no asset leg, as the code does; `ClearAllowed`
is `onAbandon` past its two early returns.

### CourierTransport

`wsTransport` (taker) and the per-lift transport inside `openMakerListener` (maker) are two
implementations of one contract; the two lines in which they differ are the constants `IdentityChecked`
and `StickyClose`. A recv is numbered by call; `settled` records how each ended and by whose timer.
Timers are never cleared in the code, so `TimerFires(n)` may come long after recv `n` was answered. The
driver awaits each recv before the next (`CourierSession.recv` does), which is `Recv`'s guard.

### ReverseSwap

The maker locks BTC first and holds the secret, the taker locks the asset and learns the secret from the maker's
claim. Chains, legs and `Inclusion` are as in `ForwardSwap`.

*Taker.* Three programs of one page work on one record: `tk` is `driveReverse`, from the terms to the
announcement of the asset leg; `rd` is `resumeFundingPhase`, started by the heartbeat (`BeatIsOld` is its 90 s
test) or after a reload; `settle` is `driveSettle`, which polls for the secret. `rec.asset` is how much the
record holds of the asset leg: the script (`seq_redeem`), the funding's txid, the outpoint. `TakerReloads`
leaves `idle` and the four resumes act. `fundings` counts the asset HTLCs ever broadcast, so a double fund is
visible. `TakerTriesNextOffer` is the return `'retry'` of an offer whose maker never announced its leg.

*Maker.* `mk` is `RunMakerReverse` and `refundReverseBtc`, `mrec` the record, `userCancel` the press of cancel.
An earlier cancel of the same offer (`EarlierCancel`) leaves its aborted signal in the listener's closure.

*Gates on timelocks.* `TermsAreSafe` is the three comparisons of `verifyMakerBtcLeg` and its floor of `T_seq`: tips that do not read
refuse the terms, except at the floor, which is read on its own. `FundWindowClosed` is the opposite: a tip that does not
read closes nothing, so at the last look before the funding the taker funds (`LossyTips`). Both take what was read as
parameters, and `TipReads` says what a read may do. `ReverseMinBtcDelta` converts Sequentia blocks to
Bitcoin's, with the spacings and the margin as constants.

*Abstracted.* `reannounceSeqLeg` (`xrswap.js:763-775`) never runs, because `SWAP` does not hold the session key
it needs; it has no action. The `SETTLING` flag is dropped with the page.

### AnchorGate

*Chains.* Bitcoin's tip and the height of the BTC leg's block; a reorganisation (`BtcReorg(f)`) returns the tip to `f`,
may drop the leg, remine it elsewhere or spend its input otherwise (`dead`), and takes along every Sequentia block
anchored above `f`. Sequentia's own state is the anchor of its tip (`live`) and the anchor `a` of the asset leg's
block, with `certified` for the committee's certificate, which ends Sequentia's own reorganisations of it. `reported` says
whether the claimant's node has the field `poscertified`: where it has not, the gate passes without a certificate (`NotRefused`), in either
direction (`xswap.js:1362`, `xmaker.js:760-761`).

*Parties.* `fu` is whoever funds the asset leg (the selling taker of `driveReverse` or the selling maker of
`RunMakerForward`), `cl` whoever claims it. `side` is the direction and `honest` says which of the two checks: the
other may fund or claim at any moment (`PeerFunds`, `PeerClaims`). `moved`, `shaken`, `exact` and `undone` are
history: what the statement must exclude because the code cannot see it. `FunderLooks` is the look after the
wait, with its remine rounds (`Remines`); `FunderAnnounces` is the check of the funded leg's block, by hash for a maker
(`AnchorByHash`, which an orphan still answers) and by the present chain for a taker.

### Submarine

Two directions of one trade. In a buy the taker pays an invoice on H and claims the asset HTLC with the preimage; in
a sell it locks the asset and settles a held payment with its own preimage. `driver` is the program that lifted the
offer (`runTakerReverseSubmarine`, `runTakerSubmarine`, `driveSubswap`'s catch in `Caught`); `tick` is
`resumeOneSubswap`, split where it awaits. Both hold a reference to one record, so `rec` is shared; `listed` says the
stored list has it, `rescue` is the copy under `swk.rescue.subswaps`. `Block` is which block of the hook a record falls into, and a record in none
is dropped. `UserClears` and `Reaps` are the Clear button and the three-minute reap.

*External.* `ln` is the payment on H in either direction, resolved within `Cltv` blocks; the maker locks, pays, settles,
claims and refunds as it likes. `MineSeq`'s guards are the rates: a call follows the reading that cleared it within
`Drift`, a maker settles within `SettleBy`, and a wallet with something to claim is back within `Absence`.

*The anchor wait.* The deps of both drivers set `minAnchorDepth: 0` (`swap.js:5612`), so `waitAnchorBuried` returns at the leg's first
Sequentia confirmation, and `LegConfirmed` asks for no more. A reorganisation may take a confirmed leg back to the mempool or undo it
(`MakerUnlocks`) as long as no payment is under way; that it may do so afterwards, when the buyer has paid, is the switch `LateReorg`.
A plain invoice is settled by the hosted node, which was given the preimage (`NodeSettles`), and a hold invoice by driver or hook.

*Abstracted.* Amounts are `TakeTerms`'. A seller's own leg stays mined: the taker's programs do nothing after its funding that
depends on it but refund. Boot calls `resumeSubswap` outside the tick's busy flag (`index.html:4082-4095`), so two runs of the hook may
overlap in the code; the model has one.

### BookWalk

`WalkBook` is the plan, over `TakeTerms!SizeSubswapTake`. `walk` is the one slot `WALK`, `recs` the submarine records
with the driver of each; a leg's driver ends settled, failed or resumable (`DriverEnds`), and its report comes later
(`AdvanceWalk`, `StopWalk`, `ReportsInVain`), to whatever walk the slot then holds. `Resumes` is the hook's settling of a leg left behind,
which reports to nobody. A floating part of the code, the display of the row, is the properties' reading of `walk`.

### PayerBridge

The LSP holds a taker's Lightning payment on H and funds a BTC HTLC for the maker (or fronts the asset from its
own wallet). One action per decision of `nextBridgeStep` and per await of what it decides: `DriverGates` and
`DriverBroadcasts` and `DriverRecordsHtlc` are `runPayerFundOnce` and `fundOnchain`, `DriverRelays` to `DriverHandsOff` the
relay, `DriverSettles` the recoup, `DriverRefunds`, `DriverSendsRefund` and `DriverBumps` the refund and its fee
bumps. `job` is the job in memory and `disk` what `jobs.json` has; `ProcessStops` loses everything else and `Boots` is `loadJobs` with
its filter (`Resumable`) and the reap. `legIoFor` hands no `isFronted` to `runBridgedLeg`, so `fronted` is what
`runBridgedSwap` read as it started, before any decision to front.
The rates (`MineBtc`'s guards): a well-paid refund is mined within `ConfirmBudget`, and a served job gets a tick through within `Outage` blocks.

### ReceiverBridge

The other direction: the maker's BTC HTLC to the LSP is the recoup, the LSP's payment of the taker's hold invoice the front.
`OrderingGate` and `FrontGate` are the two gates before the front, `MintTarget` the expiry the front is asked for,
`DriverPays` and `DriverMarks` the payment and the save of `frontHeld` after it. `WaitEnds` is the end of the courier session,
after which only a record with `held` is resumed.

### BtcTrade

One hash, a leaf in the operator's tree and a Lightning payment. `op` is the operator's receive under the hash (external),
`btc` the payment; `dir` is the wallet's side. Desk: `drec` is the swap in `btc-swaps.json`, `attempt` and `calls` the
library calls that lock the asset (a call may outlive the process's patience, `LOCKING_SECONDS`, and be adopted later).
Wallet: `wrec` is the trade record, `wpc` where one pass of `settleStep` stands, `wsaw` what it read at its start. Time counts from
the operator's hold; `Need` is what a payer asks to be left of it before it pays, which the property is about.

A failed payment is tried again, or ends the swap where the wallet's node no longer knows its invoice (`DeskHearsFailed`).

*Left out.* `mayPayUnfinal` skips swaps marked `void`; two passes of `resume` at once.

### TakeTerms, MakerQuotes, PriceTerms

Pure operators with the names of the functions they translate. `PriceTerms` is the harness: one step asks one question of a
bounded kind (`AskBuy`, `AskSell`, `AskSize`, `AskHold`, `AskRefund`, `AskQuotes`, `AskFeed`, `AskMerge`), the next answers it by the
code's operator, and an invariant compares the answer with a definition that shares nothing with it. Amounts are small integers;
BigInt division is `\div`. The growth of a ladder is an integer
where the code's is a float.

## Runs

All configurations set `CHECK_DEADLOCK FALSE`: a swap ends, a page with nothing to do stops, and the
bounds on faults, frames and calls stop the model.

| Run | Distinct states | Shows |
|---|---|---|
| `forward_atomic` | 543,214 | safety and the refinement, with failed reads, interference with the stub and a maker crash during its funding all on |
| `forward_live` | 77,701 | with the hazards off: every leg is recorded, watched and resolved |
| `reverse_swap` | 76,287 | nobody pays for nothing, one funding, every locked leg on record and resolved, the refinement |
| `anchor_gate` | 3,411,776 | funder, claimant and withheld leg against reorganisations of both chains, with and without a reported certificate |
| `slot_apart` | 26,159 | takes and sweeps kept apart: no locked BTC off record, records hold their own legs, a parked swap is refunded |
| `courier_taker` | 556 | all properties of `wsTransport` |
| `submarine` | 124,483 | both directions: no side has both legs, what is out is on record, paid is claimed, the refinement |
| `book_walk` | 116,590 | a walk takes no more than asked, one leg at a time, counts what settled, and closes |
| `payer_bridge` | 454,890 | a funded HTLC is recouped or refunded, once, and the job is never given up |
| `receiver_bridge` | 149,541 | who paid has what it paid for, in time |
| `btc_trade` | 133,458 | leaf and BTC go together in both directions, and both sides end |
| `price_terms` | 200,086 | every answer against its reference |

*Bounds.* In every module with timelocks they are long enough that each gate is passed early, passed at
the last block, and missed, and that each chain runs past its timelock while the other stands: forward `TBtc` 3-4,
`TSeq` 4-6, margins 1-2; reverse 3 and 4, with two Sequentia blocks to a Bitcoin block so that the maker's terms pass the taker's comparison
when fresh and fail it when late; payer hold 12 with T_btc of 1, 3 or 6 (one the gates refuse, one
they barely pass, one they pass); receiver `TBtc` 9; submarine `TSeq` 8 with a payment lock of 3; the desk's hold 8 minutes against
a lock of 2 and a reaction of 3, with invoices that run out at 1 or 8. Two faults of one party and one of the other (three where one process has
all of them) cover a crash in a resume after a crash, and both parties failing in one swap.
Three swaps and a sweep: one swap parked, one in the slot and one taking it over, while a sweep runs.
Three frames and four recvs: a stale timer, the recv it could hit, one after it, and
frames before, between and after them. `anchor_gate` has four heights, two reorganisations of Bitcoin and one of
Sequentia, so a leg is reorganised, remined and reorganised again while the other side waits. `book_walk` has two
trades and a reload. `price_terms` asks amounts up to 10 and five coins, against constants small
enough that dust, ceilings and caps all bite. The proofs remove the bounds for safety where there is one.

*What a passing run assumes.* The switches that are off, which the next section turns on, and the rates: `Inclusion` within
the claim margins; `Outage`, `LapseDelay`, `LateClaim` of the bridges; `Cltv`, `SettleBy`, `Drift`,
`Absence` of a Lightning trade; `Lock`, `Drift`, `Absence` of the desk. The proofs of `SubmarineProofs` show what
is needed of them: `Drift + SettleBy + Absence <= Cltv`.

*Fairness.*

- `ForwardSwap!ChainFairness` and `ReverseSwap!ChainFairness`: both chains make blocks and mine what was broadcast.
- `TakerFairness`, `MakerFairness`: an open page runs its promises and timers, and a closed one is opened
  again some day (without that nothing could be promised about the maker's claim). The user's buttons have
  none, except that `RefundingSpec` assumes the refund button is pressed in the end, since only the parked list
  refunds by itself. `MakerLearnsSecret` is strongly fair: its read may fail any number of times, and a
  maker polling every 15 s does not fail for ever.
- `SwapSlot!FairSpec`: the timer of `armParkSweeper` keeps firing, and a refund retried on every pass is
  not refused, or cut short by a reload, for ever.
- `CTFairSpec`: `setTimeout` fires.
- `Submarine!FairSpec`: blocks come; a maker that has the preimage claims; driver, two-minute timer and reopening of the page.
- `PayerBridge!Fairness`, `ReceiverBridge!Fairness`: chains, the lapse of a hold, a counterparty's own claim and refund, the driver loop
  and the boot (a service manager restarts the process) are weakly fair; a tick that gets its action through is strongly
  fair, since a job polled every few seconds is not cut short for ever. In the receiver bridge the taker settles once its asset is claimed: it wants its BTC.
- `BtcTrade!FairSpec`: time, the operator's rounds, the fate of a payment, the desk's `follow` and the wallet's passes.
- `BookWalk!WalkFairness`: each leg's driver ends and its report is made.

## Where the code and its comments disagree

Each line is one change away from a configuration of this directory: set the constant (or nothing, where it says so) and add the
property to the cfg, and TLC finds a behaviour of the code that breaks what a comment, test or
document of the repository says. They have no run of their own; a theorem that assumes the constant away says what it protects.

| Configuration, change | Property broken | What happens |
|---|---|---|
| `forward_live`, `FundingFault` | `RevealedMakerIsPaid` | The maker's page closes while its asset funding confirms. The record has `seq_fund_txid` and no `seq_leg`, so the reload drops it; the taker finds the leg by address, claims it, and the maker never claims the BTC. |
| `forward_live`, `LossyReads` | `LockedBtcIsOnRecord` | The BTC funding was accepted and its response lost; on reload the address scan fails or lags, and `resumeFunding` clears the only record. |
| `forward_atomic`, `LossyClaim` | `MakerNeverDeliversForNothing` | The claim was accepted, its response lost. The record still offers the BTC refund; with the maker's page closed until `T_btc`, the taker ends with both legs. |
| `forward_live` under `FairSpec` | `MinedHeightIsLearned` | A record reloaded at `SEQ_LOCKED` without the lock's mined height never gets it: `resumeFunding` handles `PENDING` only. |
| `forward_live`, `StubInterference` | `LockedBtcIsOnRecord` | A render or an Abandon while the funding POST is in flight finds a stub without outpoint and clears it (`xswap.js:1684`, `1703`). |
| `forward_atomic`, `LossyTips` | `TakerNeverPaysForNothing` | The claim gate passes when the tip cannot be read, next to `T_seq` (`xswap.js:1488`); the maker's refund wins the race and the secret is out. |
| `forward_atomic`, `LossyTips` | `AssetLockedAgainstLiveBtc` | The maker's last window check passes when the tips cannot be read (`xmaker.js:234`); it funds against a BTC leg being refunded. |
| `forward_atomic`, `SeqFirst = FALSE` | `MakerNeverDeliversForNothing` | `T_btc` opens before `T_seq` (Sequentia stalled): `claimSeq` does not look at `T_btc`, and the taker takes both legs. |
| `slot_apart`, `ConcurrentTakes` | `SlotKeepsLockedBtc` | Two takes pass the guard before either locks; the second lock overwrites the first one's record. |
| `slot_apart`, `SweepRaces` | `ParkedUntilRefunded` | A swap parked during a sweep is erased by the sweep's write. |
| `slot_apart`, `LateWrites` | `LegsBelongToTheRecord` | A parked swap's run receives its asset leg and writes it into the next swap's record. |
| `courier_taker`, `IdentityChecked = FALSE` | `TimeoutIsOwn` | The 120 s timer of the maker's first recv rejects its second, which should wait two hours. |
| `courier_taker`, `StickyClose = FALSE` | `NoWaitAfterClose` | The maker's recv after a close waits to its timeout (`xcourier.js:368`). |
| `reverse_swap`, `LossyClaim` | `TakerNeverPaysForNothing`, `NoRefundOnceRevealed` | The claim is accepted and its response lost; after a reload `resumeMakerSwaps` finds no `seq_claim_txid` and refunds the BTC although `s` is public (`xmaker.js:324-327`; `refundReverseBtc`: "s is never revealed on any path that reaches here"). |
| `reverse_swap`, `LossyReads` or `StaleBeat` | `AssetFundedOnce` | The redrive funds again: its scan reads nothing while the first funding propagates, or the live driver sits in `fund()` past the 90 s beat ("the two can never race a double-fund"). |
| `reverse_swap`, `FundingFault` | `LockedBtcIsRecoverable` | The maker's page closes between the BTC broadcast and the outpoint's save ("PERSIST-BEFORE-CONFIRM"). |
| `reverse_swap`, `EarlierCancel` | `CancelIsOwn` | `cancelMakerLift` replaces a controller the listener's closure does not read again, so the next lift is cancelled at its gate. |
| `reverse_swap`, none | `RetryLeavesNothingLocked` | `driveReverse` answers `'retry'`, "NO maker committed any BTC", after a 30 s wait, while the browser maker announces its leg only once the BTC is confirmed. |
| `reverse_swap`, the code's terms: `TBtc = 100`, `TSeq = 240`, `ClaimMargin = 10`, `ClaimWindow = 120`, `BtcClaimWindow = 6`, `BtcClaimDelta = 30`, `MaxSeqLockDelta = 480`, `SeqSpacing = 90`, `BtcSpacing = 150`, `BtcClaimMargin = 6`, `Inclusion = 10`, no faults | `FreshLockIsTaken` | The browser maker's `T_btc` is 100 Bitcoin blocks away (`xmaker.js:672`), and the browser taker wants 150 for 240 Sequentia blocks (`xrswap.js:611-612`, `btc-timeouts.test.mjs:34-36`: "the bitcoin time outlasting the Sequentia time"). It refuses a lock announced at once, and the BTC waits for `T_btc`, which `xmaker.js:629` calls "the (longer) T_btc". The run gives the maker terms that pass. |
| `reverse_swap`, `LossyTips` | `AssetLockedAgainstLiveBtc`, `ImplementsAtomicSwap` | The taker's last window check passes when the tips cannot be read (`xrswap.js:302-317`: "A chain read that FAILS is not a verdict; it returns null and we keep waiting"): nothing waits any more, and the asset is locked against BTC that is being refunded. |
| `anchor_gate`, none | `AnchorOnlyIsSafe` | A node that does not report `poscertified` passes the gate (`xswap.js:1339-1342`); Sequentia then moves the leg to a lower anchor. `xswap.js:1349` speaks of "all THREE conjuncts", 1341 of staying "anchor-only". |
| `anchor_gate`, none | `NeverOutlived` | The claimant compares with a height recorded once (`xswap.js:1803-1827`, `xmaker.js:732-734`); the BTC leg is remined higher, and a later reorganisation takes it without the asset leg. README.md:698: "an anchored Sequentia leg cannot outlive the Bitcoin leg". |
| `anchor_gate`, none | `WithheldByMakerIsSafe` | The selling maker's check asks for the leg's block by hash (`xmaker.js:518`), while 753-755 say why that must not be done: "a cached block hash would keep answering for an orphan". |
| `submarine`, `LateReorg` | `BuyerNeverPaysForNothing`, `ImplementsAtomicSwap` | The buyer pays at one Sequentia confirmation, and a reorganisation undoes the leg. `swap.js:5585-5587`: "the taker ALWAYS waits the asset HTLC anchor-buries before its irreversible act", while the same function sets `minAnchorDepth: 0` at 5612 and `subswap.js:408-412` returns at 0. |
| `submarine`, `SettleBy = 2`, `Absence = 2` or `RepayGoesOut` | `BuyerNeverPaysForNothing` | A payment still in flight settles when the claim window has closed, and the resume does not look it up (`subswap.js:744`: "the claim window has closed; NOT re-paying (no loss)"). |
| `submarine`, `TickMidFunding` | `OutstandingIsOnRecord` | The hook reads an address its driver is about to fund, finds it empty and drops record and rescue copy (`subswap.js:785`: "There is NO window where the asset HTLC is funded but H/P are unpersisted"). |
| `submarine`, `StatusFails` or `LateMaker` | `SellerNeverHasBoth` | An unreadable status counts as not held, or the hold comes after the read: the hook refunds the asset and the payment is settled. The first costs the maker, not the wallet's user. |
| `submarine`, none | `RecordEnds` | A refund or claim whose response was lost is never seen as done; every tick tries it again (`swap.js:6530`: "a retry re-claims"). |
| `book_walk`, `TwoWalks` | `OneLegLive`, `FilledIsReal` | Another trade replaces the slot while a leg runs; the leg's report then advances the wrong walk (`swap.js:6117`: "so at most one leg is ever live"). |
| `book_walk`, none | `WalkEndsAfterAll` | `resumeOneSubswap` never reports to the walk: after a reload the row says it is running (`swap.js:6131`: "close the walk out honestly"). |
| `payer_bridge`, none | `FrontIsRecouped` | The driver that fronts never sees that it did (`legIoFor` drops `isFronted`), and a boot does not resume a fronted job: the taker claims the front and the hold lapses (`leg-bridge.mjs:863`: "That is a straight loss of the fronted inventory, and it is the one outcome fronting must never produce"). |
| `payer_bridge`, none | `FrontedOnce` | A stop between the broadcast of the front and its record fronts again. |
| `payer_bridge`, `HoldBuffer = Finality + ConfirmBudget`, no faults | `FundIsRecouped` | The buffer the code derives (`leg-bridge.mjs:50`: the slack that spans confirmation and burial "IS holdBuffer") has no block for the tick that bumps the refund, nor for the one that settles. |
| `payer_bridge`, `SlowMaker` | `FundIsRecouped` | P is public late and the maker's claim displaces the refund ("let its claim win") after the hold lapsed. |
| `payer_bridge`, `DiskFaults` | `RefundKeyDurable` | `persistJobs` logs a failed write and returns; the HTLC goes out with its key in memory only (`leg-bridge.mjs:1064`). |
| `payer_bridge`, `LongInterruption` | `FundedJobIsKept`, `FundIsRecouped` | An interrupted job with a funded HTLC is reaped after `JOB_TTL_MS` (`leg-bridge.mjs:1001`). |
| `payer_bridge`, `EvictedReturns` | `NoDoubleDip` | A refund evicted from our mempool is still mined after the hold was settled (`leg-bridge.mjs:900`). |
| `receiver_bridge`, `SlowFront`, `UnmarkedStop` or `ReadsFail` | `FrontIsRecouped`, `FrontIsServed` | The process stops between the payment and the save of `frontHeld`, or gives the leg up while the payment is pending; nothing resumes it and the taker settles later (`lsp-server.mjs:6089`: "has nothing at stake"). |
| `receiver_bridge`, `ClaimMargin = 3`, `Outage = 2` or `LapseDelay = 2` | `FrontIsRecouped` | The margin must exceed the blocks until a front is failed back and a restart has claimed; the code's is 6. |
| `btc_trade`, `ClaimInterrupted` | `PaidIsClaimed` | The page closes as it hands the secret over, and its record says it did (`user-trade-btc.js:286-288`). |
| `btc_trade`, `Drift = 3` or `RoundVoids` | `PayerNeverPaysForNothing` | The payment leaves later after its check than the reaction time allows; or the desk paid ahead of a round that is then void. |
| `btc_trade`, `StatusFails` or `LockSlow` | `OutIsFollowed` | A payment whose status cannot be read is taken for failed (`tooling/cln-rpc.mjs:89`: "A payment the node may still make is followed by its status, never paid again"); an asset the library locks after `LOCKING_SECONDS` belongs to no swap. |
| `price_terms`, none | `JumpIsConfirmed` | Far readings need not agree with one another, and after a missing reading the next is trusted at once (`leaf-maker.mjs:474`: "taken only once `JUMP_READS` readings in a row say so"). |
| `price_terms`, none | `SmallestFirst` | At twice the cap the coins merged are the smallest of one kind first (`leaf-maker.mjs:159`: "the smallest coins of all"). |

Remarks without a property: `sizeRefundFee` ignores its value ceiling for an amount at or under dust; a Bitcoin fee rate above about
6 sat/vB makes `LEG_SPEND_FEE_FLOOR` too low; after a restart a receiver job keeps `confirming`, so its taker never sees `fronted`;
an over-cap mixed job that the LSP restarted keeps the finality `confirming`, which `submarine.js` reads before the status; `resumeMixedSwap` never re-POSTs, although `swap.js:8709-8712` says it does.

## Proofs

For every value of the constants that meets the modules' named assumptions (`HeightsAssumption`,
`InclusionAssumption`, `SwitchesAssumption`, `SlotAssumption`, `TransportAssumption`, `AnchorGateAssumption`, `ClockAssumption`, `BookWalkAssumption`, `TakeAssumption`, `QuotesAssumption`,
`PricesAssumption`), and
under the conditions each theorem assumes:

| Theorem | States | Assumes |
|---|---|---|
| `ForwardSwapProofs!TypeCorrect` | `[]TypeOK` | |
| `TakerSafe` | `[]TakerNeverPaysForNothing` | `~LossyTips` |
| `MakerSafe` | `[]MakerNeverDeliversForNothing` | `SeqFirst`, `~LossyClaim`, `~LossyTips` |
| `Implements` | `ImplementsAtomicSwap` | the same |
| `AssetMeetsLiveBtc` | `AssetLockedAgainstLiveBtc` | the same |
| `RecordsKept` | `RecordsAreKept` | `SeqFirst`, `~LossyClaim`, `~LossyTips` |
| `OutpointKept` | `OutpointNeverForgotten`, the first half of it | |
| `BtcOnRecord` | `[]LockedBtcIsOnRecord` | `~LossyReads`, `~StubInterference` |
| `AssetWatched` | `[]LockedAssetIsWatched` | `SeqFirst`, `~LossyClaim`, `~LossyTips`, `~FundingFault` |
| `LegsOnRecord` | `[]LegsAreOnRecord` | all of these |
| `ReverseSwapProofs!TypeCorrect` | `[]TypeOK` | |
| `MakerSafe` | `[]MakerNeverDeliversForNothing` | |
| `TakerSafe` | `[]TakerNeverPaysForNothing` | `~LossyClaim` |
| `StepsSafe` | `StepsAreSafe` | `SeqFirst`, `~LossyClaim`, `~LossyTips` |
| `AssetOnRecord` | `[](AssetFundedOnce /\ LockedAssetIsOnRecord)` | `~StaleBeat`, `~LossyReads` |
| `BtcOnRecord` | `[]LockedBtcIsRecoverable` | `~FundingFault` |
| `LegsKept` | `[]LegsAreKept` | `~LossyClaim`, `~StaleBeat`, `~LossyReads`, `~FundingFault` |
| `Implements` | `ImplementsAtomicSwap` | `SeqFirst`, `~LossyClaim`, `~LossyTips` |
| `Atomicity` | `Atomic!AllOrNothing` of the abstract swap | |
| `AnchorGateProofs!TypeCorrect` | `[]TypeOK` | |
| `FunderSafe` | `[]FunderIsSafe` | |
| `ClaimantSafe` | `[]ClaimantIsSafe` | |
| `WithheldSafe` | `[]WithheldLegIsSafe` | |
| `SubmarineProofs!TypeCorrect` | `[]TypeOK` | |
| `BuyerSafe` | `[]BuyerNeverPaysForNothing` | `Drift + SettleBy + Absence <= Cltv`, `~RepayGoesOut`, `~LateReorg` |
| `SellerSafe` | `[]SellerNeverHasBoth` | `Drift <= Cltv`, `~StatusFails`, `~LateMaker`, `~TickMidFunding` |
| `TradeSafe` | `[]TradeIsSafe` | both |
| `Implements` | `ImplementsAtomicSwap` | both |
| `WalkTypeCorrect` | `[]WalkTypeOK` | |
| `WalkHonest` | `[]WalkIsHonest` | `~TwoWalks` |
| `WalkStopsAtFailure` | `NothingAfterAFailure` | `~TwoWalks` |
| `TakesSound` | `[]TakesAreSound` | |
| `QuotesSound` | `[]QuotesAreSound` | |
| `PayerBridgeProofs!TypeCorrect` | `[]TypeOK` | |
| `JobSound` | `[]JobIsSound` | `~DiskFaults`, `~LongInterruption`, `~EvictedReturns` |
| `RefundsLate` | `RefundAfterTSeq` | the same |
| `FundRecouped` | `[]FundIsRecouped` | the same, and `InTime`: `Margin <= HoldBuffer`, `Margin <= BumpWithin`, `~SlowMaker` |
| `Implements` | `ImplementsFrontedLeg` | both |
| `ReceiverBridgeProofs!TypeCorrect` | `[]TypeOK` | |
| `BridgePaysBoth` | `[]BothArePaid` | `LapseDelay + Outage + 1 < ClaimMargin`, `~SlowFront`, `~UnmarkedStop`, `~ReadsFail` |
| `ClaimsInTime` | `ClaimedInTime` | the same |
| `BridgeFronts` | `ImplementsFrontedLeg` | the same |
| `BtcTradeProofs!TypeCorrect` | `[]TypeOK` | |
| `GiverSafe` | `[]GiverNeverDeliversForNothing` | `~StatusFails` |
| `TradeSafe` | `[]PaymentsAreSafe` | `Prompt`: `Drift + Absence < Reaction` and the four switches off |
| `Implements` | `ImplementsFrontedLeg` | the same |
| `SwapSlotProofs!TypeCorrect` | `[]TypeOK` | |
| `SlotSafe` | `SlotKeepsLockedBtc` | no concurrent takes, late writes, stub interference |
| `LegsOwned` | `[]LegsBelongToTheRecord` | the same |
| `ListSafe` | `ParkedUntilRefunded` | `~SweepRaces` |
| `FundsOnRecord` | `[]NoFundsOffRecord` | all of the above |
| `CTTypeCorrect` | `[]CTTypeOK` | |
| `InOrder`, `Once` | `[]FramesInOrder`, `[]SettledOnce` | |
| `OwnTimer` | `[]TimeoutIsOwn` | `IdentityChecked` |
| `NoDeadWait` | `[]NoWaitAfterClose` | `StickyClose` |

**The forward taker's safety.** `TakerNeverPaysForNothing` is not inductive: it says nothing while the spends are
in flight. `TakerInv` adds that a claim in flight was gated a margin before `T_seq` and has aged by at most
`Inclusion` (`ClaimInTime`), that an asset refund exists only from `T_seq` on (`AssetRefundIsLate`), that the
secret is public exactly from the taker's claim on (`SecretIsTheClaim`), and that the maker's BTC claim
needs the secret (`CoinsNeedSecret`). A claimed BTC leg then means a claim of the asset that was mined
before any refund of it could be. No bound on crashes of either side enters the argument.

**The forward maker's safety and the refinement.** `MakerInv` adds that Sequentia's timelock has passed when Bitcoin's
has (`BtcRefundIsLate`, from `SeqFirst`), that the asset meets a confirmed BTC leg within its window
(`FundedAgainstCoins`), that a parked swap is inert (`ParkedIsInert`: `parkEligible`'s "never park a claim"), and
that from the reveal on the taker's record offers no refund (`NoRefundAfterSecret`, where `LossyClaim`
would break it). With it each step of the two programs is a step of `AtomicSwap` or changes nothing there.

**Records.** `RecordsKept` has two halves. `OutpointKept` needs only that a recorded outpoint implies the states the off-ramps treat as
locked; `AssetKept` follows the maker's driver from `seq_locked` to the spend it broadcasts. `LegsOnRecord` puts the two sides
together. The taker's half rests on the order of the funding (a stub is saved before the broadcast and only its own driver touches it), which
is why it needs no word about timelocks; the maker's half rests on the timelocks and the readable tips, because what would make a maker
drop a locked asset is a BTC leg it believes refunded.

**The reverse swap.** The maker locks BTC first and has the secret, so its safety needs no assumption: by `SecretInv` the secret is public
exactly from its claim of the asset on, that claim was gated a margin before `T_seq`, and nobody takes the BTC without it. The
taker's safety is that a maker claims or refunds and never both (`DecidedInv`), which the lost response of a claim broadcast
(`LossyClaim`) undoes. `FundedInv` says of the two programs of the taker's page that can fund that the asset meets a mined BTC lock with the claim window of `T_seq` still
open, and `LateInv` (from `SeqFirst`) that no refund of the BTC can be under way by then; both hold if the window checks read their tips, and the refinement needs both. `RecordInv` and
`KeptInv` are about records alone and need no word about tips: one program funds at a time (`OneFunder`), each where the last one's record leads it, and a maker past its lock has the
outpoint. The layers keep each theorem to the switches it needs.

**The anchor gate.** The three statements speak of a claim, and the reorganisation that would break them comes after it, so
`GateInv` follows the BTC leg from the checks on. `FunderInv`: a leg found at some height is at or below Bitcoin's tip and the recorded
height (`FoundIsPast`); where the look found it unmoved, Sequentia's tip answers to a Bitcoin block at or above it (`LookIsBuried`,
`FundIsBuried`); and the block that takes the asset leg inherits that anchor, for as long as neither chain moved a
leg (`FundedIsBuried`). `ClaimantInv` is the same from the claimant's gate on: with an exact height and no later
reorganisation, the BTC leg stands and the asset leg is in a block anchored at or above it, which the certificate keeps there; where none is
reported, only Sequentia leaving the announced leg alone does, and the statement says so. Then whatever Bitcoin
block takes the BTC leg takes the asset leg's block too. Type correctness alone is not inductive; it needs that nothing
is funded before the funder funds (`NothingYet`).

**The Lightning trade.** Two arguments, one per direction, and neither mentions a bound on faults. A buyer pays for a confirmed leg, which must then not be undone (`~LateReorg`): nothing the code waits for gives that. The pay gate leaves
`Cltv + Margin` before `T_seq`; the payment leaves within `Drift`, settles within `SettleBy`, and the record from which
driver or hook claims has been in the list *and* in the rescue copy since before the payment (`BuyRecords`), so the wallet counts as one
that can claim, and is back within `Absence`. `BuyTimes` carries these as one sum, which the assumption closes. The margin is used
in full: the hook looks a payment up only while the margin is left (`LookUpAllowed`). A seller: the refund is broadcast only at `T_seq`
and after a read that the payment was not held; a maker that pays in time can no longer pay by then (`SellTimes`).
`SellRecords` says that from the save before the broadcast on, both copies can refund or settle. The refinement
follows step by step: the pair's first visible step after the preimage is out is `RevealAndTake`.

**The walk.** The plan is sound by itself: what is in its legs and what is left of the request add up to the request at every offer
(`PlanStates`, `LegTaken`), and a leg is never forced beyond what is left. The orchestrator then only has to keep to it. `WalkInv` says that while a walk
runs, the record of its current leg is the only one of its order not settled and the only one driven (`LegUnderWay`), that what the records of the order ask
for is the plan up to that leg, and that what the slot counts as filled is the plan up to the leg before. So a report that advances the walk finds all of the
order settled, the count it adds to is what settled, and the next leg is within the plan. `DriversFollow` is the part two walks break: a driver of a walk's
leg works for the walk the slot holds. Both sums, over a plan and over the records, are of any length: these lemmas (`SumStep`, `SumMonotone`,
`SumGrows`, `PlanFits`) go by induction.

**Induction.** The library's induction theorems take a predicate as a parameter, which the provers cannot instantiate. `SubmarineProofs` derives one
over a set instead: `LeastNatural`, from the well-foundedness of `<` on `Nat`, and `Induction` from it. `RecursionHolds` then gives
a recursive function its equations.

**The terms.** The run asks bounded questions, so the theorems are about the operators, for every number: `BuyIsSound`, `SellIsSound`, `SizeIsSound`,
`CapIsSound`, `RefundIsSound`, `JumpNeedsReadings`. Two facts carry them: a quotient is at least `c` exactly when the divisor times `c` is within the
dividend (`DivAbove`), and the same for one rounded up (`CeilDivBelow`). With them the entry's two roundings and the gate's two conversions are
one comparison each, which is why the driver's bound and the gate cannot disagree by a block. `GuardedIsSpendable` says what the dust guard
is for: two spends at the fee floor leave more than half of the leg to one real spend, so the claim's cut to half the leg never applies. It needs
that a spend costs no more than the floor (`TakeAssumption`), which the remark on fee rates above is about. A refund escalates because its
floor is above zero; a first fee of zero would be bumped to zero. The feed is an invariant of the recursion (`JumpsHeld`): the count of jumps is the
number of latest readings that are far from the rate. `TakesSound` and `QuotesSound` apply these, and the two theorems below, to the states of `PriceTerms`.

**The ladder.** `FirmIsSound` holds for every holding and configuration. The slices are each at least the maker's least and together no more than the
holding (`LadderIs`, for both ways of cutting it). A walk takes of the first slices exactly what was asked or all they hold (`PartsAdd`),
and no part is worth less than the maker's own rate (`WorthIs`), since the rates grow up the ladder (`RateIs`). So what is wanted lies between
the maker's rate and the rate of any slice that is deep enough, which is the one the quote was published at; and the cut to the room bounds that one
at the quote's most (`QuoteIs`), so a firm offer within the quote never meets the room. Rounding is up on both sides of the comparison
(`CeilDivGrows`).

**The merge.** Coins are totally ordered, by value first or by kind first (`OrderIs`), so "those with fewer than `n` before them" are exactly `n` (`LowestIs`).
The bound on one merge is a bound on the coins up to the greatest one taken, which all of the taken are among (`AtMost`). That nothing more fits when the
merge stops short is the other side: what the bound left out is led by a least coin, every coin before it is in the merge, and a larger one fits even less
(`NoMore`).

**Sums.** `SumOf` folds over a finite set in the order CHOOSE gives. The lemmas from `SumSolution` to `SumOut` show that any element may be the first, by
induction on the size of the set, and everything above uses a sum only through them.

**The payer bridge.** Each conjunct of `JobIsSound` needs a conjunct about the process. `Recorded`: `jobs.json` has the job as it is, so
a stop loses a position and no fact. `OneMode`: an intent to fund belongs to a job that declined to front, which is what makes the
decision exclusive across boots. `Keyed`: a recorded HTLC exists, and one that exists has its intent on disk. `Closed`: a job is over only on a settled
hold or a buried refund. `OneEnd`: while a settlement is under way nothing refunds, and the other way round. `Timed` follows the cover height of the
fund gate, at or below `T_btc`, to the refund.

That the hold outlives the refund (`FundIsRecouped`, and with it the refinement) is a race, and its proof an account of blocks. `Limit` is the height by
which a refund is out, and it moves by `Lag` with each eviction: a tick to see it (`Outage`), and the wait of the refund sent anew, which only the
tick's bump or the maker's claim ends. `SpentInTime` gives each kind of spend its own distance to `Limit`; a block uses the distance up, and a tick, a bump or an
eviction turns it into that of the next kind. Adding up, the hold must outlive `T_btc` by
`Margin = Finality + ConfirmBudget + Outage + (MaxFaults + 1) * Lag - 1`. The run meets this with equality (9 blocks) and TLC finds the property violated at 7.
The code's buffer is `Finality + ConfirmBudget` with no term for ticks or evictions (`leg-bridge.mjs:107`), so the theorem covers its 18 blocks only when refunds
are mined faster than the budget says: with a tick in every block and the three blocks its comment targets, 18 is enough for one eviction
(`6 + 3 + 1 + 2 * 4 - 1 = 17`), and its `refundBumpWithin` of 48 is ample.

**The receiver bridge.** `BothArePaid` says nothing of heights, and everything rests on them. `Times` follows the front from the gate
to the claim: it is minted to lapse at the height where the claim margin opens, is sent at most one block later, lapses or settles within
`LapseDelay` of its expiry and is recouped within `Outage`, so the maker's refund is still shut at every step of it. The cover height that the
same gate fixed lies before the lapse, so `T_seq` has passed when a front comes back, and `Asset` follows: no maker claims an asset
whose front came back. `Service` is the part about the process: a front in flight is marked, or about to be, in a job no one has closed, and the
gates that the next tick reads are still open, which is where the three switches enter. No bound on stops of the process does.

**The trade for BTC.** Two invariants, one on top of the other. `GiverInv` knows no clock: the secret reaches the operator, or the library of whoever
pays the BTC, only once the payment is complete (`SecretIsPaid`), and BTC is paid once (`PaidOnce`). So the asset is never given away however late anybody is. That a
payer gets what it paid for is `Times`, one sum carried through three stages: a payment cleared against a hold that leaves `Lock + Reaction`, begun within `Drift`
of that, complete within `Lock`, claimed within `Absence`. The code keeps `Reaction` (`REACTION_SECONDS`, one hour) for the last two; the theorem says that they must add up to less, and
the run has them add up to exactly one unit less: at `Reaction = 2` TLC finds the property violated. What each record says of what is out (`DeskFollows`,
`WalletFollows`) is not independent of the clock: both sides close their record over an asset that came back, so that nothing may come back while a payment is out.

**The slot and the list.** The two arguments are independent, which is the point: `SlotInv` (memory follows
the disk, the record's legs are its own, one take before its outpoint at a time and it owns the slot) never
mentions what a sweep will write, and `ListInv` (one sweep runs, and it will write back every listed entry not yet
refunded) never mentions the slot's owner. `FundsOnRecord` needs both; `LegsOwned` is a conjunct of the first.

**The transport.** `QueueInv` states the queue index by index, and that a parked recv means an empty inbox;
`CallsInv` that only calls made are settled or parked.

**Only model-checked.** Liveness, which needs fairness: `RevealedMakerIsPaid`, `LegsResolve`, `ParkedIsRefunded`, `RecvEnds`, `SwapEnds`,
`TradeResolves`, `HtlcResolves`, `SettledFrontIsClaimed`, `BothSidesEnd`, `WalkEnds`; with it the bound on a walk's records.
Every invariant a run checks is stated by a theorem, some under the conditions of the table.

## Not modelled, and the plan

In order:

1. `LeafTrade`: the trade inside the operator's tree (`user-trade.js` quote, firm, confirm and `settleStep`, which is designed for
   concurrent resumes, against `leaf-maker.mjs` firm, accept, cancel and `advanceSwap`), with the maker's budget and reserved amounts.
2. `MixedJob`: `submarine.js` and `resumeMixedSwap`. Its `REFUNDING` state is never entered, because `L.refund`, which would
   enter it, is defined nowhere; what remains is a poll whose hazard is a late answer.
3. `StakeJoin`, `ArkClaim`, `SiteOrders`, `Coinjoin`: the records each keeps between two external steps.
4. The reattach of `resumeCourierStranded` as actions of `ForwardSwap`; `onRefundBtc` split at its await in
   `SwapSlot`; covenant fills in `TakeTerms`.
5. The composition of `SwapSlot` with `ForwardSwap`, so that a swap's maker and timelocks meet the slot's sweeper.

Left out for good: rendering and wording, the vendored and generated code (`vendor/`, `*/pkg/`,
`jsqr.js`, `noble-ciphers.js`, `leaves.js`'s calls into WASM, the signer in `btc.js`), the drives and harnesses under `tooling/`, cryptography
(a hash lock opens with its secret and nothing else), and the ark server, the relay, Core Lightning and
the node, whose code is elsewhere. These are more than half of the repository's lines, and of the rest the page's screens are the largest part: the models cover what moves money.
