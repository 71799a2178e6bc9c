-------------------------- MODULE CourierTransport --------------------------
(***************************************************************************)
(* One end of a courier session (xcourier.js): frames pushed by the        *)
(* WebSocket's events, a recv() that parks at most one waiter, a timer per *)
(* parked recv, and the close of the socket.                               *)
(*                                                                         *)
(* The file has two implementations of this contract: wsTransport (the     *)
(* taker's) and the per-lift transport inside openMakerListener (the       *)
(* maker's).  They differ in two lines, which are the two constants.       *)
(* The specification's names start with CT, so that another component's    *)
(* module can be extended beside this one.                                 *)
(***************************************************************************)
EXTENDS Integers, Sequences

CONSTANTS
    IdentityChecked,  \* a timer rejects only the waiter it was set for
    StickyClose,      \* recv looks at the closed flag
    MaxFrames,        \* bound: frames the relay delivers
    MaxRecvs          \* bound: recv calls of the driver

ASSUME TransportAssumption ==
    /\ {IdentityChecked, StickyClose} \subseteq BOOLEAN
    /\ MaxFrames \in Nat /\ MaxRecvs \in Nat

VARIABLES
    inbox,    \* frames that arrived while nobody waited
    waiter,   \* the recv call parked now, 0 for none
    timers,   \* the recv calls whose setTimeout has not fired
    closed,
    arrived,  \* frames pushed so far
    calls,    \* recv calls so far
    got,      \* the frames handed to the driver
    settled   \* each settled recv call: how, and by whose timer

ctVars == <<inbox, waiter, timers, closed, arrived, calls, got, settled>>

Calls    == 1 .. MaxRecvs
Outcomes == [recv : Calls, how : {"frame", "timeout", "closed"}, by : 0 .. MaxRecvs]

CTTypeOK ==
    /\ inbox \in Seq(1 .. MaxFrames) /\ got \in Seq(1 .. MaxFrames)
    /\ waiter \in 0 .. MaxRecvs /\ timers \subseteq Calls
    /\ closed \in BOOLEAN
    /\ arrived \in 0 .. MaxFrames /\ calls \in 0 .. MaxRecvs
    /\ settled \subseteq Outcomes

CTInit ==
    /\ inbox = <<>> /\ waiter = 0 /\ timers = {} /\ closed = FALSE
    /\ arrived = 0 /\ calls = 0 /\ got = <<>> /\ settled = {}

Settle(n, how, by) == settled' = settled \union {[recv |-> n, how |-> how, by |-> by]}

\* Mutant: the frame is handed over and left in the inbox too.
PushTwice(f) ==
    /\ IF waiter # 0
         THEN waiter' = 0 /\ got' = Append(got, f) /\ Settle(waiter, "frame", 0)
         ELSE UNCHANGED <<waiter, got, settled>>
    /\ inbox' = Append(inbox, f)

\* push: a frame goes to the waiter, or into the inbox.
Push(f) ==
    IF waiter # 0
      THEN /\ waiter' = 0 /\ got' = Append(got, f)
           /\ Settle(waiter, "frame", 0) /\ UNCHANGED inbox
      ELSE inbox' = Append(inbox, f) /\ UNCHANGED <<waiter, got, settled>>

FrameArrives ==
    /\ ~closed /\ arrived < MaxFrames
    /\ arrived' = arrived + 1 /\ Push(arrived + 1)
    /\ UNCHANGED <<timers, closed, calls>>

\* ws.onclose rejects the recv parked now.
Closes ==
    /\ ~closed /\ closed' = TRUE
    /\ waiter' = 0
    /\ IF waiter # 0 THEN Settle(waiter, "closed", 0) ELSE UNCHANGED settled
    /\ UNCHANGED <<inbox, timers, arrived, calls, got>>

SeesClose == StickyClose /\ closed

\* recv: what is queued first, then the flag, else a waiter and its timer.
\* The driver awaits each recv before the next.
Recv ==
    /\ waiter = 0 /\ calls < MaxRecvs /\ calls' = calls + 1
    /\ IF inbox # <<>>
         THEN /\ inbox' = Tail(inbox) /\ got' = Append(got, Head(inbox))
              /\ Settle(calls + 1, "frame", 0) /\ UNCHANGED <<waiter, timers>>
         ELSE /\ UNCHANGED <<inbox, got>>
              /\ IF SeesClose
                   THEN Settle(calls + 1, "closed", 0) /\ UNCHANGED <<waiter, timers>>
                   ELSE /\ waiter' = calls + 1 /\ timers' = timers \union {calls + 1}
                        /\ UNCHANGED settled
    /\ UNCHANGED <<closed, arrived>>

\* Mutants: any waiter will do; the timer never rejects.
HitsAnyWaiter(n) == waiter # 0
HitsNobody(n)    == FALSE
Hits(n) == IF IdentityChecked THEN waiter = n ELSE waiter # 0

\* setTimeout of recv n; it is never cleared, so it also fires after n settled.
TimerFires(n) ==
    /\ n \in timers /\ timers' = timers \ {n}
    /\ IF Hits(n)
         THEN waiter' = 0 /\ Settle(waiter, "timeout", n)
         ELSE UNCHANGED <<waiter, settled>>
    /\ UNCHANGED <<inbox, closed, arrived, calls, got>>

CTNext == FrameArrives \/ Closes \/ Recv \/ \E n \in Calls : TimerFires(n)

CTSpec == CTInit /\ [][CTNext]_ctVars

\* Timers fire.
CTFairSpec == CTSpec /\ \A n \in Calls : WF_ctVars(TimerFires(n))

-----------------------------------------------------------------------------
(* Properties                                                               *)

\* A recv times out by its own timer only (wsTransport: "a stale timer from an
\* earlier recv must never clobber a later waiter").
TimeoutIsOwn == \A o \in settled : o.how = "timeout" => o.by = o.recv

\* The driver reads every frame once, in the order of arrival: nothing is lost
\* between a timeout and the next recv, nor by a close.
FramesInOrder == got \o inbox = [i \in 1 .. arrived |-> i]

\* Every recv call settles once: a promise already resolved by a frame is not
\* then counted as timed out, nor a rejected one given a frame.
SettledOnce ==
    /\ \A o, p \in settled : o.recv = p.recv => o = p
    /\ \A n \in 1 .. calls : n = waiter <=> ~\E o \in settled : o.recv = n

\* Nothing waits on a dead socket (wsTransport: "A close must fail EVERY future
\* recv, not only one already pending").
NoWaitAfterClose == closed => waiter = 0

\* Every recv call ends.
RecvEnds == \A n \in Calls : waiter = n ~> waiter # n
=============================================================================
