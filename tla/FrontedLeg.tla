----------------------------- MODULE FrontedLeg -----------------------------
(***************************************************************************)
(* What an intermediary promises itself when it delivers one leg of a swap *)
(* out of its own money (the front) against another leg it is to collect   *)
(* (the recoup): it fronts only against a recoup locked to it, it lets go  *)
(* of the recoup only when the front never left or came back, and it never *)
(* has both.  PayerBridge, ReceiverBridge and BtcTrade, whose desk or      *)
(* wallet pays Bitcoin for a leaf, implement this specification.           *)
(***************************************************************************)
VARIABLES front,    \* none, out (locked to the receiver), paid, back
          recoup    \* none, secured (locked to us), taken, released

legVars == <<front, recoup>>

TypeOK ==
    /\ front \in {"none", "out", "paid", "back"}
    /\ recoup \in {"none", "secured", "taken", "released"}

Init == front = "none" /\ recoup = "none"

Secure ==
    /\ recoup = "none" /\ recoup' = "secured"
    /\ UNCHANGED front

\* A front that came back may go out again.
Front ==
    /\ front \in {"none", "back"} /\ recoup = "secured" /\ front' = "out"
    /\ UNCHANGED recoup

Pay ==
    /\ front = "out" /\ recoup # "released" /\ front' = "paid"
    /\ UNCHANGED recoup

GetBack ==
    /\ front = "out" /\ recoup # "taken" /\ front' = "back"
    /\ UNCHANGED recoup

Take ==
    /\ recoup = "secured" /\ front \in {"out", "paid"} /\ recoup' = "taken"
    /\ UNCHANGED front

Release ==
    /\ recoup = "secured" /\ front \in {"none", "back"} /\ recoup' = "released"
    /\ UNCHANGED front

Next == Secure \/ Front \/ Pay \/ GetBack \/ Take \/ Release

Spec == Init /\ [][Next]_legVars

\* The front is never paid out of the intermediary's own pocket.
NoLoss == front = "paid" => recoup # "released"

\* The intermediary never has the recoup and the front it was for.
NoDoubleDip == ~(front = "back" /\ recoup = "taken")
=============================================================================
