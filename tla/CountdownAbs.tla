----------------------------- MODULE CountdownAbs -----------------------------
(***************************************************************************)
(* What the countdown service promises, without hours, minutes, borrows or *)
(* a counter of running countdowns: each countdown is a number of seconds  *)
(* left and a number of seconds to restart from, every second takes one    *)
(* from every running countdown, and one that has none left stops, is      *)
(* reloaded and rings until a key is pressed.  All of this holds until the *)
(* promise is broken; what may break it is not said here.                  *)
(***************************************************************************)
EXTENDS Integers

CONSTANTS
    Countdowns,    \* the countdowns
    Times,         \* the times that can be set, in seconds
    Silent         \* what "ringing" holds when nothing rings

VARIABLES remaining, reload, active, ringing, broken

vars == <<remaining, reload, active, ringing, broken>>

Expired == {i \in active : remaining[i] = 0}

Start(i) == i \notin active /\ active' = active \union {i}
            /\ UNCHANGED <<remaining, reload, ringing>>

Stop(i) ==
    /\ i \in active
    /\ active' = active \ {i}
    /\ remaining' = [remaining EXCEPT ![i] = reload[i]]
    /\ UNCHANGED <<reload, ringing>>

\* The user gives countdown i a new time: both what is left and the reload.
Set(i) ==
    /\ \E t \in Times : /\ remaining' = [remaining EXCEPT ![i] = t]
                        /\ reload' = [reload EXCEPT ![i] = t]
    /\ UNCHANGED <<active, ringing>>

Acknowledge == ringing' = Silent /\ UNCHANGED <<remaining, reload, active>>

\* A second passes for all running countdowns at once.
Second ==
    /\ active # {} /\ ~broken
    /\ active' = active \ Expired
    /\ remaining' = [i \in Countdowns |->
           IF i \in Expired THEN reload[i]
           ELSE IF i \in active THEN remaining[i] - 1 ELSE remaining[i]]
    /\ ringing' \in IF Expired = {} THEN {ringing} ELSE Expired
    /\ UNCHANGED <<reload, broken>>

Init ==
    /\ remaining \in [Countdowns -> Times]
    /\ reload \in [Countdowns -> Times]
    /\ active = {}
    /\ ringing = Silent
    /\ broken = FALSE

\* The power is lost and comes back while nothing runs.
Restart == active = {} /\ ringing' = Silent /\ UNCHANGED <<remaining, reload, active>>

Kept == Second \/ Acknowledge \/ Restart \/ \E i \in Countdowns : Start(i) \/ Stop(i) \/ Set(i)

Next == (Kept /\ ~broken /\ UNCHANGED broken) \/ broken' = TRUE

Spec == Init /\ [][Next]_vars /\ WF_vars(Second)
===============================================================================
