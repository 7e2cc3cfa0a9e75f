----------------------------- MODULE MCCountdown -----------------------------
(***************************************************************************)
(* Countdown for TLC, with resets, and the mapping under which it          *)
(* implements CountdownAbs: hours, minutes and seconds are one number of   *)
(* seconds.  A reset that finds an entry running breaks the promise of     *)
(* CountdownAbs; until then it is kept.                                    *)
(***************************************************************************)
EXTENDS Countdown

VARIABLE lost     \* history: a reset has found a countdown running

MCvars == <<vars, lost>>

MCInit == Init /\ lost = FALSE
MCNext == \/ Next /\ UNCHANGED lost
          \/ Reset /\ lost' = (lost \/ Running # {})
MCSpec == MCInit /\ [][MCNext]_MCvars /\ WF_MCvars(svc_countdown_process /\ UNCHANGED lost)

InSeconds(h, m, s) == (h * Base + m) * Base + s

remainingBar == [i \in Countdowns |->
    InSeconds(svc_countdowns[i].h, svc_countdowns[i].m, svc_countdowns[i].s)]

reloadBar == [i \in Countdowns |->
    InSeconds(svc_countdowns[i].sh, svc_countdowns[i].sm, svc_countdowns[i].ss)]

Abs == INSTANCE CountdownAbs WITH
    Times <- 0..InSeconds(MaxHour, Base - 1, Base - 1),
    Silent <- NO_COUNTDOWN_PENDING,
    remaining <- remainingBar,
    reload <- reloadBar,
    active <- Running,
    ringing <- countdown_pending,
    broken <- lost

\* Until a reset finds one running the service keeps the promise of
\* CountdownAbs: every second reaches every running countdown, a countdown of
\* t seconds rings t+1 passes after it is started and not before, and none is
\* forgotten.
ImplementsCountdownAbs == Abs!Spec

\* A countdown that runs gets to its end, or is stopped, unless its time is
\* edited forever or a reset found it running: no other countdown's start,
\* stop or expiry, and no reset that found none, can freeze it.
EventuallyStops ==
    \A i \in Countdowns :
        []~lost /\ <>[][\A step \in Steps : ~time_set(i, step)]_vars
        => (svc_countdowns[i].state = "RUN" ~> svc_countdowns[i].state = "STOP")
==============================================================================
