------------------------------ MODULE Countdown ------------------------------
(***************************************************************************)
(* The countdown service, common/svc/countdown.c, together with the two    *)
(* places in common/app/countdown/ that call it.                           *)
(*                                                                         *)
(* The table of countdowns lives in FRAM (SECTION_INFOMEM): it survives a  *)
(* reset, running flag included.  The number of running countdowns and the *)
(* index waiting to be acknowledged live in RAM: a reset clears them.      *)
(* Everything here runs in the main loop, so a call is one step.           *)
(***************************************************************************)
EXTENDS Integers, FiniteSets

CONSTANTS
    N,             \* N_COUNTDOWNS: 12 in the firmware
    Base,          \* seconds in a minute and minutes in an hour: 60
    MaxHour,       \* largest number of hours the editor accepts: 23
    FirstSeconds   \* initial seconds of countdown 0: 5

\* The index is a uint8_t and 0xff is reserved.
ASSUME NAssumption == N \in 1..255
ASSUME BaseAssumption ==
    /\ Base \in Nat \ {0, 1}
    /\ MaxHour \in Nat
    /\ FirstSeconds \in 0..(Base - 1)

VARIABLES
    svc_countdowns,      \* the table, in FRAM
    countdowns_running,  \* uint8_t, in RAM
    countdown_pending    \* uint8_t, in RAM

vars == <<svc_countdowns, countdowns_running, countdown_pending>>

Countdowns == 0..(N - 1)
NO_COUNTDOWN_PENDING == 255

\* svc_countdown_priv_t: the time left, the state and the time to restart from.
CountdownT == [h : 0..MaxHour,  m : 0..(Base - 1),  s : 0..(Base - 1),
               state : {"STOP", "RUN"},
               sh : 0..MaxHour, sm : 0..(Base - 1), ss : 0..(Base - 1)]

Running == {i \in Countdowns : svc_countdowns[i].state = "RUN"}

Init ==
    /\ svc_countdowns = [i \in Countdowns |->
           [h |-> 0, m |-> 0, s |-> IF i = 0 THEN FirstSeconds ELSE 0,
            state |-> "STOP", sh |-> 0, sm |-> 0, ss |-> 0]]
    /\ countdowns_running = 0
    /\ countdown_pending = NO_COUNTDOWN_PENDING

-----------------------------------------------------------------------------
(* The calls the app makes.                                                *)

\* (mutant: a stopped countdown is not reloaded)
Stopped_NoReload(cd) == [cd EXCEPT !.state = "STOP"]

Stopped(cd) == [cd EXCEPT !.state = "STOP", !.h = cd.sh, !.m = cd.sm, !.s = cd.ss]

\* countdowns_running-- guarded against zero, done k times.
Minus(k) == IF countdowns_running > k THEN countdowns_running - k ELSE 0

\* (mutant: the increment is forgotten)
svc_countdown_start_NotCounted(i) ==
    /\ svc_countdowns' = [svc_countdowns EXCEPT ![i].state = "RUN"]
    /\ UNCHANGED <<countdowns_running, countdown_pending>>

svc_countdown_start(i) ==
    /\ countdowns_running' = (countdowns_running + 1) % 256
    /\ svc_countdowns' = [svc_countdowns EXCEPT ![i].state = "RUN"]
    /\ UNCHANGED countdown_pending

svc_countdown_stop(i) ==
    /\ svc_countdowns' = [svc_countdowns EXCEPT ![i] = Stopped(@)]
    /\ countdowns_running' = Minus(1)
    /\ UNCHANGED countdown_pending

\* A long press of DOWN in the list, or ENTER on the start/stop menu item.
start_stop(i) ==
    \/ svc_countdowns[i].state = "STOP" /\ svc_countdown_start(i)
    \/ svc_countdowns[i].state # "STOP" /\ svc_countdown_stop(i)

Clamp(x, hi) == IF x < 0 THEN 0 ELSE IF x > hi THEN hi ELSE x

Edited(cd, h, m, s) ==
    [cd EXCEPT !.h = h, !.sh = h, !.m = m, !.sm = m, !.s = s, !.ss = s]

svc_countdown_set_time(i, h, m, s) ==
    /\ svc_countdowns' = [svc_countdowns EXCEPT ![i] = Edited(@, h, m, s)]
    /\ UNCHANGED <<countdowns_running, countdown_pending>>

\* One digit of the editor up or down: it starts from the time LEFT, whether
\* or not the countdown runs, and what it writes is also the restart time.
time_set(i, step) ==
    LET cd == svc_countdowns[i] IN
    \/ svc_countdown_set_time(i, Clamp(cd.h + step, MaxHour), cd.m, cd.s)
    \/ svc_countdown_set_time(i, cd.h, Clamp(cd.m + step, Base - 1), cd.s)
    \/ svc_countdown_set_time(i, cd.h, cd.m, Clamp(cd.s + step, Base - 1))

Steps == {-10, -1, 1, 10}

\* Called by svc_main_proc for every key.
svc_countdown_clear_pending ==
    /\ countdown_pending' = NO_COUNTDOWN_PENDING
    /\ UNCHANGED <<svc_countdowns, countdowns_running>>

-----------------------------------------------------------------------------
(* The once-a-second pass.                                                 *)

AtZero(cd) == cd.h = 0 /\ cd.m = 0 /\ cd.s = 0

Expiring == {i \in Running : AtZero(svc_countdowns[i])}

\* One second less: the borrow runs from the seconds to the hours.
Borrow(x, b) == IF ~b THEN x ELSE IF x = 0 THEN Base - 1 ELSE x - 1

\* (mutant: the hours are not borrowed from)
Decremented_NoHours(cd) ==
    [cd EXCEPT !.s = Borrow(cd.s, TRUE), !.m = Borrow(cd.m, cd.s = 0)]

Decremented(cd) ==
    [cd EXCEPT !.s = Borrow(cd.s, TRUE),
               !.m = Borrow(cd.m, cd.s = 0),
               !.h = Borrow(cd.h, cd.s = 0 /\ cd.m = 0)]

\* An entry that would borrow from zero hours stops and is reloaded.
svc_countdown_dec(cd) ==
    IF cd.state # "RUN" THEN cd
    ELSE IF AtZero(cd) THEN Stopped(cd) ELSE Decremented(cd)

\* The loop visits the entries in order, so the last one that expires is the
\* one the popup will show.  The test of countdowns_running is made once,
\* before the loop.
svc_countdown_process ==
    /\ countdowns_running > 0
    /\ svc_countdowns' = [i \in Countdowns |-> svc_countdown_dec(svc_countdowns[i])]
    /\ countdowns_running' = Minus(Cardinality(Expiring))
    /\ \/ Expiring = {} /\ UNCHANGED countdown_pending
       \/ \E last \in Expiring :
              (\A i \in Expiring : i <= last) /\ countdown_pending' = last

\* A reset (watchdog, battery): FRAM is kept, RAM gets its initial values.
\* svc_countdown_init restores the melodies and nothing else.
Reset ==
    /\ countdowns_running' = 0
    /\ countdown_pending' = NO_COUNTDOWN_PENDING
    /\ UNCHANGED svc_countdowns

-----------------------------------------------------------------------------
Next ==
    \/ \E i \in Countdowns : start_stop(i)
    \/ \E i \in Countdowns, step \in Steps : time_set(i, step)
    \/ svc_countdown_clear_pending
    \/ svc_countdown_process

\* The main loop calls svc_countdown_process every fourth tick.
Spec == Init /\ [][Next]_vars /\ WF_vars(svc_countdown_process)

NextWithResets == Next \/ Reset

SpecWithResets == Init /\ [][NextWithResets]_vars /\ WF_vars(svc_countdown_process)

-----------------------------------------------------------------------------
(* Properties.                                                             *)

\* Every variable keeps its type; in particular no field of an entry is left
\* at the -1 that svc_countdown_dec passes through.
TypeOK ==
    /\ svc_countdowns \in [Countdowns -> CountdownT]
    /\ countdowns_running \in 0..255
    /\ countdown_pending \in Countdowns \union {NO_COUNTDOWN_PENDING}

\* countdowns_running never exceeds the number of entries marked RUN, resets
\* or not: the guarded decrement in _svc_countdown_stop is paired with the
\* increment in svc_countdown_start.
NeverOvercounts == countdowns_running <= Cardinality(Running)

\* Without a reset the counter is exact, so the test at the head of
\* svc_countdown_process never hides an entry that should be decremented.
CounterExact == countdowns_running = Cardinality(Running)

\* How many entries marked RUN the counter does not know about.
Uncounted == Cardinality(Running) - countdowns_running

\* Once entries are uncounted no call makes more of them so: only a reset
\* does.  (start_stop and the expiry in svc_countdown_dec must keep in step.)
OnlyResetsLoseCount ==
    [][Uncounted' > Uncounted => countdowns_running' = 0 /\ svc_countdowns' = svc_countdowns]_vars

\* README.md lists countdown timers among what is kept in nonvolatile memory.
\* If a running one is kept, it must also keep being counted down.
RunningIsCounted == Running # {} => countdowns_running > 0
=============================================================================
