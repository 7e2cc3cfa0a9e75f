-------------------------------- MODULE Clock --------------------------------
(***************************************************************************)
(* Setting and correcting the time: the clock chip and its copy            *)
(* (target/hal/rtc.c), the correction by seconds (common/svc/rtc_adj.c),   *)
(* the seconds since the time was set, and the views of the time app that  *)
(* use them.                                                               *)
(*                                                                         *)
(* The program reads the copy, which an interrupt makes once a second, and *)
(* sets the chip.  A measured deviation is corrected in one go, as soon as *)
(* the seconds allow it without a carry.  A pass of the main loop with a   *)
(* tick and a key is TickPass followed by the key.                         *)
(***************************************************************************)
EXTENDS Integers

CONSTANTS
    Hours, Minutes, Seconds,      \* of a day, an hour, a minute: 24, 60, 60
    TicksPerSecond,               \* 4
    Half,                         \* up to here the watch is fast: 30
    MaxDelta,                     \* the largest deviation accepted: 20
    MaxAdj,                       \* corrections are smaller than this: 59
    SinceLimit                    \* bound: seconds counted since the setting

ASSUME SizesAssumption ==
    /\ Hours \in Nat \ {0} /\ Minutes \in Nat \ {0} /\ Seconds \in Nat \ {0}
    /\ TicksPerSecond \in Nat \ {0} /\ SinceLimit \in Nat \ {0}
    /\ Half \in Nat /\ MaxDelta \in Nat /\ MaxAdj \in Nat
    /\ MaxDelta < MaxAdj /\ MaxDelta <= Seconds

Time == [h : 0..Hours - 1, m : 0..Minutes - 1, s : 0..Seconds - 1]
INVALID == 127
NotEditing == [h |-> -1, m |-> -1, s |-> -1]

VARIABLES
    clock,                       \* the chip
    timedate_l,                  \* its copy
    tt,                          \* the time being edited, read only while it is
    adj_s,                       \* the correction that is pending
    meas_delta,
    seconds_since_last_set,
    quarter,                     \* ticks since the last second
    div,
    \* history:
    elapsed,                     \* seconds since the time was set or corrected
    ref,                         \* the seconds of the reference clock, while
                                 \* it matters
    tracked                      \* what was done after it was compared with ours

time == <<clock, timedate_l, quarter, div>>
setting == <<seconds_since_last_set, elapsed>>
vars == <<time, tt, adj_s, meas_delta, setting, ref, tracked>>

Capped(n) == IF n > SinceLimit THEN SinceLimit ELSE n

Init ==
    /\ clock \in Time /\ timedate_l = clock
    /\ tt = NotEditing
    /\ adj_s = 0 /\ meas_delta = INVALID
    /\ seconds_since_last_set = SinceLimit /\ elapsed = SinceLimit
    /\ quarter = 0 /\ div \in 0..TicksPerSecond - 1
    /\ ref = 0 /\ tracked = "no"

Fresh == timedate_l = clock

\* svc_seconds_since_last_set_reset, after the chip was set.
Since_Reset == seconds_since_last_set' = 1 /\ elapsed' = 0

-----------------------------------------------------------------------------
(* The chip.                                                               *)

Succ(x, n) == IF x + 1 = n THEN 0 ELSE x + 1

NextSecond(t) ==
    [h |-> IF t.s + 1 = Seconds /\ t.m + 1 = Minutes THEN Succ(t.h, Hours) ELSE t.h,
     m |-> IF t.s + 1 = Seconds THEN Succ(t.m, Minutes) ELSE t.m,
     s |-> Succ(t.s, Seconds)]

\* A second passes, and RTC_ISR makes its copy.
Second ==
    /\ quarter = TicksPerSecond /\ quarter' = 0
    /\ clock' = NextSecond(clock) /\ timedate_l' = clock'
    /\ elapsed' = Capped(elapsed + 1)
    /\ ref' = IF tracked = "no" THEN 0 ELSE Succ(ref, Seconds)
    /\ UNCHANGED <<div, tt, adj_s, meas_delta, seconds_since_last_set, tracked>>

-----------------------------------------------------------------------------
(* The services, with every tick.                                          *)

CanAdjust == adj_s # 0 /\ timedate_l.s + adj_s \in 0..Seconds - 1

\* (mutant: the carry is forgotten about)
Correct_NoCarry ==
    /\ adj_s # 0
    /\ clock' = [timedate_l EXCEPT !.s = (@ + adj_s) % Seconds]
    /\ adj_s' = 0
    /\ Since_Reset
    /\ tracked' = IF tracked = "requested" /\ Fresh THEN "corrected" ELSE "no"

\* (mutant: the correction is not forgotten when it was made)
Correct_Again ==
    /\ CanAdjust
    /\ clock' = [timedate_l EXCEPT !.s = @ + adj_s]
    /\ UNCHANGED adj_s
    /\ Since_Reset
    /\ tracked' = IF tracked = "requested" /\ Fresh THEN "corrected" ELSE "no"

\* svc_rtc_adj_process, when it can.
Correct ==
    /\ CanAdjust
    /\ clock' = [timedate_l EXCEPT !.s = @ + adj_s]
    /\ adj_s' = 0
    /\ Since_Reset
    /\ tracked' = IF tracked = "requested" /\ Fresh THEN "corrected" ELSE "no"

\* svc_seconds_since_last_set_process, every TicksPerSecond ticks.
CountSecond ==
    /\ ~CanAdjust
    /\ seconds_since_last_set' =
           IF div = 0 THEN Capped(seconds_since_last_set + 1) ELSE seconds_since_last_set
    /\ UNCHANGED <<clock, adj_s, elapsed, tracked>>

TickPass ==
    /\ quarter < TicksPerSecond /\ quarter' = quarter + 1
    /\ div' = (div + 1) % TicksPerSecond
    /\ Correct \/ CountSecond
    /\ UNCHANGED <<timedate_l, tt, meas_delta, ref>>

-----------------------------------------------------------------------------
(* The hour view: up and down change the hour of the copy.                 *)

app_app_time_adj_main ==
    /\ tt = NotEditing
    /\ \E h \in {timedate_l.h - 1, timedate_l.h + 1} \intersect (0..Hours - 1) :
           clock' = [timedate_l EXCEPT !.h = h]
    /\ tracked' = IF Fresh THEN tracked ELSE "no"
    /\ UNCHANGED <<timedate_l, quarter, div, tt, adj_s, meas_delta, setting, ref>>

-----------------------------------------------------------------------------
(* Editing the time.                                                       *)

adj_enter ==
    /\ tt = NotEditing /\ tt' = timedate_l
    /\ UNCHANGED <<time, adj_s, meas_delta, setting, ref, tracked>>

Clamp(x, top) == IF x > top THEN top ELSE IF x < 0 THEN 0 ELSE x
Steps == {-10, -1, 1, 10}

time_set ==
    /\ tt # NotEditing
    /\ \E d \in Steps :
           tt' \in {[tt EXCEPT !.h = Clamp(@ + d, Hours - 1)],
                    [tt EXCEPT !.m = Clamp(@ + d, Minutes - 1)],
                    [tt EXCEPT !.s = Clamp(@ + d, Seconds - 1)]}
    /\ UNCHANGED <<time, adj_s, meas_delta, setting, ref, tracked>>

\* (mutant: the seconds are not counted anew)
adj_time_leave_NotCounted ==
    /\ tt # NotEditing /\ tt' = NotEditing
    /\ clock' = tt
    /\ elapsed' = 0
    /\ tracked' = "no"
    /\ UNCHANGED <<timedate_l, quarter, div, adj_s, meas_delta, seconds_since_last_set, ref>>

adj_time_leave ==
    /\ tt # NotEditing /\ tt' = NotEditing
    /\ clock' = tt
    /\ Since_Reset
    /\ tracked' = "no"
    /\ UNCHANGED <<timedate_l, quarter, div, adj_s, meas_delta, ref>>

\* The watch has returned to the time display: the edit is given up, and, as
\* CommitLoaded of Menu has it, never resumed.
GiveUp ==
    /\ tt # NotEditing /\ tt' = NotEditing
    /\ UNCHANGED <<time, adj_s, meas_delta, setting, ref, tracked>>

-----------------------------------------------------------------------------
(* Assisted calibration: the key is pressed at the reference's full minute.*)

Abs(x) == IF x < 0 THEN -x ELSE x
Deviation(s) == IF s > Half THEN s - Seconds ELSE s

cal_meas ==
    /\ tt = NotEditing
    /\ meas_delta' = LET d == Deviation(timedate_l.s) IN IF Abs(d) > MaxDelta THEN INVALID ELSE d
    /\ ref' = 0
    /\ tracked' = IF Fresh /\ adj_s = 0 /\ meas_delta' # INVALID THEN "measured" ELSE "no"
    /\ UNCHANGED <<time, tt, adj_s, setting>>

\* (mutant: the watch is moved further away)
Correction_WrongWay == meas_delta

Correction == -meas_delta

\* The measurement is kept: a second request after the correction is another.
do_adj ==
    /\ tt = NotEditing /\ meas_delta # INVALID
    /\ adj_s' = IF Abs(Correction) < MaxAdj THEN Correction ELSE adj_s
    /\ tracked' = IF tracked \in {"measured", "requested"} THEN "requested" ELSE "no"
    /\ UNCHANGED <<time, tt, meas_delta, setting, ref>>

-----------------------------------------------------------------------------
Key == app_app_time_adj_main \/ adj_enter \/ time_set \/ adj_time_leave \/ GiveUp
       \/ cal_meas \/ do_adj

Next == Second \/ TickPass \/ Key

\* Time passes and the main loop runs.
Spec == Init /\ [][Next]_vars /\ WF_vars(Second) /\ WF_vars(TickPass)

-----------------------------------------------------------------------------
(* Properties.                                                             *)

TypeOK ==
    /\ clock \in Time /\ timedate_l \in Time /\ tt \in Time \union {NotEditing}
    /\ adj_s \in -MaxDelta..MaxDelta
    /\ meas_delta \in (-MaxDelta..MaxDelta) \union {INVALID}
    /\ seconds_since_last_set \in 1..SinceLimit /\ elapsed \in 0..SinceLimit
    /\ quarter \in 0..TicksPerSecond /\ div \in 0..TicksPerSecond - 1
    /\ ref \in 0..Seconds - 1
    /\ tracked \in {"no", "measured", "requested", "corrected"}

\* README.md: ADJust "corrects the time by the measured value".  A correction
\* moves the time of the day by exactly the seconds asked for, whatever the
\* time is then: unless the time was set less than a second before, when the
\* correction of the copy undoes the setting.
Total(t) == (t.h * Minutes + t.m) * Seconds + t.s
CorrectionExact ==
    [][Correct /\ Fresh => Total(clock') = Total(clock) + adj_s]_vars

\* A watch that was compared with the reference and corrected is in step with
\* it until its time is set: the measurement, its sign, the wait for seconds
\* that need no carry and the correction fit together.
InStep == tracked = "corrected" => clock.s = ref

\* The seconds since the time was set, which the deviation is divided by, are
\* what they say, to the second: the count starts at 1 and is driven by the
\* program's own prescaler.
SinceSetExact == seconds_since_last_set - elapsed \in 0..2

\* A correction is made in the end, left alone.
EventuallyCorrected == <>[][Second \/ TickPass]_vars => <>[](adj_s = 0)
=============================================================================
