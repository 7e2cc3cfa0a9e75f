-------------------------------- MODULE Alarm --------------------------------
(***************************************************************************)
(* The alarms of common/svc/alarm.c, edited by common/app/alarm, and the   *)
(* time they are compared with, target/hal/rtc.c.                          *)
(*                                                                         *)
(* The clock chip has the time.  An interrupt copies it once a second; the *)
(* program reads the copy, but sets the chip.  So for up to a second after *)
(* the time was set, and after a reset until the first interrupt, the copy *)
(* is not the time.  An alarm rings when the copy's minute is not the one  *)
(* last looked at.                                                         *)
(*                                                                         *)
(* A pass of the main loop is two steps, AppPass and svc_alarm_process:    *)
(* the interrupt may come between them.                                    *)
(***************************************************************************)
EXTENDS Integers

CONSTANTS
    NAlarms,            \* 10
    Hours, Minutes,     \* of a day, of an hour: 24, 60
    Dows                \* days of a week: 7

ASSUME SizesAssumption ==
    /\ NAlarms \in Nat \ {0} /\ Hours \in Nat \ {0} /\ Dows \in Nat \ {0}
    /\ Minutes \in 2..255

VARIABLES
    svc_alarms,         \* in nonvolatile memory
    af_enabled, af_pending, alarm_pending, min_last,
    clock,              \* the chip
    timedate_l,         \* its copy
    pc,                 \* how far the pass of the main loop is
    looked,             \* a pass was completed since the last second began
    due,                \* history: alarms to be rung before the minute ends
    rung                \* history: alarms rung while the copy shows this minute

flags == <<af_enabled, af_pending, alarm_pending, min_last>>
vars == <<svc_alarms, flags, clock, timedate_l, pc, looked, due, rung>>

Alarms == 0..NAlarms - 1
Days == 0..Dows - 1
Alarm == [h : 0..Hours - 1, m : 0..Minutes - 1, enable : BOOLEAN, days : SUBSET Days]
Timedate == [h : 0..Hours - 1, m : 0..Minutes - 1, dow : Days]
Midnight == [h |-> 0, m |-> 0, dow |-> 0]

NONE == 255      \* the initial value of min_last

AnyEnabled(alarms) == \E i \in Alarms : alarms[i].enable

\* Past svc_init and the first interrupt, with what an earlier life has left
\* in the nonvolatile memory.
Init ==
    /\ svc_alarms \in [Alarms -> Alarm]
    /\ af_enabled = AnyEnabled(svc_alarms)
    /\ af_pending = FALSE /\ alarm_pending = 0 /\ min_last = NONE
    /\ clock \in Timedate /\ timedate_l = clock
    /\ pc = "app" /\ looked = FALSE
    /\ due = {} /\ rung = {}

svc_alarm_match(al, td) == al.enable /\ al.h = td.h /\ al.m = td.m /\ td.dow \in al.days
Matching(alarms, td) == {i \in Alarms : svc_alarm_match(alarms[i], td)}

-----------------------------------------------------------------------------
(* The clock.                                                              *)

NextMinute(c) ==
    IF c.m + 1 < Minutes    THEN [c EXCEPT !.m = @ + 1]
    ELSE IF c.h + 1 < Hours THEN [h |-> c.h + 1, m |-> 0, dow |-> c.dow]
    ELSE [h |-> 0, m |-> 0, dow |-> (c.dow + 1) % Dows]

\* RTC_ISR, each second: the time is copied.  There are four ticks a second,
\* so the main loop has made a pass since the last.
RTC_ISR ==
    /\ looked /\ looked' = FALSE
    /\ timedate_l' = clock'
    /\ rung' = IF timedate_l' = timedate_l THEN rung ELSE {}
    /\ UNCHANGED <<svc_alarms, flags, pc>>

SecondPasses == UNCHANGED <<clock, due>> /\ RTC_ISR

\* What has to ring in the new minute, if nobody is setting the clock.
MinutePasses ==
    /\ clock' = NextMinute(clock)
    /\ RTC_ISR
    /\ due' = IF timedate_l = clock THEN Matching(svc_alarms, clock') ELSE {}

\* hal_rtc_set_time and hal_rtc_set_date: the copy is left alone.
hal_rtc_set(time) ==
    /\ clock' = time
    /\ due' = {}
    /\ UNCHANGED <<svc_alarms, af_enabled, rung>>

-----------------------------------------------------------------------------
(* The main loop's pass, up to the app.                                    *)

Clamp(x, top) == IF x < 0 THEN 0 ELSE IF x > top THEN top ELSE x
Steps == {-10, -1, 1, 10}

\* A change of alarm i.  What no longer matches is not due any more.
Changed(i, al) ==
    /\ svc_alarms' = [svc_alarms EXCEPT ![i] = al]
    /\ due' = due \intersect Matching(svc_alarms', clock)
    /\ UNCHANGED <<clock, rung>>

svc_alarm_set_time(i) ==
    /\ \E d \in Steps :
           \/ Changed(i, [svc_alarms[i] EXCEPT !.h = Clamp(@ + d, Hours - 1)])
           \/ Changed(i, [svc_alarms[i] EXCEPT !.m = Clamp(@ + d, Minutes - 1)])
    /\ UNCHANGED af_enabled

svc_alarm_set_enable(i) ==
    /\ Changed(i, [svc_alarms[i] EXCEPT !.enable = ~@])
    /\ af_enabled' = AnyEnabled(svc_alarms')

svc_alarm_set_day(i) ==
    /\ \E day \in Days :
           Changed(i, [svc_alarms[i] EXCEPT !.days =
                           IF day \in @ THEN @ \ {day} ELSE @ \union {day}])
    /\ UNCHANGED af_enabled

App ==
    \/ \E i \in Alarms :
           svc_alarm_set_time(i) \/ svc_alarm_set_enable(i) \/ svc_alarm_set_day(i)
    \/ \E h \in 0..Hours - 1, m \in 0..Minutes - 1 :
           hal_rtc_set([h |-> h, m |-> m, dow |-> clock.dow])
    \/ \E dow \in Days : hal_rtc_set([clock EXCEPT !.dow = dow])

NoApp == UNCHANGED <<svc_alarms, af_enabled, clock, due, rung>>

\* A key that finds an alarm pending clears it, and does not reach the app.
AppPass ==
    /\ pc = "app" /\ pc' = "alarms"
    /\ \/ UNCHANGED af_pending /\ NoApp
       \/ af_pending /\ af_pending' = FALSE /\ NoApp
       \/ ~af_pending /\ UNCHANGED af_pending /\ App
    /\ UNCHANGED <<alarm_pending, min_last, timedate_l, looked>>

-----------------------------------------------------------------------------
(* The rest of the pass.  Every match starts its melody and is noted as    *)
(* the one pending, so that of several the last remains.                   *)

\* (mutant: only the first match is looked for)
Ringing_First ==
    {i \in Matching(svc_alarms, timedate_l) :
        timedate_l.m # min_last /\ \A j \in Matching(svc_alarms, timedate_l) : i <= j}

Ringing == IF timedate_l.m # min_last THEN Matching(svc_alarms, timedate_l) ELSE {}

Ring ==
    \/ Ringing = {} /\ UNCHANGED <<af_pending, alarm_pending>>
    \/ \E i \in Ringing :
           /\ \A j \in Ringing : j <= i
           /\ af_pending' = TRUE /\ alarm_pending' = i

\* (mutant: the minute is noted only when nothing rang)
svc_alarm_process_NotNoted ==
    /\ pc = "alarms" /\ pc' = "app"
    /\ Ring
    /\ min_last' = IF Ringing # {} THEN min_last ELSE timedate_l.m
    /\ looked' = TRUE
    /\ due' = due \ Ringing /\ rung' = rung \union Ringing
    /\ UNCHANGED <<svc_alarms, af_enabled, clock, timedate_l>>

svc_alarm_process ==
    /\ pc = "alarms" /\ pc' = "app"
    /\ Ring
    /\ min_last' = timedate_l.m
    /\ looked' = TRUE
    /\ due' = due \ Ringing /\ rung' = rung \union Ringing
    /\ UNCHANGED <<svc_alarms, af_enabled, clock, timedate_l>>

\* A reset: the alarms and the clock go on, the copy is zero until the next
\* second, and svc_alarm_init finds out what is enabled.
Reset ==
    /\ af_enabled' = AnyEnabled(svc_alarms)
    /\ af_pending' = FALSE /\ alarm_pending' = 0 /\ min_last' = NONE
    /\ timedate_l' = Midnight
    /\ pc' = "app" /\ looked' = TRUE
    /\ due' = {} /\ rung' = {}
    /\ UNCHANGED <<svc_alarms, clock>>

-----------------------------------------------------------------------------
Next == SecondPasses \/ MinutePasses \/ AppPass \/ svc_alarm_process \/ Reset

Spec == Init /\ [][Next]_vars

-----------------------------------------------------------------------------
(* Properties.                                                             *)

TypeOK ==
    /\ svc_alarms \in [Alarms -> Alarm]
    /\ af_enabled \in BOOLEAN /\ af_pending \in BOOLEAN
    /\ alarm_pending \in Alarms /\ min_last \in (0..Minutes - 1) \union {NONE}
    /\ clock \in Timedate /\ timedate_l \in Timedate
    /\ pc \in {"app", "alarms"} /\ looked \in BOOLEAN
    /\ due \subseteq Alarms /\ rung \subseteq Alarms

\* The flag behind the bell symbol says exactly whether some alarm is enabled,
\* through edits of any of them and resets.
EnabledFlagExact == af_enabled = AnyEnabled(svc_alarms)

\* An alarm whose minute begins while nobody has set the clock for a second
\* is rung before the minute ends, unless it is changed: all of those that
\* match, and wherever the interrupt comes in the pass.
NeverMissed == [][MinutePasses => due = {}]_vars

\* An alarm rings at most once while its minute is displayed, however often
\* the main loop looks at it and whatever is edited meanwhile, unless the
\* watch is reset.
OncePerMinute == [][svc_alarm_process => Ringing \intersect rung = {}]_vars
=============================================================================
