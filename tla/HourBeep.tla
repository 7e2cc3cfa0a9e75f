------------------------------ MODULE HourBeep ------------------------------
(***************************************************************************)
(* The hour beep (svc_beep_hour of common/svc/beep.c) and its quiet        *)
(* interval, at the end of each pass whose alarms Alarm describes, with    *)
(* the settings of common/app/conf/app.c.                                  *)
(*                                                                         *)
(* It reads the copy of the time again: the interrupt may have come since  *)
(* svc_alarm_process.  The beep itself is svc_beep_hour of Sound.          *)
(***************************************************************************)
EXTENDS Alarm

ASSUME HourAssumption == Hours \in 1..255

VARIABLES
    beep_hour_enable, beep_hour_quiet_enable,
    beep_hour_quiet,    \* the first and the last quiet hour
    hour_last,
    ending,             \* the pass has still to call svc_beep_hour
    heard,              \* it was called since the last second began
    hour_due,           \* history: this hour is still to be announced
    announced           \* history: the hour the copy shows was announced

settings == <<beep_hour_enable, beep_hour_quiet_enable, beep_hour_quiet>>
hour_vars == <<settings, hour_last, ending, heard, hour_due, announced>>
pass_vars == <<vars, hour_vars>>

Interval == [from : 0..Hours - 1, to : 0..Hours - 1]

\* The settings are nonvolatile.
HourInit ==
    /\ Init
    /\ beep_hour_enable \in BOOLEAN /\ beep_hour_quiet_enable \in BOOLEAN
    /\ beep_hour_quiet \in Interval
    /\ hour_last = NONE
    /\ ending = FALSE /\ heard = FALSE
    /\ hour_due = FALSE /\ announced = FALSE

\* What the settings mean: an hour is quiet when it comes, counted from the
\* first one, no later than the last one.  Equal ends leave no hour quiet.
QuietHours(q) ==
    {h \in 0..Hours - 1 : q.from # q.to /\ (h - q.from) % Hours <= (q.to - q.from) % Hours}

Wanted(h) ==
    beep_hour_enable /\ ~(beep_hour_quiet_enable /\ h \in QuietHours(beep_hour_quiet))

-----------------------------------------------------------------------------
(* The clock: there are four passes in a second, so that one of them has   *)
(* ended since the last.                                                   *)

NewSecond ==
    /\ heard /\ heard' = FALSE
    /\ announced' = (announced /\ timedate_l'.h = timedate_l.h)
    /\ UNCHANGED <<settings, hour_last, ending>>

HourSecond == SecondPasses /\ NewSecond /\ UNCHANGED hour_due

\* What has to be announced, if nobody is setting the clock.
HourMinute ==
    /\ MinutePasses /\ NewSecond
    /\ hour_due' = IF clock'.h # clock.h THEN timedate_l = clock /\ Wanted(clock'.h)
                   ELSE hour_due

-----------------------------------------------------------------------------
(* The pass.                                                               *)

\* An hour begun by setting the clock is not awaited.
HourAppPass ==
    /\ ~ending /\ AppPass
    /\ hour_due' = (hour_due /\ clock' = clock)
    /\ UNCHANGED <<settings, hour_last, ending, heard, announced>>

hourbeep_set ==
    beep_hour_enable' = ~beep_hour_enable /\ UNCHANGED <<beep_hour_quiet_enable, beep_hour_quiet>>
hourbeep_quiet_set ==
    beep_hour_quiet_enable' = ~beep_hour_quiet_enable /\ UNCHANGED <<beep_hour_enable, beep_hour_quiet>>
hourbeep_quiet_set_interval ==
    /\ \E d \in Steps :
           beep_hour_quiet' \in
               {[beep_hour_quiet EXCEPT !.from = Clamp(@ + d, Hours - 1)],
                [beep_hour_quiet EXCEPT !.to = Clamp(@ + d, Hours - 1)]}
    /\ UNCHANGED <<beep_hour_enable, beep_hour_quiet_enable>>

\* A key of the settings.  What is not wanted any more is not due.
ConfPass ==
    /\ ~ending /\ pc = "app" /\ pc' = "alarms" /\ ~af_pending
    /\ hourbeep_set \/ hourbeep_quiet_set \/ hourbeep_quiet_set_interval
    /\ UNCHANGED <<svc_alarms, flags, clock, timedate_l, looked, due, rung,
                   hour_last, ending, heard, announced>>
    /\ hour_due' = (hour_due /\ Wanted(clock.h)')

HourAlarms ==
    /\ svc_alarm_process
    /\ ending' = TRUE
    /\ UNCHANGED <<settings, hour_last, heard, hour_due, announced>>

\* (mutant: across midnight both ends have to be kept)
InInterval_Both(q, h) ==
    \/ q.from < q.to /\ q.from <= h /\ h <= q.to
    \/ q.from > q.to /\ q.from <= h /\ h <= q.to

InInterval(q, h) ==
    \/ q.from < q.to /\ q.from <= h /\ h <= q.to
    \/ q.from > q.to /\ (q.from <= h \/ h <= q.to)

Announces ==
    /\ timedate_l.h # hour_last
    /\ ~(beep_hour_quiet_enable /\ InInterval(beep_hour_quiet, timedate_l.h))
    /\ beep_hour_enable

svc_beep_hour ==
    /\ ending /\ ending' = FALSE /\ heard' = TRUE
    /\ hour_last' = timedate_l.h
    /\ announced' = (announced \/ Announces)
    /\ hour_due' = (hour_due /\ ~Announces)
    /\ UNCHANGED <<vars, settings>>

HourReset ==
    /\ Reset
    /\ hour_last' = NONE
    /\ ending' = FALSE /\ heard' = TRUE
    /\ hour_due' = FALSE /\ announced' = FALSE
    /\ UNCHANGED settings

-----------------------------------------------------------------------------
HourNext == \/ HourSecond \/ HourMinute
            \/ HourAppPass \/ ConfPass \/ HourAlarms \/ svc_beep_hour
            \/ HourReset

HourSpec == HourInit /\ [][HourNext]_pass_vars

-----------------------------------------------------------------------------
(* Properties.                                                             *)

\* An hour that begins while nobody sets the clock is announced before it
\* ends, if the settings want it all the time, wherever the interrupt comes
\* in the pass; none is announced twice; and none that is quiet, on whichever
\* side of midnight the interval begins.
HourAnnounced ==
    [][/\ HourMinute /\ clock'.h # clock.h => ~hour_due
       /\ svc_beep_hour /\ Announces => ~announced /\ Wanted(timedate_l.h)]_pass_vars
=============================================================================
