---------------------------- MODULE AlarmProofs ----------------------------
(***************************************************************************)
(* No alarm is missed and none rings twice, for any number of alarms and   *)
(* any calendar.                                                           *)
(*                                                                         *)
(* Both follow from what min_last says of the copy of the time: once the   *)
(* main loop has looked in this second, min_last is the copy's minute, or  *)
(* the watch was just reset.  The next minute is then a different one, so  *)
(* that the next pass rings everything that matches.                       *)
(***************************************************************************)
EXTENDS HourBeep, TLAPS

USE SizesAssumption

-----------------------------------------------------------------------------
(* Type correctness.                                                       *)

LEMMA NextMinuteType ==
    ASSUME NEW c \in Timedate
    PROVE  NextMinute(c) \in Timedate /\ NextMinute(c).m # c.m
<1>1. (c.dow + 1) % Dows \in Days
  BY DEF Timedate, Days
<1>2. 0 \in 0..Hours - 1 /\ 0 \in 0..Minutes - 1
  OBVIOUS
<1>3. CASE c.m + 1 < Minutes
  BY <1>3 DEF Timedate, NextMinute
<1>4. CASE ~(c.m + 1 < Minutes) /\ c.h + 1 < Hours
  BY <1>2, <1>4 DEF Timedate, NextMinute
<1>5. CASE ~(c.m + 1 < Minutes) /\ ~(c.h + 1 < Hours)
  BY <1>1, <1>2, <1>5 DEF Timedate, NextMinute
<1> QED
  BY <1>3, <1>4, <1>5

LEMMA ClampType ==
    ASSUME NEW top \in Nat, NEW x \in Int
    PROVE  Clamp(x, top) \in 0..top
  BY DEF Clamp

LEMMA MidnightType == Midnight \in Timedate
<1>1. 0 \in 0..Hours - 1 /\ 0 \in 0..Minutes - 1 /\ 0 \in Days
  BY DEF Days
<1> QED
  BY <1>1 DEF Midnight, Timedate

LEMMA SteppedAlarm ==
    ASSUME NEW al \in Alarm, NEW d \in Steps
    PROVE  /\ [al EXCEPT !.h = Clamp(@ + d, Hours - 1)] \in Alarm
           /\ [al EXCEPT !.m = Clamp(@ + d, Minutes - 1)] \in Alarm
<1>1. al.h + d \in Int /\ al.m + d \in Int
  BY DEF Alarm, Steps
<1>2. /\ Clamp(al.h + d, Hours - 1) \in 0..Hours - 1
      /\ Clamp(al.m + d, Minutes - 1) \in 0..Minutes - 1
  <2>1. Hours - 1 \in Nat /\ Minutes - 1 \in Nat
    OBVIOUS
  <2> QED
    BY <1>1, <2>1, ClampType
<1> QED
  BY <1>2 DEF Alarm

ClockOK == clock \in Timedate /\ timedate_l \in Timedate
AlarmsOK == svc_alarms \in [Alarms -> Alarm]

LEMMA ChangeType ==
    ASSUME AlarmsOK, NEW i \in Alarms, NEW al \in Alarm, Changed(i, al)
    PROVE  AlarmsOK'
  BY DEF AlarmsOK, Changed

LEMMA AlarmsKept == AlarmsOK /\ [Next]_vars => AlarmsOK'
<1> SUFFICES ASSUME AlarmsOK, [Next]_vars PROVE AlarmsOK'
  OBVIOUS
<1>1. ASSUME NEW i \in Alarms, svc_alarm_set_time(i) PROVE AlarmsOK'
  BY <1>1, SteppedAlarm, ChangeType DEF svc_alarm_set_time, AlarmsOK
<1>2. ASSUME NEW i \in Alarms, svc_alarm_set_enable(i) PROVE AlarmsOK'
  <2>1. [svc_alarms[i] EXCEPT !.enable = ~@] \in Alarm
    BY DEF AlarmsOK, Alarm
  <2> QED
    BY <1>2, <2>1, ChangeType DEF svc_alarm_set_enable
<1>3. ASSUME NEW i \in Alarms, svc_alarm_set_day(i) PROVE AlarmsOK'
  <2>1. \A day \in Days :
           [svc_alarms[i] EXCEPT !.days = IF day \in @ THEN @ \ {day} ELSE @ \union {day}]
               \in Alarm
    BY DEF AlarmsOK, Alarm
  <2> QED
    BY <1>3, <2>1, ChangeType DEF svc_alarm_set_day
<1>4. CASE AppPass
  BY <1>1, <1>2, <1>3, <1>4 DEF AppPass, App, NoApp, hal_rtc_set, AlarmsOK
<1>5. CASE SecondPasses \/ MinutePasses \/ svc_alarm_process \/ Reset \/ UNCHANGED vars
  BY <1>5 DEF SecondPasses, MinutePasses, RTC_ISR, svc_alarm_process, Reset, vars, AlarmsOK
<1> QED
  BY <1>4, <1>5 DEF Next

LEMMA ClockKept == ClockOK /\ [Next]_vars => ClockOK'
<1> SUFFICES ASSUME ClockOK, [Next]_vars PROVE ClockOK'
  OBVIOUS
<1>1. CASE SecondPasses \/ MinutePasses
  BY <1>1, NextMinuteType DEF ClockOK, SecondPasses, MinutePasses, RTC_ISR
<1>2. CASE AppPass
  <2>1. ASSUME NEW t \in Timedate, hal_rtc_set(t) PROVE clock' \in Timedate
    BY <2>1 DEF hal_rtc_set
  <2>2. /\ \A h \in 0..Hours - 1, m \in 0..Minutes - 1 :
               [h |-> h, m |-> m, dow |-> clock.dow] \in Timedate
        /\ \A dow \in Days : [clock EXCEPT !.dow = dow] \in Timedate
    BY DEF ClockOK, Timedate
  <2>3. ASSUME NEW i \in Alarms,
               svc_alarm_set_time(i) \/ svc_alarm_set_enable(i) \/ svc_alarm_set_day(i)
        PROVE  clock' = clock
    BY <2>3 DEF svc_alarm_set_time, svc_alarm_set_enable, svc_alarm_set_day, Changed
  <2> QED
    BY <1>2, <2>1, <2>2, <2>3 DEF AppPass, App, NoApp, ClockOK
<1>3. CASE Reset
  BY <1>3, MidnightType DEF Reset, ClockOK
<1>4. CASE svc_alarm_process \/ UNCHANGED vars
  BY <1>4 DEF svc_alarm_process, vars, ClockOK
<1> QED
  BY <1>1, <1>2, <1>3, <1>4 DEF Next

\* The rest of the type invariant.
FlagsOK ==
    /\ af_enabled \in BOOLEAN /\ af_pending \in BOOLEAN
    /\ alarm_pending \in Alarms /\ min_last \in (0..Minutes - 1) \union {NONE}
    /\ pc \in {"app", "alarms"} /\ looked \in BOOLEAN
    /\ due \subseteq Alarms /\ rung \subseteq Alarms

LEMMA AnyEnabledType == \A alarms : AnyEnabled(alarms) \in BOOLEAN
  BY DEF AnyEnabled

LEMMA FlagsKept == ClockOK /\ FlagsOK /\ [Next]_vars => FlagsOK'
<1> SUFFICES ASSUME ClockOK, FlagsOK, [Next]_vars PROVE FlagsOK'
  OBVIOUS
<1>1. CASE SecondPasses \/ MinutePasses
  BY <1>1 DEF SecondPasses, MinutePasses, RTC_ISR, FlagsOK, Matching, flags
<1>2. CASE AppPass
  <2>1. ASSUME NEW i \in Alarms,
               svc_alarm_set_time(i) \/ svc_alarm_set_enable(i) \/ svc_alarm_set_day(i)
        PROVE  af_enabled' \in BOOLEAN /\ due' \subseteq Alarms /\ rung' = rung
    BY <2>1 DEF svc_alarm_set_time, svc_alarm_set_enable, svc_alarm_set_day, Changed,
                FlagsOK, AnyEnabled
  <2>2. af_enabled' \in BOOLEAN /\ due' \subseteq Alarms /\ rung' = rung
    BY <1>2, <2>1 DEF AppPass, App, NoApp, hal_rtc_set, FlagsOK
  <2>3. af_pending' \in BOOLEAN
    BY <1>2 DEF AppPass, FlagsOK
  <2> QED
    BY <1>2, <2>2, <2>3 DEF AppPass, FlagsOK
<1>3. CASE svc_alarm_process
  <2>1. Ringing \subseteq Alarms
    BY DEF Ringing, Matching
  <2>2. af_pending' \in BOOLEAN /\ alarm_pending' \in Alarms
    BY <1>3, <2>1 DEF svc_alarm_process, Ring, FlagsOK
  <2>3. min_last' \in 0..Minutes - 1
    BY <1>3 DEF svc_alarm_process, ClockOK, Timedate
  <2> QED
    BY <1>3, <2>1, <2>2, <2>3 DEF svc_alarm_process, FlagsOK
<1>4. CASE Reset
  <2>1. af_enabled' \in BOOLEAN
    BY <1>4, AnyEnabledType DEF Reset
  <2>2. 0 \in Alarms
    BY DEF Alarms
  <2> QED
    BY <1>4, <2>1, <2>2 DEF Reset, FlagsOK
<1>5. CASE UNCHANGED vars
  BY <1>5 DEF vars, flags, FlagsOK
<1> QED
  BY <1>1, <1>2, <1>3, <1>4, <1>5 DEF Next

\* The variables of Alarm keep their types.
THEOREM TypeCorrect == Spec => []TypeOK
<1>1. Init => AlarmsOK /\ ClockOK /\ FlagsOK
  <2> SUFFICES ASSUME Init PROVE AlarmsOK /\ ClockOK /\ FlagsOK
    OBVIOUS
  <2>1. af_enabled \in BOOLEAN
    BY AnyEnabledType DEF Init
  <2>2. 0 \in Alarms
    BY DEF Alarms
  <2> QED
    BY <2>1, <2>2 DEF Init, AlarmsOK, ClockOK, FlagsOK
<1>2. AlarmsOK /\ ClockOK /\ FlagsOK /\ [Next]_vars => (AlarmsOK /\ ClockOK /\ FlagsOK)'
  BY AlarmsKept, ClockKept, FlagsKept
<1>3. TypeOK <=> AlarmsOK /\ ClockOK /\ FlagsOK
  BY DEF TypeOK, AlarmsOK, ClockOK, FlagsOK
<1> QED
  BY <1>1, <1>2, <1>3, PTL DEF Spec

-----------------------------------------------------------------------------
(* The flag.                                                               *)

\* The bell flag is exact through edits and resets.
THEOREM FlagIsExact == Spec => []EnabledFlagExact
<1>1. Init => EnabledFlagExact
  BY DEF Init, EnabledFlagExact
<1>2. TypeOK /\ EnabledFlagExact /\ [Next]_vars => EnabledFlagExact'
  <2> SUFFICES ASSUME TypeOK, EnabledFlagExact, [Next]_vars PROVE EnabledFlagExact'
    OBVIOUS
  <2>1. ASSUME NEW i \in Alarms, svc_alarm_set_enable(i) PROVE EnabledFlagExact'
    BY <2>1 DEF svc_alarm_set_enable, EnabledFlagExact, AnyEnabled
  <2>2. ASSUME NEW i \in Alarms, svc_alarm_set_time(i) \/ svc_alarm_set_day(i)
        PROVE  EnabledFlagExact'
    <3>1. PICK al : svc_alarms' = [svc_alarms EXCEPT ![i] = al]
                    /\ al.enable = svc_alarms[i].enable
      BY <2>2 DEF svc_alarm_set_time, svc_alarm_set_day, Changed, TypeOK, Alarm
    <3>2. \A j \in Alarms : svc_alarms'[j].enable = svc_alarms[j].enable
      BY <3>1 DEF TypeOK
    <3>3. af_enabled' = af_enabled
      BY <2>2 DEF svc_alarm_set_time, svc_alarm_set_day
    <3> QED
      BY <3>2, <3>3 DEF EnabledFlagExact, AnyEnabled
  <2>3. CASE AppPass
    BY <2>1, <2>2, <2>3 DEF AppPass, App, NoApp, hal_rtc_set, EnabledFlagExact, AnyEnabled
  <2>4. CASE Reset
    BY <2>4 DEF Reset, EnabledFlagExact, AnyEnabled
  <2>5. CASE SecondPasses \/ MinutePasses \/ svc_alarm_process \/ UNCHANGED vars
    BY <2>5 DEF SecondPasses, MinutePasses, RTC_ISR, svc_alarm_process, vars, flags,
                EnabledFlagExact, AnyEnabled
  <2> QED
    BY <2>3, <2>4, <2>5 DEF Next
<1> QED
  BY <1>1, <1>2, TypeCorrect, PTL DEF Spec

-----------------------------------------------------------------------------
(* Ringing.                                                                *)

\* What a pass leaves behind.
MinuteNoted == looked => min_last = timedate_l.m \/ min_last = NONE

\* What is due will be rung by the next pass.
DueRings ==
    due # {} =>
        /\ ~looked
        /\ timedate_l = clock /\ timedate_l.m # min_last
        /\ due \subseteq Matching(svc_alarms, clock)

\* After something rang its minute is noted as long as it lasts.
RungNoted == rung # {} => min_last = timedate_l.m

LEMMA MinuteNotedKept == MinuteNoted /\ [Next]_vars => MinuteNoted'
  BY DEF Next, SecondPasses, MinutePasses, RTC_ISR, AppPass, svc_alarm_process, Reset,
         vars, flags, MinuteNoted

LEMMA DueKept ==
    ASSUME TypeOK, MinuteNoted, DueRings, [Next]_vars
    PROVE  DueRings'
<1>1. CASE SecondPasses
  BY <1>1 DEF SecondPasses, RTC_ISR, DueRings
<1>2. CASE MinutePasses
  <2>1. clock' = NextMinute(clock) /\ timedate_l' = clock' /\ looked' = FALSE
        /\ min_last' = min_last /\ looked /\ svc_alarms' = svc_alarms
    BY <1>2 DEF MinutePasses, RTC_ISR, flags
  <2>2. due' # {} => timedate_l = clock /\ due' = Matching(svc_alarms, clock')
    BY <1>2 DEF MinutePasses
  <2>3. clock'.m \in 0..Minutes - 1 /\ clock'.m # clock.m
    BY <2>1, NextMinuteType DEF TypeOK, Timedate
  <2>4. NONE \notin 0..Minutes - 1
    BY DEF NONE
  <2>5. due' # {} => min_last # clock'.m
    BY <2>1, <2>2, <2>3, <2>4 DEF MinuteNoted
  <2> QED
    BY <2>1, <2>2, <2>5 DEF DueRings, Matching
<1>3. CASE AppPass
  <2>1. ASSUME NEW i \in Alarms,
               svc_alarm_set_time(i) \/ svc_alarm_set_enable(i) \/ svc_alarm_set_day(i)
        PROVE  clock' = clock /\ due' \subseteq due
               /\ due' \subseteq Matching(svc_alarms', clock)
    BY <2>1 DEF svc_alarm_set_time, svc_alarm_set_enable, svc_alarm_set_day, Changed
  <2>2. \/ due' = {}
        \/ clock' = clock /\ due' \subseteq due /\ due' \subseteq Matching(svc_alarms', clock)
    BY <1>3, <2>1 DEF AppPass, App, NoApp, hal_rtc_set, DueRings, Matching
  <2>3. looked' = looked /\ timedate_l' = timedate_l /\ min_last' = min_last
    BY <1>3 DEF AppPass
  <2> QED
    BY <2>2, <2>3 DEF DueRings, Matching
<1>4. CASE svc_alarm_process
  <2>1. due \subseteq Ringing
    BY DEF DueRings, Ringing
  <2> QED
    BY <1>4, <2>1 DEF svc_alarm_process, DueRings
<1>5. CASE Reset
  BY <1>5 DEF Reset, DueRings
<1>6. CASE UNCHANGED vars
  BY <1>6 DEF vars, flags, DueRings, Matching
<1> QED
  BY <1>1, <1>2, <1>3, <1>4, <1>5, <1>6 DEF Next

LEMMA RungKept ==
    ASSUME RungNoted, [Next]_vars
    PROVE  RungNoted'
<1>1. CASE SecondPasses \/ MinutePasses
  BY <1>1 DEF SecondPasses, MinutePasses, RTC_ISR, flags, RungNoted
<1>2. CASE AppPass
  <2>1. ASSUME NEW i \in Alarms,
               svc_alarm_set_time(i) \/ svc_alarm_set_enable(i) \/ svc_alarm_set_day(i)
        PROVE  rung' = rung
    BY <2>1 DEF svc_alarm_set_time, svc_alarm_set_enable, svc_alarm_set_day, Changed
  <2>2. rung' = rung
    BY <1>2, <2>1 DEF AppPass, App, NoApp, hal_rtc_set
  <2> QED
    BY <1>2, <2>2 DEF AppPass, RungNoted
<1>3. CASE svc_alarm_process \/ Reset \/ UNCHANGED vars
  BY <1>3 DEF svc_alarm_process, Reset, vars, flags, RungNoted
<1> QED
  BY <1>1, <1>2, <1>3 DEF Next

\* No alarm is missed, for any number of alarms, hours and minutes.
THEOREM NoAlarmIsMissed == Spec => NeverMissed
<1>1. Init => MinuteNoted /\ DueRings
  BY DEF Init, MinuteNoted, DueRings
<1>2. TypeOK /\ MinuteNoted /\ DueRings /\ [Next]_vars => (MinuteNoted /\ DueRings)'
  BY MinuteNotedKept, DueKept
<1>3. DueRings => [MinutePasses => due = {}]_vars
  BY DEF DueRings, MinutePasses, RTC_ISR
<1> QED
  BY <1>1, <1>2, <1>3, TypeCorrect, PTL DEF Spec, NeverMissed

\* No alarm rings twice in its minute.
THEOREM RingsOnce == Spec => OncePerMinute
<1>1. Init => RungNoted
  BY DEF Init, RungNoted
<1>2. RungNoted /\ [Next]_vars => RungNoted'
  BY RungKept
<1>3. RungNoted => [svc_alarm_process => Ringing \intersect rung = {}]_vars
  BY DEF RungNoted, Ringing
<1> QED
  BY <1>1, <1>2, <1>3, PTL DEF Spec, OncePerMinute

-----------------------------------------------------------------------------
(* The hour beep.  Every step of a pass with it is one of Alarm, or none.  *)

LEMMA HourStep == HourNext => [Next]_vars
<1>1. ConfPass => AppPass
  BY DEF ConfPass, AppPass, NoApp, flags
<1>2. svc_beep_hour => UNCHANGED vars
  BY DEF svc_beep_hour
<1> QED
  BY <1>1, <1>2 DEF HourNext, HourSecond, HourMinute, HourAppPass, HourAlarms, HourReset, Next

LEMMA HourImplements == HourSpec => Spec
<1>1. HourInit => Init
  BY DEF HourInit
<1>2. [HourNext]_pass_vars => [Next]_vars
  BY HourStep DEF pass_vars
<1> QED
  BY <1>1, <1>2, PTL DEF HourSpec, Spec

\* With the hour beep in the pass the alarms keep their promises.
THEOREM HourBeepLeavesAlarmsSafe ==
    HourSpec => []EnabledFlagExact /\ NeverMissed /\ OncePerMinute
BY HourImplements, FlagIsExact, NoAlarmIsMissed, RingsOnce

SettingsOK ==
    /\ beep_hour_enable \in BOOLEAN /\ beep_hour_quiet_enable \in BOOLEAN
    /\ beep_hour_quiet \in Interval

LEMMA SteppedInterval ==
    ASSUME NEW q \in Interval, NEW d \in Steps
    PROVE  /\ [q EXCEPT !.from = Clamp(@ + d, Hours - 1)] \in Interval
           /\ [q EXCEPT !.to = Clamp(@ + d, Hours - 1)] \in Interval
<1>1. q.from + d \in Int /\ q.to + d \in Int /\ Hours - 1 \in Nat
  BY DEF Interval, Steps
<1>2. Clamp(q.from + d, Hours - 1) \in 0..Hours - 1 /\ Clamp(q.to + d, Hours - 1) \in 0..Hours - 1
  BY <1>1, ClampType
<1> QED
  BY <1>2 DEF Interval

LEMMA SettingsKept == SettingsOK /\ [HourNext]_pass_vars => SettingsOK'
<1> SUFFICES ASSUME SettingsOK, [HourNext]_pass_vars PROVE SettingsOK'
  OBVIOUS
<1>1. CASE UNCHANGED settings
  BY <1>1 DEF settings, SettingsOK
<1>2. CASE hourbeep_set
  <2>1. (~beep_hour_enable) \in BOOLEAN
    OBVIOUS
  <2>2. beep_hour_enable' \in BOOLEAN
    BY <1>2, <2>1, Zenon DEF hourbeep_set
  <2> QED
    BY <1>2, <2>2 DEF hourbeep_set, SettingsOK
<1>3. CASE hourbeep_quiet_set
  <2>1. (~beep_hour_quiet_enable) \in BOOLEAN
    OBVIOUS
  <2>2. beep_hour_quiet_enable' \in BOOLEAN
    BY <1>3, <2>1, Zenon DEF hourbeep_quiet_set
  <2> QED
    BY <1>3, <2>2 DEF hourbeep_quiet_set, SettingsOK
<1>4. CASE hourbeep_quiet_set_interval
  <2>1. beep_hour_quiet' \in Interval
    BY <1>4, SteppedInterval DEF hourbeep_quiet_set_interval, SettingsOK
  <2> QED
    BY <1>4, <2>1 DEF hourbeep_quiet_set_interval, SettingsOK
<1> QED
  BY <1>1, <1>2, <1>3, <1>4
     DEF HourNext, HourSecond, HourMinute, NewSecond, HourAppPass, ConfPass, HourAlarms,
         svc_beep_hour, HourReset, pass_vars, hour_vars

\* How far an hour is from another one, round the clock.
LEMMA RoundTheClock ==
    ASSUME NEW a \in 0..Hours - 1, NEW b \in 0..Hours - 1
    PROVE  (a - b) % Hours = IF a >= b THEN a - b ELSE a - b + Hours
<1>1. CASE a >= b
  <2>1. a - b \in Nat /\ a - b < Hours
    BY <1>1
  <2> QED
    BY <1>1, <2>1
<1>2. CASE a < b
  <2>1. a - b + Hours \in Nat /\ a - b + Hours < Hours
    BY <1>2
  <2>2. (a - b + Hours) % Hours = a - b + Hours
    BY <2>1
  <2>3. (a - b + Hours) % Hours = (a - b) % Hours
    OBVIOUS
  <2> QED
    BY <1>2, <2>2, <2>3
<1> QED BY <1>1, <1>2

\* The comparisons of the code find the quiet hours, across midnight or not.
LEMMA IntervalIsQuietHours ==
    ASSUME NEW q \in Interval, NEW h \in 0..Hours - 1
    PROVE  InInterval(q, h) <=> h \in QuietHours(q)
<1>1. q.from \in 0..Hours - 1 /\ q.to \in 0..Hours - 1
  BY DEF Interval
<1>2. (h - q.from) % Hours = IF h >= q.from THEN h - q.from ELSE h - q.from + Hours
  BY <1>1, RoundTheClock
<1>3. (q.to - q.from) % Hours = IF q.to >= q.from THEN q.to - q.from ELSE q.to - q.from + Hours
  BY <1>1, RoundTheClock
<1> QED
  BY <1>1, <1>2, <1>3 DEF InInterval, QuietHours

\* What was looked at, and what is still to be announced.
HourNoted ==
    /\ heard => hour_last = timedate_l.h \/ hour_last = NONE
    /\ announced => hour_last = timedate_l.h

HourAwaited ==
    hour_due => /\ ~heard
                /\ timedate_l = clock /\ hour_last # clock.h
                /\ Wanted(clock.h)

LEMMA HourNotedKept == HourNoted /\ [HourNext]_pass_vars => HourNoted'
<1> SUFFICES ASSUME HourNoted, [HourNext]_pass_vars PROVE HourNoted'
  OBVIOUS
<1>1. CASE HourSecond \/ HourMinute
  BY <1>1 DEF HourSecond, HourMinute, NewSecond, HourNoted
<1>2. CASE HourAppPass \/ ConfPass \/ HourAlarms
  BY <1>2 DEF HourAppPass, AppPass, ConfPass, HourAlarms, svc_alarm_process, HourNoted
<1>3. CASE svc_beep_hour
  BY <1>3 DEF svc_beep_hour, vars, HourNoted
<1>4. CASE HourReset
  BY <1>4 DEF HourReset, HourNoted
<1>5. CASE UNCHANGED pass_vars
  BY <1>5 DEF pass_vars, vars, hour_vars, HourNoted
<1> QED
  BY <1>1, <1>2, <1>3, <1>4, <1>5 DEF HourNext

LEMMA HourAwaitedKept ==
    ASSUME TypeOK, SettingsOK, HourNoted, HourAwaited, [HourNext]_pass_vars
    PROVE  HourAwaited'
<1>1. CASE HourSecond
  BY <1>1 DEF HourSecond, NewSecond, HourAwaited
<1>2. CASE HourMinute
  <2>1. clock' \in Timedate /\ timedate_l' = clock' /\ ~heard' /\ hour_last' = hour_last
    BY <1>2, NextMinuteType DEF HourMinute, MinutePasses, RTC_ISR, NewSecond, TypeOK
  <2>2. CASE clock'.h # clock.h /\ hour_due'
    <3>1. timedate_l = clock /\ Wanted(clock'.h)
      BY <1>2, <2>2 DEF HourMinute
    <3>2. hour_last = clock.h \/ hour_last = NONE
      BY <1>2, <3>1 DEF HourMinute, NewSecond, HourNoted
    <3>3. hour_last # clock'.h
      BY <2>1, <2>2, <3>2, HourAssumption DEF Timedate, NONE
    <3>4. Wanted(clock'.h) <=> Wanted(clock.h)'
      BY <1>2 DEF HourMinute, NewSecond, settings, Wanted
    <3> QED
      BY <2>1, <3>1, <3>3, <3>4 DEF HourAwaited
  <2>3. CASE clock'.h = clock.h /\ hour_due'
    BY <1>2, <2>3 DEF HourMinute, NewSecond, HourAwaited
  <2> QED
    BY <2>2, <2>3 DEF HourAwaited
<1>3. CASE HourAppPass
  BY <1>3 DEF HourAppPass, AppPass, settings, HourAwaited, Wanted
<1>4. CASE ConfPass
  BY <1>4 DEF ConfPass, HourAwaited
<1>5. CASE HourAlarms
  BY <1>5 DEF HourAlarms, svc_alarm_process, settings, HourAwaited, Wanted
<1>6. CASE svc_beep_hour
  <2>1. ASSUME hour_due PROVE Announces
    <3>1. timedate_l.h # hour_last /\ Wanted(timedate_l.h)
      BY <2>1 DEF HourAwaited
    <3>2. timedate_l.h \in 0..Hours - 1 /\ beep_hour_quiet \in Interval
      BY DEF TypeOK, Timedate, SettingsOK
    <3> QED
      BY <3>1, <3>2, IntervalIsQuietHours DEF Wanted, Announces
  <2> QED
    BY <1>6, <2>1 DEF svc_beep_hour, HourAwaited
<1>7. CASE HourReset
  BY <1>7 DEF HourReset, HourAwaited
<1>8. CASE UNCHANGED pass_vars
  BY <1>8 DEF pass_vars, vars, hour_vars, settings, HourAwaited, Wanted
<1> QED
  BY <1>1, <1>2, <1>3, <1>4, <1>5, <1>6, <1>7, <1>8 DEF HourNext

\* Each hour that begins is announced, once and unless it is quiet, whatever
\* the settings and wherever the interrupt comes in the pass.
THEOREM HourIsAnnounced == HourSpec => HourAnnounced
<1>1. HourInit => SettingsOK /\ HourNoted /\ HourAwaited
  BY DEF HourInit, SettingsOK, HourNoted, HourAwaited
<1>2. TypeOK /\ SettingsOK /\ HourNoted /\ HourAwaited /\ [HourNext]_pass_vars
        => (SettingsOK /\ HourNoted /\ HourAwaited)'
  BY SettingsKept, HourNotedKept, HourAwaitedKept
<1>3. TypeOK /\ SettingsOK /\ HourNoted /\ HourAwaited
        => [/\ HourMinute /\ clock'.h # clock.h => ~hour_due
            /\ svc_beep_hour /\ Announces => ~announced /\ Wanted(timedate_l.h)]_pass_vars
  <2> SUFFICES ASSUME TypeOK, SettingsOK, HourNoted, HourAwaited
               PROVE  /\ HourMinute /\ clock'.h # clock.h => ~hour_due
                      /\ svc_beep_hour /\ Announces => ~announced /\ Wanted(timedate_l.h)
    OBVIOUS
  <2>1. HourMinute => ~hour_due
    BY DEF HourMinute, NewSecond, HourAwaited
  <2>2. timedate_l.h \in 0..Hours - 1 /\ beep_hour_quiet \in Interval
    BY DEF TypeOK, Timedate, SettingsOK
  <2>3. Announces => ~announced /\ Wanted(timedate_l.h)
    BY <2>2, IntervalIsQuietHours DEF Announces, HourNoted, Wanted
  <2> QED
    BY <2>1, <2>3
<1> QED
  BY <1>1, <1>2, <1>3, HourImplements, TypeCorrect, PTL DEF HourSpec, HourAnnounced
=============================================================================
