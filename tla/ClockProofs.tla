----------------------------- MODULE ClockProofs -----------------------------
(***************************************************************************)
(* Proofs about Clock, for every length of the day, the hour, the minute   *)
(* and the second in ticks, and every bound on the deviation that a        *)
(* correction can make up for.                                             *)
(***************************************************************************)
EXTENDS Clock, TLAPS

-----------------------------------------------------------------------------
(* Lemmas about the operators.                                             *)

\* The prescaler counts up to TicksPerSecond and starts again.
LEMMA DivNext ==
    ASSUME NEW d \in 0..TicksPerSecond - 1
    PROVE  (d + 1) % TicksPerSecond = Succ(d, TicksPerSecond)
BY SizesAssumption DEF Succ

\* A successor stays in range.
LEMMA SuccType ==
    ASSUME NEW n \in Nat \ {0}, NEW x \in 0..n - 1
    PROVE  Succ(x, n) \in 0..n - 1
BY DEF Succ

\* What the chip shows a second later is a time.
LEMMA NextSecondType ==
    ASSUME NEW t \in Time
    PROVE  NextSecond(t) \in Time
BY SizesAssumption, SuccType DEF NextSecond, Time

\* A time that is being edited stays one.
LEMMA ClampType ==
    ASSUME NEW x \in Int, NEW top \in Nat
    PROVE  Clamp(x, top) \in 0..top
BY DEF Clamp

-----------------------------------------------------------------------------
(* Type correctness.                                                       *)

\* Whatever is set, measured and corrected, the chip, its copy and the edit
\* hold times, and the pending correction is no larger than a deviation may be.
THEOREM TypeCorrect == Spec => []TypeOK
<1>1. Init => TypeOK
  <2> SUFFICES ASSUME Init PROVE TypeOK
    OBVIOUS
  <2>1. 0 \in -MaxDelta..MaxDelta /\ 0 \in 0..Seconds - 1 /\ 0 \in 0..TicksPerSecond
        /\ SinceLimit \in 1..SinceLimit /\ SinceLimit \in 0..SinceLimit
    BY SizesAssumption
  <2> QED
    BY <2>1 DEF Init, TypeOK
<1>2. TypeOK /\ [Next]_vars => TypeOK'
  <2> SUFFICES ASSUME TypeOK, [Next]_vars PROVE TypeOK'
    OBVIOUS
  <2> USE DEF TypeOK
  <2>1. CASE Second
    <3>1. clock' \in Time
      BY <2>1, NextSecondType DEF Second
    <3>2. elapsed' \in 0..SinceLimit
      BY <2>1, SizesAssumption DEF Second, Capped
    <3>3. ref' \in 0..Seconds - 1
      BY <2>1, SuccType, SizesAssumption DEF Second
    <3>4. quarter' \in 0..TicksPerSecond
      BY <2>1, SizesAssumption DEF Second
    <3> QED
      BY <2>1, <3>1, <3>2, <3>3, <3>4 DEF Second
  <2>2. CASE TickPass
    <3>1. quarter' \in 0..TicksPerSecond
      BY <2>2, SizesAssumption DEF TickPass
    <3>2. div' \in 0..TicksPerSecond - 1
      BY <2>2, DivNext, SuccType, SizesAssumption DEF TickPass
    <3>3. CASE Correct
      <4>1. timedate_l.s + adj_s \in 0..Seconds - 1
        BY <3>3 DEF Correct, CanAdjust
      <4>2. clock' \in Time
        BY <3>3, <4>1 DEF Correct, Time
      <4>3. adj_s' \in -MaxDelta..MaxDelta
        BY <3>3, SizesAssumption DEF Correct
      <4>4. seconds_since_last_set' \in 1..SinceLimit /\ elapsed' \in 0..SinceLimit
        BY <3>3, SizesAssumption DEF Correct, Since_Reset
      <4>5. tracked' \in {"no", "measured", "requested", "corrected"}
        BY <3>3 DEF Correct
      <4> QED
        BY <2>2, <3>1, <3>2, <4>2, <4>3, <4>4, <4>5 DEF TickPass
    <3>4. CASE CountSecond
      <4>1. seconds_since_last_set' \in 1..SinceLimit
        BY <3>4, SizesAssumption DEF CountSecond, Capped
      <4> QED
        BY <2>2, <3>1, <3>2, <3>4, <4>1 DEF TickPass, CountSecond
    <3> QED
      BY <2>2, <3>3, <3>4 DEF TickPass
  <2>3. CASE app_app_time_adj_main
    <3>1. PICK h \in {timedate_l.h - 1, timedate_l.h + 1} \intersect (0..Hours - 1) :
              clock' = [timedate_l EXCEPT !.h = h]
      BY <2>3 DEF app_app_time_adj_main
    <3>2. clock' \in Time
      BY <3>1 DEF Time
    <3>3. tracked' \in {"no", "measured", "requested", "corrected"}
      BY <2>3 DEF app_app_time_adj_main
    <3> QED
      BY <2>3, <3>2, <3>3 DEF app_app_time_adj_main, setting
  <2>4. CASE adj_enter
    BY <2>4 DEF adj_enter, time, setting
  <2>5. CASE time_set
    <3>1. tt \in Time
      BY <2>5 DEF time_set
    <3>2. PICK d \in Steps :
              tt' \in {[tt EXCEPT !.h = Clamp(tt.h + d, Hours - 1)],
                       [tt EXCEPT !.m = Clamp(tt.m + d, Minutes - 1)],
                       [tt EXCEPT !.s = Clamp(tt.s + d, Seconds - 1)]}
      BY <2>5 DEF time_set
    <3>3. d \in Int /\ tt.h \in Int /\ tt.m \in Int /\ tt.s \in Int
      BY <3>1, <3>2 DEF Time, Steps
    <3>4. Clamp(tt.h + d, Hours - 1) \in 0..Hours - 1
      BY <3>3, ClampType, SizesAssumption
    <3>5. Clamp(tt.m + d, Minutes - 1) \in 0..Minutes - 1
      BY <3>3, ClampType, SizesAssumption
    <3>6. Clamp(tt.s + d, Seconds - 1) \in 0..Seconds - 1
      BY <3>3, ClampType, SizesAssumption
    <3>7. tt' \in Time
      BY <3>1, <3>2, <3>4, <3>5, <3>6 DEF Time
    <3> QED
      BY <2>5, <3>7 DEF time_set, time, setting
  <2>6. CASE adj_time_leave
    <3>1. tt \in Time
      BY <2>6 DEF adj_time_leave
    <3>2. seconds_since_last_set' \in 1..SinceLimit /\ elapsed' \in 0..SinceLimit
      BY <2>6, SizesAssumption DEF adj_time_leave, Since_Reset
    <3> QED
      BY <2>6, <3>1, <3>2 DEF adj_time_leave
  <2>7. CASE GiveUp
    BY <2>7 DEF GiveUp, time, setting
  <2>8. CASE cal_meas
    <3>1. Deviation(timedate_l.s) \in Int
      BY SizesAssumption DEF Deviation, Time
    <3>2. meas_delta' \in (-MaxDelta..MaxDelta) \union {INVALID}
      BY <2>8, <3>1, SizesAssumption DEF cal_meas, Abs
    <3>3. tracked' \in {"no", "measured", "requested", "corrected"}
      BY <2>8 DEF cal_meas
    <3>4. ref' \in 0..Seconds - 1
      BY <2>8, SizesAssumption DEF cal_meas
    <3> QED
      BY <2>8, <3>2, <3>3, <3>4 DEF cal_meas, time, setting
  <2>9. CASE do_adj
    <3>1. meas_delta \in -MaxDelta..MaxDelta
      BY <2>9 DEF do_adj
    <3>2. adj_s' \in -MaxDelta..MaxDelta
      BY <2>9, <3>1, SizesAssumption DEF do_adj, Correction
    <3>3. tracked' \in {"no", "measured", "requested", "corrected"}
      BY <2>9 DEF do_adj
    <3> QED
      BY <2>9, <3>2, <3>3 DEF do_adj, time, setting
  <2>10. CASE UNCHANGED vars
    BY <2>10 DEF vars, time, setting
  <2> QED
    BY <2>1, <2>2, <2>3, <2>4, <2>5, <2>6, <2>7, <2>8, <2>9, <2>10 DEF Next, Key
<1> QED
  BY <1>1, <1>2, PTL DEF Spec

-----------------------------------------------------------------------------
(* What a correction does.                                                 *)

\* A correction that starts from the time of the day moves it by the seconds
\* that were asked for: minutes and hours stay, so nothing is carried or lost.
THEOREM CorrectsExactly == Spec => CorrectionExact
<1>1. TypeOK /\ [Next]_vars => [Correct /\ Fresh => Total(clock') = Total(clock) + adj_s]_vars
  <2> SUFFICES ASSUME TypeOK, Correct, Fresh
               PROVE  Total(clock') = Total(clock) + adj_s
    OBVIOUS
  <2>1. clock' = [clock EXCEPT !.s = clock.s + adj_s]
    BY DEF Correct, Fresh
  <2>2. clock'.h = clock.h /\ clock'.m = clock.m /\ clock'.s = clock.s + adj_s
    BY <2>1 DEF TypeOK, Time
  <2> DEFINE whole == (clock.h * Minutes + clock.m) * Seconds
  <2>3. whole \in Int /\ clock.s \in Int /\ adj_s \in Int
    BY SizesAssumption DEF TypeOK, Time
  <2>4. Total(clock) = whole + clock.s /\ Total(clock') = whole + (clock.s + adj_s)
    BY <2>2 DEF Total
  <2> HIDE DEF whole
  <2> QED
    BY <2>3, <2>4
<1> QED
  BY <1>1, TypeCorrect, PTL DEF Spec, CorrectionExact

-----------------------------------------------------------------------------
(* Measured, requested, corrected: in step.  From the measurement to the   *)
(* correction, the clock is ahead of the reference by what was measured,   *)
(* or one of the two has already passed the minute; what is requested is   *)
(* the opposite.                                                           *)

Ahead ==
    /\ meas_delta \in -MaxDelta..MaxDelta
    /\ clock.s - ref - meas_delta \in {-Seconds, 0, Seconds}
Tracking ==
    /\ tracked \in {"measured", "requested"} => Ahead
    /\ tracked = "requested" => adj_s = -meas_delta
    /\ tracked = "corrected" => clock.s = ref

\* A watch that was compared and corrected is in step with the reference until
\* its time is set.
THEOREM StaysInStep == Spec => []InStep
<1>1. Init => Tracking
  BY DEF Init, Tracking
<1>2. TypeOK /\ Tracking /\ [Next]_vars => Tracking'
  <2> SUFFICES ASSUME TypeOK, Tracking, [Next]_vars PROVE Tracking'
    OBVIOUS
  <2> USE DEF TypeOK, Tracking
  <2>0. /\ clock.s \in 0..Seconds - 1 /\ ref \in 0..Seconds - 1
        /\ timedate_l.s \in 0..Seconds - 1 /\ adj_s \in Int
    BY DEF Time
  <2>1. CASE Second
    <3>1. clock'.s = Succ(clock.s, Seconds) /\ (tracked # "no" => ref' = Succ(ref, Seconds))
      BY <2>1 DEF Second, NextSecond
    <3>2. meas_delta' = meas_delta /\ adj_s' = adj_s /\ tracked' = tracked
      BY <2>1 DEF Second
    <3>3. Ahead /\ tracked # "no" => Ahead'
      BY <2>0, <3>1, <3>2, SizesAssumption DEF Ahead, Succ
    <3> QED
      BY <2>0, <3>1, <3>2, <3>3
  <2>2. CASE TickPass /\ Correct
    <3>1. tracked' = "no" \/ (tracked' = "corrected" /\ tracked = "requested" /\ Fresh)
      BY <2>2 DEF Correct
    <3>2. ASSUME tracked = "requested", Fresh PROVE clock'.s = ref'
      <4>1. clock'.s = clock.s + adj_s /\ clock'.s \in 0..Seconds - 1 /\ ref' = ref
        BY <2>2, <3>2 DEF TickPass, Correct, CanAdjust, Fresh, Time
      <4>2. Ahead /\ adj_s = -meas_delta
        BY <3>2
      <4> QED
        BY <2>0, <4>1, <4>2, SizesAssumption DEF Ahead
    <3> QED
      BY <3>1, <3>2
  <2>3. CASE TickPass /\ CountSecond
    BY <2>3 DEF TickPass, CountSecond, Ahead
  <2>4. CASE app_app_time_adj_main
    <3>1. ASSUME tracked' # "no" PROVE clock'.s = clock.s /\ tracked' = tracked
      BY <2>4, <3>1 DEF app_app_time_adj_main, Fresh, Time
    <3>2. ref' = ref /\ meas_delta' = meas_delta /\ adj_s' = adj_s
      BY <2>4 DEF app_app_time_adj_main
    <3> QED
      BY <3>1, <3>2 DEF Ahead
  <2>5. CASE adj_enter \/ time_set \/ GiveUp \/ UNCHANGED vars
    BY <2>5 DEF adj_enter, time_set, GiveUp, vars, time, setting, Ahead
  <2>6. CASE adj_time_leave
    BY <2>6 DEF adj_time_leave
  <2>7. CASE cal_meas
    <3>1. ref' = 0 /\ clock' = clock /\ tracked' \in {"no", "measured"}
      BY <2>7 DEF cal_meas, time
    <3>2. ASSUME tracked' = "measured"
          PROVE  clock.s - meas_delta' \in {0, Seconds}
      BY <2>0, <2>7, <3>2, SizesAssumption DEF cal_meas, Fresh, Deviation
    <3>3. ASSUME tracked' = "measured" PROVE meas_delta' \in -MaxDelta..MaxDelta
      <4>1. Deviation(timedate_l.s) \in Int
        BY <2>0, SizesAssumption DEF Deviation
      <4> QED
        BY <2>7, <3>3, <4>1, SizesAssumption DEF cal_meas, Abs
    <3> QED
      BY <2>0, <3>1, <3>2, <3>3, SizesAssumption DEF Ahead
  <2>8. CASE do_adj
    <3>1. clock' = clock /\ ref' = ref /\ meas_delta' = meas_delta
      BY <2>8 DEF do_adj, time
    <3>2. tracked' = "no" \/ (tracked' = "requested" /\ Ahead)
      BY <2>8 DEF do_adj
    <3>3. Ahead => adj_s' = -meas_delta
      BY <2>8, SizesAssumption DEF do_adj, Correction, Abs, Ahead
    <3> QED
      BY <3>1, <3>2, <3>3 DEF Ahead
  <2> QED
    BY <2>1, <2>2, <2>3, <2>4, <2>5, <2>6, <2>7, <2>8 DEF Next, Key, TickPass
<1>3. Tracking => InStep
  BY DEF Tracking, InStep
<1> QED
  BY <1>1, <1>2, <1>3, TypeCorrect, PTL DEF Spec

-----------------------------------------------------------------------------
(* The seconds since the time was set.  The tick that counts a second comes *)
(* once between two seconds of the chip: the count is ahead by one more     *)
(* once it has come.                                                        *)

Counted == IF div = 0 THEN quarter = TicksPerSecond ELSE div <= quarter
Lead == IF Counted THEN 1 ELSE 0
Phase ==
    /\ seconds_since_last_set - elapsed \in 0..Lead + 1
    /\ seconds_since_last_set < SinceLimit => seconds_since_last_set - elapsed >= Lead

\* The seconds that a deviation is divided by are those since the time was set
\* or corrected, and at most two more: in whichever phase the prescaler was.
THEOREM CountsSinceSet == Spec => []SinceSetExact
<1>1. Init => Phase
  BY SizesAssumption DEF Init, Phase, Lead
<1>2. TypeOK /\ Phase /\ [Next]_vars => Phase'
  <2> SUFFICES ASSUME TypeOK, Phase, [Next]_vars PROVE Phase'
    OBVIOUS
  <2> USE SizesAssumption DEF TypeOK, Phase, Lead
  <2>1. CASE Second
    <3>1. Counted /\ ~Counted'
      BY <2>1 DEF Second, Counted
    <3>2. seconds_since_last_set' = seconds_since_last_set /\ elapsed' = Capped(elapsed + 1)
      BY <2>1 DEF Second
    <3> QED
      BY <3>1, <3>2 DEF Capped
  <2>2. CASE TickPass
    <3>1. quarter < TicksPerSecond /\ quarter' = quarter + 1 /\ div' = Succ(div, TicksPerSecond)
      BY <2>2, DivNext DEF TickPass
    <3>2. Counted' <=> (div = 0 \/ Counted)
      BY <3>1 DEF Counted, Succ
    <3>3. div = 0 => ~Counted
      BY <3>1 DEF Counted
    <3>4. CASE Correct
      BY <3>4 DEF Correct, Since_Reset
    <3>5. CASE CountSecond
      <4>1. elapsed' = elapsed
        BY <3>5 DEF CountSecond
      <4>2. CASE div = 0
        <5>1. ~Counted /\ Counted'
          BY <3>2, <3>3, <4>2
        <5>2. seconds_since_last_set' = Capped(seconds_since_last_set + 1)
          BY <3>5, <4>2 DEF CountSecond
        <5> QED
          BY <4>1, <5>1, <5>2 DEF Capped
      <4>3. CASE div # 0
        <5>1. Counted' <=> Counted
          BY <3>2, <4>3
        <5>2. seconds_since_last_set' = seconds_since_last_set
          BY <3>5, <4>3 DEF CountSecond
        <5> QED
          BY <4>1, <5>1, <5>2
      <4> QED
        BY <4>2, <4>3
    <3> QED
      BY <2>2, <3>4, <3>5 DEF TickPass
  <2>3. CASE adj_time_leave
    BY <2>3 DEF adj_time_leave, Since_Reset
  <2>4. CASE app_app_time_adj_main
    BY <2>4 DEF app_app_time_adj_main, setting, Counted
  <2>5. CASE adj_enter \/ time_set \/ GiveUp \/ cal_meas \/ do_adj \/ UNCHANGED vars
    BY <2>5 DEF adj_enter, time_set, GiveUp, cal_meas, do_adj, vars, time, setting, Counted
  <2> QED
    BY <2>1, <2>2, <2>3, <2>4, <2>5 DEF Next, Key
<1>3. Phase => SinceSetExact
  BY DEF Phase, Lead, SinceSetExact
<1> QED
  BY <1>1, <1>2, <1>3, TypeCorrect, PTL DEF Spec
=============================================================================
