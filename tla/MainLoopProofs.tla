--------------------------- MODULE MainLoopProofs ---------------------------
(***************************************************************************)
(* Type correctness of MainLoop, and the proof that an event holds only    *)
(* presses and ticks that happened, for every number of buttons; then the  *)
(* debouncer, for every number of buttons and all its times; last what     *)
(* becomes of an event in svc_main_proc.                                   *)
(***************************************************************************)
EXTENDS Debounce, Dispatch, TLAPS

USE NButtonsAssumption

-----------------------------------------------------------------------------
(* Type correctness.                                                       *)

LEMMA FirstButtonIsButton == FirstButton \in Buttons
  BY DEF FirstButton, Buttons, ALARM

LEMMA NoEventType == NoEvent \in Events
  BY DEF NoEvent, Events

LEMMA ExitType == TypeOK /\ LPM3_EXIT => pc' \in Labels /\ btn' \in Buttons /\ ev' \in Events
<1> SUFFICES ASSUME TypeOK, LPM3_EXIT
             PROVE  pc' \in Labels /\ btn' \in Buttons /\ ev' \in Events
  OBVIOUS
<1>1. CASE pc = "asleep"
  BY <1>1, FirstButtonIsButton, NoEventType DEF LPM3_EXIT, Labels
<1>2. CASE pc # "asleep"
  BY <1>2 DEF TypeOK, LPM3_EXIT
<1> QED
  BY <1>1, <1>2

\* The variables of MainLoop keep their types, whatever the interleaving.
THEOREM TypeCorrect == Spec => []TypeOK
<1>1. Init => TypeOK
  BY FirstButtonIsButton, NoEventType DEF Init, TypeOK, Labels
<1>2. TypeOK /\ [Next]_vars => TypeOK'
  <2> SUFFICES ASSUME TypeOK, [Next]_vars PROVE TypeOK'
    OBVIOUS
  <2>1. CASE TimerA1_1_ISR
    BY <2>1, ExitType DEF TypeOK, TimerA1_1_ISR, Latch, flags
  <2>2. CASE RTC_ISR
    BY <2>2, ExitType DEF TypeOK, RTC_ISR, latches
  <2>3. CASE TimerA2_1_ISR
    BY <2>3, ExitType DEF TypeOK, TimerA2_1_ISR, latches, history
  <2>4. CASE ReadState
    BY <2>4 DEF TypeOK, ReadState, At, Goto, latches, flags, history, Labels
  <2>5. CASE TakeShort
    <3>1. ev' \in Events
      BY <2>5 DEF TypeOK, TakeShort, Events
    <3>2. btn' \in Buttons /\ pc' \in Labels
      BY <2>5 DEF TypeOK, TakeShort, Goto, Labels, Buttons
    <3>3. confirmed' \in BOOLEAN
      <4>1. CASE confirmed
        BY <2>5, <4>1 DEF TypeOK, TakeShort
      <4>2. CASE ~confirmed
        BY <2>5, <4>2 DEF TypeOK, TakeShort
      <4> QED
        BY <4>1, <4>2
    <3> QED
      BY <2>5, <3>1, <3>2, <3>3 DEF TypeOK, TakeShort, Taken, get_button_press, flags
  <2>6. CASE TakeRpt
    BY <2>6 DEF TypeOK, TakeRpt, At, Goto, flags, history, Labels
  <2>7. CASE TakeLong
    BY <2>7 DEF TypeOK, TakeLong, Taken, get_button_press, At, Goto, flags,
                Labels, Buttons, Events
  <2>8. CASE ReadTick
    BY <2>8 DEF TypeOK, ReadTick, At, Goto, latches, flags, history, Labels, Events
  <2>9. CASE ReadAux
    BY <2>9 DEF TypeOK, ReadAux, At, Goto, latches, flags, history, Labels, Events
  <2>10. CASE MainProc
    BY <2>10 DEF TypeOK, MainProc, At, Goto, latches, flags, Labels
  <2>11. CASE ClearTick
    BY <2>11 DEF TypeOK, ClearTick, At, Goto, latches, history, Labels
  <2>12. CASE ClearAux
    BY <2>12 DEF TypeOK, ClearAux, At, Goto, latches, history, Labels
  <2>13. CASE LPM3
    BY <2>13 DEF TypeOK, LPM3, At, Goto, latches, flags, history, Labels
  <2>14. CASE UNCHANGED vars
    BY <2>14 DEF TypeOK, vars, latches, flags, history
  <2> QED
    BY <2>1, <2>2, <2>3, <2>4, <2>5, <2>6, <2>7, <2>8, <2>9, <2>10, <2>11,
       <2>12, <2>13, <2>14 DEF Next, Main, ISR
<1> QED
  BY <1>1, <1>2, PTL DEF Spec

-----------------------------------------------------------------------------
(* What can be taken was not taken before: the latches and the history     *)
(* change together.                                                        *)

LatchedOnce == button_press \subseteq unreported

LEMMA TakesOnlyLatched ==
    ASSUME TypeOK, LatchedOnce, [Next]_vars
    PROVE  (ev'.short \ ev.short) \union (ev'.long \ ev.long) \subseteq unreported
<1> DEFINE Added == (ev'.short \ ev.short) \union (ev'.long \ ev.long)
<1>1. CASE TakeShort \/ TakeLong
  BY <1>1 DEF TypeOK, LatchedOnce, TakeShort, TakeLong, Events
<1>2. CASE ev' = NoEvent
  BY <1>2 DEF NoEvent
<1>3. CASE ReadTick \/ ReadAux
  BY <1>3 DEF TypeOK, ReadTick, ReadAux, Events
<1>4. CASE ev' = ev
  BY <1>4
<1>5. TimerA1_1_ISR \/ RTC_ISR \/ TimerA2_1_ISR => ev' = NoEvent \/ ev' = ev
  BY DEF TimerA1_1_ISR, RTC_ISR, TimerA2_1_ISR, LPM3_EXIT
<1>6. ReadState \/ TakeRpt \/ MainProc \/ ClearTick \/ ClearAux \/ LPM3
        \/ UNCHANGED vars => ev' = ev
  BY DEF ReadState, TakeRpt, MainProc, ClearTick, ClearAux, LPM3, vars
<1> QED
  BY <1>1, <1>2, <1>3, <1>4, <1>5, <1>6 DEF Next, Main, ISR

LEMMA LatchedOnceKept ==
    ASSUME LatchedOnce, [Next]_vars
    PROVE  LatchedOnce'
<1>1. CASE TimerA1_1_ISR
  BY <1>1 DEF LatchedOnce, TimerA1_1_ISR, Latch
<1>2. CASE TakeShort \/ TakeLong
  BY <1>2 DEF LatchedOnce, TakeShort, TakeLong, Taken, get_button_press
<1>3. RTC_ISR \/ TimerA2_1_ISR \/ ReadState \/ TakeRpt \/ ReadTick \/ ReadAux \/ MainProc
        \/ ClearTick \/ ClearAux \/ LPM3 \/ UNCHANGED vars
        => UNCHANGED <<button_press, unreported>>
  BY DEF RTC_ISR, TimerA2_1_ISR, ReadState, TakeRpt, ReadTick, ReadAux, MainProc,
         ClearTick, ClearAux, LPM3, vars, latches, history
<1> QED
  BY <1>1, <1>2, <1>3 DEF Next, Main, ISR, LatchedOnce

\* Each press enters at most one event, for any number of buttons.
THEOREM PressesAreReal == Spec => NoPhantomPress
<1>1. Init => LatchedOnce
  BY DEF Init, LatchedOnce
<1>2. LatchedOnce /\ [Next]_vars => LatchedOnce'
  BY LatchedOnceKept
<1>3. TypeOK /\ LatchedOnce /\ [Next]_vars
      => [(ev'.short \ ev.short) \union (ev'.long \ ev.long) \subseteq unreported]_vars
  BY TakesOnlyLatched
<1> QED
  BY <1>1, <1>2, <1>3, TypeCorrect, PTL DEF Spec, NoPhantomPress

-----------------------------------------------------------------------------
(* Ticks.  NoPhantomTick speaks of one program point.  To carry it there,  *)
(* the invariant says when a raised flag may belong to a tick already      *)
(* served: only between the handling of the event and the clearing of the  *)
(* flag, and then the event held a tick, so that the flag is cleared.      *)

StaleFlag == tick_event /\ ~unserved => At("clear_tick") /\ ev.tick
SampledTick == At("aux") \/ At("svc_main_proc") => (ev.tick => unserved)
TickInv == StaleFlag /\ SampledTick

LEMMA TickInvKept ==
    ASSUME TypeOK, TickInv, [Next]_vars
    PROVE  TickInv'
<1> USE DEF TickInv, StaleFlag, SampledTick, At
<1>1. CASE RTC_ISR
  BY <1>1 DEF RTC_ISR, LPM3_EXIT
<1>2. CASE TimerA1_1_ISR \/ TimerA2_1_ISR
  BY <1>2 DEF TimerA1_1_ISR, TimerA2_1_ISR, LPM3_EXIT, flags, history
<1>3. CASE ReadState
  BY <1>3 DEF ReadState, Goto, flags, history
<1>4. CASE TakeShort
  BY <1>4 DEF TakeShort, Goto, flags
<1>5. CASE TakeRpt \/ LPM3 \/ ClearAux
  BY <1>5 DEF TakeRpt, LPM3, ClearAux, Goto, flags, history
<1>6. CASE TakeLong
  BY <1>6 DEF TakeLong, Goto, flags
<1>7. CASE ReadTick
  BY <1>7 DEF ReadTick, Goto, flags, history, TypeOK, Events
<1>8. CASE ReadAux
  BY <1>8 DEF ReadAux, Goto, flags, history, TypeOK, Events
<1>9. CASE MainProc
  BY <1>9 DEF MainProc, Goto, flags, TypeOK, Events
<1>10. CASE ClearTick
  BY <1>10 DEF ClearTick, Goto, history
<1>11. CASE UNCHANGED vars
  BY <1>11 DEF vars, flags, history
<1> QED
  BY <1>1, <1>2, <1>3, <1>4, <1>5, <1>6, <1>7, <1>8, <1>9, <1>10, <1>11
     DEF Next, Main, ISR

\* No tick is handled that was not raised since the last one was handled,
\* although the interrupt may come anywhere between reading and clearing.
THEOREM TicksAreReal == Spec => []NoPhantomTick
<1>1. Init => TickInv
  BY DEF Init, TickInv, StaleFlag, SampledTick, At
<1>2. TypeOK /\ TickInv /\ [Next]_vars => TickInv'
  BY TickInvKept
<1>3. TickInv => NoPhantomTick
  BY DEF TickInv, SampledTick, NoPhantomTick
<1> QED
  BY <1>1, <1>2, <1>3, TypeCorrect, PTL DEF Spec

-----------------------------------------------------------------------------
(* The debouncer.  The two bits of a button count, from both set, the      *)
(* samples in a row that differed from its state.                          *)

Bits(b, in0, in1) == (b \in ct0 <=> in0) /\ (b \in ct1 <=> in1)

Counts(b) ==
    /\ differs[b] = 0 => Bits(b, TRUE, TRUE)
    /\ differs[b] = 1 => Bits(b, FALSE, TRUE)
    /\ differs[b] = 2 => Bits(b, TRUE, FALSE)
    /\ differs[b] = 3 => Bits(b, FALSE, FALSE)

CounterInv ==
    /\ button_state \subseteq Buttons /\ pins \subseteq Buttons
    /\ differs \in [Buttons -> 0..3]
    /\ \A b \in Buttons : Counts(b)

\* A button's counters have gone round exactly when a fourth sample differs.
LEMMA GoneRound ==
    ASSUME CounterInv, NEW b \in Buttons
    PROVE  b \in Debounced <=> b \in Changed /\ differs[b] = 3
<1>1. /\ b \in Ct0 <=> ~(b \in ct0 /\ b \in Changed)
      /\ b \in Ct1 <=> ~(b \in Ct0 <=> b \in ct1 /\ b \in Changed)
  BY DEF Ct0, Ct1, Xor, Not
<1>2. Counts(b) /\ differs[b] \in 0..3
  BY DEF CounterInv
<1> QED BY <1>1, <1>2 DEF Debounced, Counts, Bits

\* A sample moves each counter on by one, or sets it back.
LEMMA CounterStep ==
    ASSUME CounterInv, Sample
    PROVE  CounterInv'
<1>1. button_state' \subseteq Buttons /\ pins' \subseteq Buttons
  BY DEF CounterInv, Sample, Latch, StateAfter, Xor, Debounced, Changed
<1>2. ASSUME NEW b \in Buttons PROVE differs'[b] \in 0..3 /\ Counts(b)'
  <2>1. /\ b \in Ct0 <=> ~(b \in ct0 /\ b \in Changed)
        /\ b \in Ct1 <=> ~(b \in Ct0 <=> b \in ct1 /\ b \in Changed)
    BY DEF Ct0, Ct1, Xor, Not
  <2>2. Counts(b) /\ differs[b] \in 0..3
    BY DEF CounterInv
  <2>3. differs'[b] = IF b \in Changed /\ b \notin Debounced THEN differs[b] + 1 ELSE 0
    BY DEF Sample
  <2>4. ct0' = Ct0 /\ ct1' = Ct1
    BY DEF Sample
  <2> QED BY <2>1, <2>2, <2>3, <2>4, GoneRound DEF Counts, Bits
<1>3. differs' \in [Buttons -> 0..3]
  BY <1>2 DEF Sample
<1> QED BY <1>1, <1>2, <1>3 DEF CounterInv

LEMMA CounterInvStep == CounterInv /\ [DebNext]_<<vars, deb_vars>> => CounterInv'
<1> SUFFICES ASSUME CounterInv, [DebNext]_<<vars, deb_vars>> PROVE CounterInv'
  OBVIOUS
<1>1. CASE Sample
  BY <1>1, CounterStep
<1>2. CASE ~Sample
  <2>1. UNCHANGED <<button_state, ct0, ct1, differs>> /\ pins' \subseteq Buttons
    BY <1>2 DEF CounterInv, DebNext, TimerA3_1_ISR, Bounce, LoopTakes, latches,
       deb_vars, vars
  <2> QED BY <2>1 DEF CounterInv, Counts, Bits
<1> QED BY <1>1, <1>2

LEMMA CounterInvInit == Init /\ DebInit => CounterInv
  BY DEF Init, DebInit, CounterInv, Counts, Bits

\* A button changes its state with the fourth differing sample and no other,
\* for any number of buttons (button.c, the vertical counters).
THEOREM FourSamples == DebSpec => FourthSampleCounts
<1>1. ASSUME CounterInv, Sample, NEW b \in Buttons
      PROVE  (b \in button_state') # (b \in button_state)
                <=> b \in Changed /\ differs[b] = 3
  <2>1. b \in Debounced <=> b \in Changed /\ differs[b] = 3
    BY <1>1, GoneRound
  <2>2. b \in button_state' <=> ~(b \in button_state <=> b \in Debounced)
    BY <1>1 DEF Sample, Latch, StateAfter, Xor
  <2> QED BY <2>1, <2>2
<1>2. CounterInv /\ [DebNext]_<<vars, deb_vars>>
      => [Sample => \A b \in Buttons :
             (b \in button_state') # (b \in button_state)
                 <=> b \in Changed /\ differs[b] = 3]_deb_vars
  BY <1>1
<1> QED BY <1>2, CounterInvInit, CounterInvStep, PTL DEF DebSpec, FourthSampleCounts

-----------------------------------------------------------------------------
(* The repetition.  While no button is down the counter stands one below   *)
(* its start, except before the first sample, which cannot find one down;  *)
(* then it and the samples held add up to the same until the first         *)
(* repetition, and to the same again between two.                          *)

RepeatInv ==
    /\ held \in 0..FirstRepeat + REPEAT_NEXT - 1
    /\ button_state = {} =>
          held = 0 /\ (rpt = FirstRepeat \/ \A b \in Buttons : differs[b] = 0)
    /\ button_state # {} /\ held < FirstRepeat => rpt = FirstRepeat - held
    /\ button_state # {} /\ held >= FirstRepeat =>
          rpt = FirstRepeat + REPEAT_NEXT - held

LEMMA RepeatStep ==
    ASSUME CounterInv, RepeatInv, Sample
    PROVE  /\ RepeatInv'
           /\ button_rpt' = IF held' = FirstRepeat
                            THEN button_rpt \union button_state' ELSE button_rpt
<1> USE DebounceAssumption
<1>1. /\ button_state' = StateAfter
      /\ button_rpt' = IF Rpt = 0 THEN button_rpt \union StateAfter ELSE button_rpt
      /\ rpt' = IF Rpt = 0 THEN REPEAT_NEXT ELSE Rpt
      /\ held' = IF StateAfter = {} THEN 0
                 ELSE IF held = FirstRepeat + REPEAT_NEXT - 1 THEN FirstRepeat ELSE held + 1
  BY DEF Sample, Latch
<1>2. /\ FirstRepeat \in 1..254 /\ REPEAT_NEXT \in 2..255
      /\ held \in 0..FirstRepeat + REPEAT_NEXT - 1
  BY DEF RepeatInv, FirstRepeat
<1>3. CASE StateAfter = {}
  <2>1. Rpt = FirstRepeat
    BY <1>2, <1>3 DEF Rpt, RptBefore, FirstRepeat
  <2> QED BY <1>1, <1>2, <1>3, <2>1 DEF RepeatInv
<1>4. CASE StateAfter # {}
  <2>1. /\ held < FirstRepeat => rpt = FirstRepeat - held
        /\ held >= FirstRepeat => rpt = FirstRepeat + REPEAT_NEXT - held
    <3>1. CASE button_state # {}
      BY <3>1 DEF RepeatInv
    <3>2. CASE button_state = {}
      <4>1. PICK b \in Buttons : b \in Debounced
        BY <1>4, <3>2 DEF StateAfter, Xor, Debounced, Ct0, Not
      <4>2. differs[b] = 3
        BY <4>1, GoneRound
      <4> QED BY <1>2, <3>2, <4>2 DEF RepeatInv
    <3> QED BY <3>1, <3>2
  <2>2. Rpt = rpt - 1
    BY <1>2, <1>4, <2>1 DEF Rpt, RptBefore
  <2>3. CASE held < FirstRepeat
    <3>1. held' = held + 1 /\ Rpt = FirstRepeat - held'
      BY <1>1, <1>2, <1>4, <2>1, <2>2, <2>3
    <3> QED BY <1>1, <1>2, <1>4, <2>3, <3>1 DEF RepeatInv
  <2>4. CASE held >= FirstRepeat
    <3>1. Rpt = FirstRepeat + REPEAT_NEXT - 1 - held
      BY <1>2, <2>1, <2>2, <2>4
    <3> QED BY <1>1, <1>2, <1>4, <2>4, <3>1 DEF RepeatInv
  <2> QED BY <1>2, <2>3, <2>4
<1> QED BY <1>3, <1>4

LEMMA RepeatInvStep ==
    CounterInv /\ RepeatInv /\ [DebNext]_<<vars, deb_vars>> => RepeatInv'
<1> SUFFICES ASSUME CounterInv, RepeatInv, [DebNext]_<<vars, deb_vars>>
             PROVE  RepeatInv'
  OBVIOUS
<1>1. CASE Sample
  BY <1>1, RepeatStep
<1>2. CASE ~Sample
  <2>1. UNCHANGED <<button_state, rpt, differs, held>>
    BY <1>2 DEF DebNext, TimerA3_1_ISR, Bounce, LoopTakes, latches, deb_vars, vars
  <2> QED BY <2>1 DEF RepeatInv
<1> QED BY <1>1, <1>2

\* The repetition is latched with the samples that complete the time to the
\* first and to each next repetition, and with no other, for any number of
\* buttons and any two times: the buttons that are down share one counter, so
\* one pressed while another is held is repeated with it (button.c, repeat).
THEOREM RepeatsOnTime == DebSpec => RepeatsInTime
<1>1. Init /\ DebInit => RepeatInv
  <2>1. FirstRepeat \in 1..254 /\ REPEAT_NEXT \in 2..255
    BY DebounceAssumption DEF FirstRepeat
  <2> QED BY <2>1 DEF Init, DebInit, RepeatInv
<1>2. CounterInv /\ RepeatInv /\ [DebNext]_<<vars, deb_vars>>
      => [Sample => button_rpt' = IF held' = FirstRepeat
                                  THEN button_rpt \union button_state' ELSE button_rpt]_deb_vars
  BY RepeatStep
<1> QED BY <1>1, <1>2, CounterInvInit, CounterInvStep, RepeatInvStep, PTL
        DEF DebSpec, RepeatsInTime

-----------------------------------------------------------------------------
(* Dispatch.  The safety of svc_main_proc, to which the loop hands an      *)
(* event, for all apps and views, whichever of them have enter handlers,   *)
(* and for every idle time.                                                *)

USE AppsAssumption, TimesAssumption

-----------------------------------------------------------------------------
(* Types.  outcome, mained and went_home only report on the last call; the *)
(* invariant is about the rest.                                            *)

StateOK ==
    /\ app_current \in Apps /\ app_current_next \in Apps
    /\ view_current \in [Apps -> UNION {Views[a] : a \in Apps}]
    /\ \A a \in Apps : view_current[a] \in Views[a]
    /\ div \in 0..3 /\ time_idle \in 0..IdleValues - 1
    /\ keypress \in BOOLEAN /\ app_view_changed \in BOOLEAN

LEMMA ViewsType ==
    ASSUME NEW a \in Apps
    PROVE  Views[a] \subseteq UNION {Views[b] : b \in Apps}
  OBVIOUS

LEMMA HomeType ==
    ASSUME StateOK, NEW e
    PROVE  /\ NextApp(e) \in Apps
           /\ ViewsAfterHome(e) \in [Apps -> UNION {Views[a] : a \in Apps}]
           /\ \A a \in Apps : ViewsAfterHome(e)[a] \in Views[a]
<1>1. NextApp(e) \in Apps
  BY DEF StateOK, NextApp
<1>2. CASE HomeView(e)
  <2>1. Display \in UNION {Views[a] : a \in Apps}
    BY ViewsType
  <2> QED BY <1>1, <1>2, <2>1 DEF StateOK, ViewsAfterHome
<1>3. CASE ~HomeView(e)
  BY <1>1, <1>3 DEF StateOK, ViewsAfterHome
<1> QED BY <1>2, <1>3

\* What the app does with a key leaves every app one of its views.
LEMMA AppType ==
    ASSUME StateOK, NEW e, CallApp(e) \/ SkipApp(e)
    PROVE  /\ app_current' \in Apps /\ app_current_next' \in Apps
           /\ view_current' \in [Apps -> UNION {Views[a] : a \in Apps}]
           /\ \A a \in Apps : view_current'[a] \in Views[a]
<1> DEFINE app == NextApp(e)
           views == ViewsAfterHome(e)
<1>1. /\ app \in Apps
      /\ views \in [Apps -> UNION {Views[a] : a \in Apps}]
      /\ \A a \in Apps : views[a] \in Views[a]
  BY HomeType
<1>2. app_current' \in {app, app_current}
  BY DEF CallApp, SkipApp
<1>3. \/ view_current' = views
      \/ \E v \in Views[app] : view_current' = [views EXCEPT ![app] = v]
  BY DEF CallApp, SkipApp, HandleKey
<1>4. app_current_next' \in Apps
  BY <1>1 DEF CallApp, SkipApp, HandleKey
<1> HIDE DEF app, views
<1>5. ASSUME NEW v \in Views[app], view_current' = [views EXCEPT ![app] = v]
      PROVE  /\ view_current' \in [Apps -> UNION {Views[a] : a \in Apps}]
             /\ \A a \in Apps : view_current'[a] \in Views[a]
  <2>1. v \in UNION {Views[a] : a \in Apps}
    BY <1>1, ViewsType
  <2> QED BY <1>1, <1>5, <2>1
<1> QED BY <1>1, <1>2, <1>3, <1>4, <1>5 DEF StateOK

LEMMA FlagType ==
    ASSUME StateOK, NEW e \in DispatchEvents, svc_main_proc(e)
    PROVE  keypress' \in BOOLEAN /\ app_view_changed' \in BOOLEAN
<1>1. keypress' \in BOOLEAN
  BY DEF svc_main_proc, KeypressAfter
<1>2. app_view_changed' \in BOOLEAN
  BY DEF svc_main_proc, CallApp, SkipApp, HandleKey, ViewChanged
<1> QED BY <1>1, <1>2

LEMMA StateStep == StateOK /\ [DispatchNext]_dispatch_vars => StateOK'
<1> SUFFICES ASSUME StateOK, [DispatchNext]_dispatch_vars PROVE StateOK'
  OBVIOUS
<1>1. ASSUME NEW e \in DispatchEvents, svc_main_proc(e) PROVE StateOK'
  <2>1. CallApp(e) \/ SkipApp(e)
    BY <1>1 DEF svc_main_proc
  <2>2. div' \in 0..3
    BY <1>1 DEF svc_main_proc, Prescale, StateOK
  <2>3. time_idle' \in 0..IdleValues - 1
    <3>1. (time_idle + 1) % IdleValues \in 0..IdleValues - 1 /\ 0 \in 0..IdleValues - 1
      BY DEF StateOK
    <3> QED BY <1>1, <3>1 DEF svc_main_proc, IdleAfter, StateOK
  <2> QED BY <1>1, <2>1, <2>2, <2>3, AppType, FlagType DEF StateOK
<1>2. CASE UNCHANGED dispatch_vars
  BY <1>2 DEF dispatch_vars, StateOK
<1> QED BY <1>1, <1>2 DEF DispatchNext

LEMMA StateInit == DispatchInit => StateOK
<1> SUFFICES ASSUME DispatchInit PROVE StateOK
  OBVIOUS
<1>1. 0 \in 0..IdleValues - 1 /\ 0 \in 0..3
  OBVIOUS
<1>2. keypress \in BOOLEAN /\ app_view_changed \in BOOLEAN
  BY Zenon DEF DispatchInit
<1> QED BY <1>1, <1>2 DEF DispatchInit, StateOK

\* Every variable keeps its type, for all apps, views and idle times.
THEOREM DispatchTypeCorrect == DispatchSpec => []DispatchTypeOK
<1> DEFINE ReportOK ==
        /\ pending \subseteq Sources
        /\ outcome \in {"none", "eaten", "app", "lost"}
        /\ mained \in Screens \union {Nobody} /\ entered \in Screens \union {Nobody}
        /\ went_home \in BOOLEAN /\ quiet \in 0..TimeToHome
<1>1. DispatchInit => ReportOK
  <2> SUFFICES ASSUME DispatchInit PROVE ReportOK
    OBVIOUS
  <2>1. went_home \in BOOLEAN
    BY Zenon DEF DispatchInit
  <2>2. /\ pending = {} /\ outcome = "none" /\ quiet = 0
        /\ mained = Nobody /\ entered = Nobody
    BY DEF DispatchInit
  <2> QED BY <2>1, <2>2
<1>2. StateOK /\ ReportOK /\ [DispatchNext]_dispatch_vars => ReportOK'
  <2> SUFFICES ASSUME StateOK, ReportOK, [DispatchNext]_dispatch_vars PROVE ReportOK'
    OBVIOUS
  <2>1. ASSUME NEW e \in DispatchEvents, svc_main_proc(e) PROVE ReportOK'
    <3>1. pending' \subseteq Sources
      BY <2>1 DEF svc_main_proc, Acknowledge
    <3>2. outcome' \in {"none", "eaten", "app", "lost"}
      BY <2>1 DEF svc_main_proc
    <3>3. went_home' \in BOOLEAN
      BY <2>1 DEF svc_main_proc, GoHome
    <3>4. quiet' \in 0..TimeToHome
      BY <2>1 DEF svc_main_proc, Capped
    <3>5. mained' \in Screens \union {Nobody} /\ entered' \in Screens \union {Nobody}
      <4> DEFINE screen == <<NextApp(e), ViewsAfterHome(e)[NextApp(e)]>>
      <4>1. screen \in Screens
        BY HomeType DEF Screens
      <4>2. \/ mained' = Nobody /\ entered' = entered
            \/ mained' = screen /\ entered' \in {screen, entered, Nobody}
        BY <2>1 DEF svc_main_proc, CallApp, SkipApp
      <4> HIDE DEF screen
      <4> QED BY <4>1, <4>2
    <3> QED BY <3>1, <3>2, <3>3, <3>4, <3>5
  <2>2. CASE UNCHANGED dispatch_vars
    BY <2>2 DEF dispatch_vars
  <2> QED BY <2>1, <2>2 DEF DispatchNext
<1>3. StateOK /\ ReportOK => DispatchTypeOK
  BY DEF StateOK, DispatchTypeOK
<1> QED BY <1>1, <1>2, <1>3, StateInit, StateStep, PTL DEF DispatchSpec

-----------------------------------------------------------------------------
(* Entering.  While the flag is not set the current view, if it can be     *)
(* entered, is the one entered last.  A launch need not set the flag: the  *)
(* next app then differs from the current one, which counts as a change.   *)

Screen == <<app_current, view_current[app_current]>>

EnterInv ==
    /\ ~app_view_changed /\ Screen \in HasEnter => entered = Screen
    /\ EnteredBeforeMain

LEMMA NobodyIsNoScreen == Nobody \notin HasEnter
<1>1. ASSUME NEW a, NEW v PROVE <<a, v>> # <<>>
  <2>1. 1 \in DOMAIN <<a, v>> /\ 1 \notin DOMAIN <<>>
    OBVIOUS
  <2> QED BY <2>1
<1> QED BY <1>1, EnterAssumption DEF Nobody, Screens

LEMMA EnterStep == StateOK /\ EnterInv /\ [DispatchNext]_dispatch_vars => EnterInv'
<1> SUFFICES ASSUME StateOK, EnterInv, [DispatchNext]_dispatch_vars PROVE EnterInv'
  OBVIOUS
<1>1. ASSUME NEW e \in DispatchEvents, svc_main_proc(e), CallApp(e) PROVE EnterInv'
  <2> DEFINE app == NextApp(e)
             views == ViewsAfterHome(e)
             screen == <<app, views[app]>>
             enters == ViewChanged(e) /\ screen \in HasEnter
  <2>1. screen \in HasEnter => entered' = screen
    <3>1. CASE ViewChanged(e)
      BY <1>1, <3>1 DEF CallApp
    <3>2. CASE ~ViewChanged(e)
      <4>1. app = app_current /\ views = view_current /\ ~app_view_changed
        BY <3>2 DEF ViewChanged, ViewsAfterHome
      <4>2. screen \in HasEnter => entered = screen
        BY <4>1 DEF EnterInv, Screen
      <4>3. ~enters
        BY <3>2
      <4>4. entered' = IF entered = screen THEN entered ELSE Nobody
        BY <1>1, <4>3 DEF CallApp
      <4> QED BY <4>2, <4>4
    <3> QED BY <3>1, <3>2
  <2>2. mained' = screen /\ app_current' = app
    BY <1>1 DEF CallApp
  <2>3. ~app_view_changed' => view_current' = views
    BY <1>1 DEF CallApp, HandleKey
  <2> QED BY <2>1, <2>2, <2>3 DEF EnterInv, EnteredBeforeMain, Screen
<1>2. ASSUME NEW e \in DispatchEvents, svc_main_proc(e), SkipApp(e) PROVE EnterInv'
  <2>1. mained' = Nobody /\ UNCHANGED <<app_current, entered>>
    BY <1>2 DEF SkipApp
  <2>2. Nobody \notin HasEnter
    BY NobodyIsNoScreen
  <2>3. ~app_view_changed' => ~app_view_changed /\ view_current' = view_current
    BY <1>2 DEF SkipApp, ViewsAfterHome
  <2> QED BY <2>1, <2>2, <2>3 DEF EnterInv, EnteredBeforeMain, Screen
<1>3. CASE UNCHANGED dispatch_vars
  BY <1>3 DEF dispatch_vars, EnterInv, EnteredBeforeMain, Screen
<1> QED BY <1>1, <1>2, <1>3 DEF DispatchNext, svc_main_proc

\* No view with an enter handler is run without having been entered since it
\* became current, whichever views have one (svc/main.c, app.c, menu.c).
THEOREM ViewsAreEntered == DispatchSpec => []EnteredBeforeMain
<1>1. DispatchInit => EnterInv
  BY EnterAssumption DEF DispatchInit, EnterInv, EnteredBeforeMain, Nobody, Screens
<1>2. EnterInv => EnteredBeforeMain
  BY DEF EnterInv
<1> QED BY <1>1, <1>2, EnterStep, StateInit, StateStep, PTL DEF DispatchSpec

-----------------------------------------------------------------------------
(* The return home.  A remembered key will set the idle seconds to zero;   *)
(* if none is remembered they are no more than the quiet ones.             *)

IdleInv ==
    /\ quiet \in 0..TimeToHome /\ time_idle \in 0..IdleValues - 1
    /\ keypress \/ quiet >= time_idle \/ quiet = TimeToHome
    /\ NotHomeEarly

LEMMA IdleStep == StateOK /\ IdleInv /\ [DispatchNext]_dispatch_vars => IdleInv'
<1> SUFFICES ASSUME StateOK, IdleInv, [DispatchNext]_dispatch_vars PROVE IdleInv'
  OBVIOUS
<1>1. ASSUME NEW e \in DispatchEvents, svc_main_proc(e) PROVE IdleInv'
  <2>1. /\ time_idle' = IdleAfter(e) /\ time_idle' \in 0..IdleValues - 1
        /\ keypress' = (KeySeen(e) /\ ~Second(e))
        /\ quiet' = IF e.key THEN 0 ELSE IF Second(e) THEN Capped(quiet + 1) ELSE quiet
        /\ went_home' = GoHome(e)
    BY <1>1, StateStep DEF svc_main_proc, KeypressAfter, DispatchNext, StateOK, DispatchEvents
  <2>2. quiet' \in 0..TimeToHome
    BY <2>1 DEF Capped, IdleInv
  <2>3. CASE KeySeen(e)
    <3>1. CASE Second(e) /\ TimeToHome # 0
      <4>1. time_idle' = 0 /\ ~GoHome(e)
        BY <2>1, <2>3, <3>1 DEF IdleAfter, GoHome
      <4> QED BY <2>1, <2>2, <4>1 DEF IdleInv, NotHomeEarly
    <3>2. CASE TimeToHome = 0
      <4>1. quiet' = TimeToHome /\ ~GoHome(e)
        BY <2>2, <3>2 DEF GoHome
      <4> QED BY <2>1, <2>2, <4>1 DEF IdleInv, NotHomeEarly
    <3>3. CASE ~Second(e)
      <4>1. keypress' /\ ~GoHome(e)
        BY <2>1, <2>3, <3>3 DEF GoHome
      <4> QED BY <2>1, <2>2, <4>1 DEF IdleInv, NotHomeEarly
    <3> QED BY <3>1, <3>2, <3>3
  <2>4. CASE ~KeySeen(e)
    <3>1. ~e.key /\ ~keypress
      BY <2>4 DEF KeySeen
    <3>2. quiet >= time_idle \/ quiet = TimeToHome
      BY <3>1 DEF IdleInv
    <3>3. CASE Second(e) /\ TimeToHome # 0
      <4>1. time_idle' = (time_idle + 1) % IdleValues
        BY <2>1, <2>4, <3>3 DEF IdleAfter
      <4>2. time_idle' = time_idle + 1 \/ time_idle' = 0
        BY <4>1 DEF IdleInv
      <4>3. quiet' = IF quiet + 1 > TimeToHome THEN TimeToHome ELSE quiet + 1
        BY <2>1, <3>1, <3>3 DEF Capped
      <4>4. quiet' >= time_idle' \/ quiet' = TimeToHome
        BY <3>2, <4>2, <4>3 DEF IdleInv
      <4>5. GoHome(e) => time_idle' = TimeToHome
        BY <2>1 DEF GoHome
      <4>6. GoHome(e) => quiet' = TimeToHome
        BY <2>2, <4>4, <4>5
      <4> QED BY <2>1, <2>2, <4>4, <4>6 DEF IdleInv, NotHomeEarly
    <3>4. CASE TimeToHome = 0
      <4>1. quiet' = TimeToHome /\ ~GoHome(e)
        BY <2>2, <3>4 DEF GoHome
      <4> QED BY <2>1, <2>2, <4>1 DEF IdleInv, NotHomeEarly
    <3>5. CASE ~Second(e)
      <4>1. time_idle' = time_idle /\ quiet' = quiet /\ ~GoHome(e)
        BY <2>1, <3>1, <3>5 DEF IdleAfter, GoHome
      <4> QED BY <2>1, <2>2, <3>2, <4>1 DEF IdleInv, NotHomeEarly
    <3> QED BY <3>3, <3>4, <3>5
  <2> QED BY <2>3, <2>4
<1>2. CASE UNCHANGED dispatch_vars
  BY <1>2 DEF dispatch_vars, IdleInv, NotHomeEarly
<1> QED BY <1>1, <1>2 DEF DispatchNext

\* When the watch goes home that many seconds have passed since the last key,
\* for every idle time that fits its counter (menu.c).
THEOREM HomeNotEarly == DispatchSpec => []NotHomeEarly
<1>1. DispatchInit => IdleInv
  BY DEF DispatchInit, IdleInv, NotHomeEarly
<1>2. IdleInv => NotHomeEarly
  BY DEF IdleInv
<1> QED BY <1>1, <1>2, IdleStep, StateInit, StateStep, PTL DEF DispatchSpec

-----------------------------------------------------------------------------
(* Acknowledging.                                                          *)

\* A key that comes while somebody waits changes nothing but what the return
\* home would in the same pass, for all apps and views.
THEOREM EatenActsOnce == DispatchSpec => EatenKeyActsOnce
<1> DEFINE Once == pending # {} /\ outcome' # "none" =>
           /\ app_current_next' = app_current_next \/ (went_home' /\ app_current_next' = Time)
           /\ \A a \in Apps : UnchangedOrHome(a)
<1>1. StateOK /\ [DispatchNext]_dispatch_vars => [Once]_dispatch_vars
  <2> SUFFICES ASSUME StateOK, NEW e \in DispatchEvents, svc_main_proc(e),
                      pending # {}, outcome' # "none"
               PROVE  /\ app_current_next' = app_current_next
                         \/ (went_home' /\ app_current_next' = Time)
                      /\ \A a \in Apps : UnchangedOrHome(a)
    BY DEF DispatchNext
  <2>1. Eaten(e)
    BY DEF svc_main_proc, Eaten
  <2>2. went_home' = GoHome(e)
    BY DEF svc_main_proc
  <2>3. view_current' = ViewsAfterHome(e) /\ app_current_next' = NextApp(e)
    BY <2>1 DEF svc_main_proc, CallApp, SkipApp
  <2>4. app_current_next' = app_current_next \/ (went_home' /\ app_current_next' = Time)
    BY <2>2, <2>3 DEF NextApp
  <2>5. ASSUME NEW a \in Apps PROVE UnchangedOrHome(a)
    BY <2>2, <2>3 DEF ViewsAfterHome, HomeView, UnchangedOrHome, StateOK
  <2> QED BY <2>4, <2>5
<1> QED BY <1>1, StateInit, StateStep, PTL DEF DispatchSpec, EatenKeyActsOnce
=============================================================================
