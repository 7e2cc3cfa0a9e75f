------------------------------- MODULE Debounce -------------------------------
(***************************************************************************)
(* The debouncer of target/hal/button.c in detail: what MainLoop takes for *)
(* an interrupt that may find any buttons down.  Here the loop is the      *)
(* general part: it may call the functions that test and clear a latch at  *)
(* any time.                                                               *)
(*                                                                         *)
(* A timer samples the pins about 100 times a second.  It stops after some *)
(* time in which no button was down; another one, 16 times a second,       *)
(* starts it again.                                                        *)
(***************************************************************************)
EXTENDS MainLoop

CONSTANTS
    REPEAT_START, REPEAT_NEXT,   \* samples: 50, 20
    DEB_RUNTIME,                 \* samples: 500
    PollEvery                    \* samples between two polls, at most: 7

ASSUME DebounceAssumption ==
    /\ {REPEAT_START, REPEAT_NEXT} \subseteq 2..255
    /\ {DEB_RUNTIME, PollEvery} \subseteq Nat \ {0}

VARIABLES
    pins,          \* the buttons that are pressed, bouncing
    ct0, ct1,      \* the two bits of each button's counter
    rpt,           \* the counter of the repetition, one for all
    debrun,
    ta1,           \* the sampling timer runs
    since_poll,    \* samples since the last poll
    \* history:
    seen,          \* a poll has found a button down since the first went down
    missed,        \* no poll has since the last press that none found
    differs,       \* samples in a row that differed from the state
    held           \* samples in a row with a button down, and after the first
                   \* repetition those since a repetition, counted on from it

deb_vars == <<pins, ct0, ct1, rpt, debrun, ta1, since_poll, seen, missed,
              differs, held>>
loop_vars == <<flags, pc, btn, mask, ev, confirmed, history>>

DebInit ==
    /\ pins = {}
    /\ ct0 = Buttons /\ ct1 = Buttons   \* 0xFF
    /\ rpt = 0 /\ debrun = 0 /\ ta1 = FALSE
    /\ since_poll = 0 /\ seen = FALSE /\ missed = FALSE
    /\ differs = [b \in Buttons |-> 0] /\ held = 0

-----------------------------------------------------------------------------
Xor(S, T) == (S \ T) \union (T \ S)
Not(S) == Buttons \ S

\* A byte of bits is a set of buttons.
Changed == Xor(button_state, pins)
Ct0 == Not(ct0 \intersect Changed)

\* (mutant: the second bit is not cleared when a sample agrees)
Ct1_Kept == Xor(Ct0, ct1)

Ct1 == Xor(Ct0, ct1 \intersect Changed)

\* The buttons that change: the counters have gone round.
Debounced == Changed \intersect Ct0 \intersect Ct1

StateAfter == Xor(button_state, Debounced)

\* (mutant: the two times are confused)
RptBefore_Next == IF StateAfter = {} THEN REPEAT_NEXT ELSE rpt

RptBefore == IF StateAfter = {} THEN REPEAT_START ELSE rpt
Rpt == (RptBefore - 1) % 256

FirstRepeat == REPEAT_START - 1

\* Stopping the timer leaves the counters as they are.
Sample ==
    /\ ta1 /\ since_poll < PollEvery
    /\ Latch(StateAfter, Rpt = 0)
    /\ ct0' = Ct0 /\ ct1' = Ct1
    /\ rpt' = IF Rpt = 0 THEN REPEAT_NEXT ELSE Rpt
    /\ debrun' = IF debrun < DEB_RUNTIME THEN debrun + 1 ELSE debrun
    /\ ta1' = (debrun < DEB_RUNTIME)
    /\ since_poll' = since_poll + 1
    /\ differs' = [b \in Buttons |->
           IF b \in Changed /\ b \notin Debounced THEN differs[b] + 1 ELSE 0]
    /\ held' = IF button_state' = {} THEN 0
               ELSE IF held = FirstRepeat + REPEAT_NEXT - 1 THEN FirstRepeat ELSE held + 1
    /\ UNCHANGED <<pins, seen, missed, loop_vars>>

\* Both timers count the same clock: the polls are 6 or 7 samples apart, fewer
\* if the samples stop in between.
PollDue == ta1 => since_poll >= PollEvery - 1

\* (mutant: the time for which samples are made is not started again)
TimerA3_1_ISR_NotRestarted ==
    /\ PollDue /\ since_poll' = 0
    /\ IF pins # {}
       THEN ta1' = TRUE /\ seen' = TRUE /\ missed' = FALSE /\ UNCHANGED debrun
       ELSE UNCHANGED <<ta1, debrun, seen, missed>>
    /\ UNCHANGED <<latches, loop_vars, pins, ct0, ct1, rpt, differs, held>>

\* 16 times a second: samples are made again, or for longer.
TimerA3_1_ISR ==
    /\ PollDue /\ since_poll' = 0
    /\ IF pins # {}
       THEN ta1' = TRUE /\ debrun' = 0 /\ seen' = TRUE /\ missed' = FALSE
       ELSE UNCHANGED <<ta1, debrun, seen, missed>>
    /\ UNCHANGED <<latches, loop_vars, pins, ct0, ct1, rpt, differs, held>>

\* The buttons are pressed and released, and bounce.
Bounce ==
    /\ pins' \in SUBSET Buttons
    /\ seen' = (seen /\ pins' # {})
    /\ missed' = (missed \/ (pins # {} /\ pins' = {} /\ ~seen))
    /\ UNCHANGED <<latches, loop_vars, ct0, ct1, rpt, debrun, ta1, since_poll, differs, held>>

\* get_button_press and get_button_rpt, whatever for.
LoopTakes(m) ==
    /\ button_press' = button_press \ m /\ button_rpt' = button_rpt \ m
    /\ UNCHANGED <<button_state, loop_vars, deb_vars>>

DebNext ==
    \/ Sample \/ TimerA3_1_ISR \/ Bounce
    \/ \E m \in SUBSET Buttons : LoopTakes(m)

DebSpec == Init /\ DebInit /\ [][DebNext]_<<vars, deb_vars>>

-----------------------------------------------------------------------------
(* Properties.                                                             *)

\* A button changes its state with the fourth sample in a row that differs
\* from it, and with no other: bounces of one button, the other's bounces and
\* the stops of the timer in between neither shorten nor lengthen the count.
FourthSampleCounts ==
    [][Sample => \A b \in Buttons :
          (b \in button_state') # (b \in button_state)
              <=> b \in Changed /\ differs[b] = 3]_deb_vars

\* The buttons that are down are latched for a repetition with the sample that
\* completes the time to the first one, counted from when the first of them went
\* down, with every sample that completes the time to the next, and with no
\* other: a second button shares the time of the first, a tap alone is never
\* taken for a long press, and taking the latches or stopping the samples moves
\* nothing.
RepeatsInTime ==
    [][Sample => button_rpt' = IF held' = FirstRepeat
                               THEN button_rpt \union button_state' ELSE button_rpt]_deb_vars

\* Once the pins keep still the state follows them, unless the last press was
\* over before a poll could find it: the sampling timer is started for every
\* press that a poll finds, and does not stop before its release is through,
\* whatever taps and bounces went before that no poll found.  The release of one
\* that only the samples of an earlier press have found may be slept through.
Settles == <>[][pins' = pins]_pins => <>[](button_state = pins \/ missed)
===============================================================================
