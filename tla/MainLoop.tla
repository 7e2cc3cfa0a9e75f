------------------------------ MODULE MainLoop ------------------------------
(***************************************************************************)
(* The main loop of target/main.c against the interrupts that feed it:     *)
(* the debouncer (button.c), the RTC tick (rtc.c) and the auxiliary timer  *)
(* (aux_timer.c).                                                          *)
(*                                                                         *)
(* The interrupts set latches; the loop samples them one by one into an    *)
(* event, hands the event to svc_main_proc, clears what it sampled and     *)
(* sleeps until an interrupt wakes it.  Interrupts are enabled all along,  *)
(* so each of them may come between any two steps of the loop.  Only the   *)
(* two button functions that test and clear a latch disable them.          *)
(***************************************************************************)
EXTENDS Integers

CONSTANT NButtons    \* LIGHT, MODE and ALARM, in the order they are sampled: 3

ASSUME NButtonsAssumption == NButtons \in Nat \ {0}

Buttons == 1..NButtons
ALARM == NButtons

VARIABLES
    button_state, button_press, button_rpt,   \* latches of the debouncer
    tick_event, aux_timer_event,              \* latches of the two timers
    pc,        \* what the loop does next
    btn,       \* the button it does that for
    mask,      \* the local button_mask of the call being executed
    ev,        \* the event being put together
    confirmed, \* the reset reason, if there was one, was acknowledged
    unreported,\* history: buttons pressed since a press of them was last taken
    unserved   \* history: a tick was raised since one was last served

latches == <<button_state, button_press, button_rpt>>
flags   == <<tick_event, aux_timer_event>>
history == <<unreported, unserved>>
vars == <<latches, flags, pc, btn, mask, ev, confirmed, history>>

Events == [short : SUBSET Buttons, long : SUBSET Buttons, tick : BOOLEAN, aux : BOOLEAN]
NoEvent == [short |-> {}, long |-> {}, tick |-> FALSE, aux |-> FALSE]

\* The reset screen waits for ALARM, the loop begins with the first button.
FirstButton == IF confirmed THEN 1 ELSE ALARM

Init ==
    /\ button_state = {} /\ button_press = {} /\ button_rpt = {}
    /\ tick_event = FALSE /\ aux_timer_event = FALSE
    /\ confirmed \in BOOLEAN
    /\ pc = "read_state" /\ btn = FirstButton
    /\ mask = {} /\ ev = NoEvent
    /\ unreported = {} /\ unserved = FALSE

-----------------------------------------------------------------------------
(* Interrupts.  LPM3_EXIT: a sleeping loop goes on behind its LPM3; a loop *)
(* that is not asleep is not affected.                                     *)

LPM3_EXIT ==
    IF pc = "asleep" THEN pc' = "read_state" /\ btn' = FirstButton /\ ev' = NoEvent
                     ELSE UNCHANGED <<pc, btn, ev>>

\* Mutant: the state is latched, not its change.
Latch_Level(down, elapsed) ==
    /\ button_state' = down
    /\ button_press' = button_press \union down
    /\ button_rpt' = IF elapsed THEN button_rpt \union down ELSE button_rpt

\* Newly found buttons are latched, all that are down when the counter elapses.
Latch(down, elapsed) ==
    /\ button_state' = down
    /\ button_press' = button_press \union (down \ button_state)
    /\ button_rpt' = IF elapsed THEN button_rpt \union down ELSE button_rpt

\* One call of the debouncer: any set of buttons may be found down.
TimerA1_1_ISR ==
    /\ \E down \in SUBSET Buttons, elapsed \in BOOLEAN :
           /\ Latch(down, elapsed)
           /\ unreported' = unreported \union (down \ button_state)
    /\ LPM3_EXIT
    /\ UNCHANGED <<flags, mask, confirmed, unserved>>

\* Mutant: the loop is not woken.
RTC_ISR_NoExit ==
    /\ tick_event' = TRUE /\ unserved' = TRUE
    /\ UNCHANGED <<latches, aux_timer_event, pc, btn, ev, mask, confirmed, unreported>>

RTC_ISR ==
    /\ tick_event' = TRUE /\ unserved' = TRUE
    /\ LPM3_EXIT
    /\ UNCHANGED <<latches, aux_timer_event, mask, confirmed, unreported>>

\* Whether the timer runs is up to the services.
TimerA2_1_ISR ==
    /\ aux_timer_event' = TRUE
    /\ LPM3_EXIT
    /\ UNCHANGED <<latches, tick_event, mask, confirmed, history>>

ISR == TimerA1_1_ISR \/ RTC_ISR \/ TimerA2_1_ISR

-----------------------------------------------------------------------------
(* Sampling.  get_button_short reads the state, then calls                 *)
(* get_button_press; get_button_long calls get_button_rpt, then            *)
(* get_button_press.  Between the two calls interrupts are enabled.        *)

At(label) == pc = label
Goto(label) == pc' = label

\* ~button_state & button_mask
ReadState ==
    /\ At("read_state") /\ Goto("take_short")
    /\ mask' = {btn} \ button_state
    /\ UNCHANGED <<latches, flags, btn, ev, confirmed, history>>

\* Test and clear, with interrupts disabled.
get_button_press == button_press' = button_press \ mask
Taken == unreported' = unreported \ (button_press \intersect mask)

\* The first loop waits for a short press of ALARM, the second takes a short
\* press of each button.
TakeShort ==
    /\ At("take_short")
    /\ get_button_press
    /\ LET got == button_press \intersect mask IN
       IF confirmed
       THEN /\ ev' = [ev EXCEPT !.short = @ \union got]
            /\ IF btn < NButtons THEN btn' = btn + 1 /\ Goto("read_state")
                                 ELSE btn' = 1 /\ Goto("take_rpt")
            /\ UNCHANGED confirmed
       ELSE /\ confirmed' = (got # {})
            /\ IF got # {} THEN btn' = 1 /\ Goto("read_state")
                           ELSE UNCHANGED btn /\ Goto("LPM3")
            /\ UNCHANGED ev
    /\ Taken
    /\ UNCHANGED <<button_state, button_rpt, flags, mask, unserved>>

\* get_button_rpt, with interrupts disabled.
TakeRpt ==
    /\ At("take_rpt") /\ Goto("take_long")
    /\ mask' = {btn} \intersect button_rpt
    /\ button_rpt' = button_rpt \ {btn}
    /\ UNCHANGED <<button_state, button_press, flags, btn, ev, confirmed, history>>

TakeLong ==
    /\ At("take_long")
    /\ get_button_press
    /\ ev' = [ev EXCEPT !.long = @ \union (button_press \intersect mask)]
    /\ IF btn < NButtons THEN btn' = btn + 1 /\ Goto("take_rpt")
                         ELSE UNCHANGED btn /\ Goto("tick")
    /\ Taken
    /\ UNCHANGED <<button_state, button_rpt, flags, mask, confirmed, unserved>>

ReadTick ==
    /\ At("tick") /\ Goto("aux")
    /\ ev' = [ev EXCEPT !.tick = tick_event]
    /\ UNCHANGED <<latches, flags, btn, mask, confirmed, history>>

ReadAux ==
    /\ At("aux")
    /\ ev' = [ev EXCEPT !.aux = aux_timer_event]
    /\ IF ev' = NoEvent THEN Goto("LPM3") ELSE Goto("svc_main_proc")
    /\ UNCHANGED <<latches, flags, btn, mask, confirmed, history>>

\* The event is handled; for this module that is the whole of svc_main_proc.
MainProc ==
    /\ At("svc_main_proc") /\ Goto("clear_tick")
    /\ unserved' = (unserved /\ ~ev.tick)
    /\ UNCHANGED <<latches, flags, btn, mask, ev, confirmed, unreported>>

\* Mutants: the flag is cleared whether or not it was in the event; never.
ClearTick_Always ==
    /\ At("clear_tick") /\ Goto("clear_aux")
    /\ tick_event' = FALSE
    /\ UNCHANGED <<latches, aux_timer_event, btn, mask, ev, confirmed, history>>
ClearTick_Never ==
    /\ At("clear_tick") /\ Goto("clear_aux")
    /\ UNCHANGED <<latches, flags, btn, mask, ev, confirmed, history>>

\* The flag is cleared after the event was handled, not when it was read.
ClearTick ==
    /\ At("clear_tick") /\ Goto("clear_aux")
    /\ tick_event' = (tick_event /\ ~ev.tick)
    /\ UNCHANGED <<latches, aux_timer_event, btn, mask, ev, confirmed, history>>

ClearAux ==
    /\ At("clear_aux") /\ Goto("LPM3")
    /\ aux_timer_event' = (aux_timer_event /\ ~ev.aux)
    /\ UNCHANGED <<latches, tick_event, btn, mask, ev, confirmed, history>>

\* The instruction that sets the sleep bits: it does not look at the latches.
LPM3 ==
    /\ At("LPM3") /\ Goto("asleep")
    /\ UNCHANGED <<latches, flags, btn, mask, ev, confirmed, history>>

Main == \/ ReadState \/ TakeShort \/ TakeRpt \/ TakeLong
        \/ ReadTick \/ ReadAux \/ MainProc \/ ClearTick \/ ClearAux \/ LPM3

-----------------------------------------------------------------------------
Next == Main \/ ISR

\* The loop runs whenever it is not asleep, and the RTC keeps ticking.
\* Nothing is assumed of the buttons and of the auxiliary timer.
Spec == Init /\ [][Next]_vars /\ WF_vars(Main) /\ WF_vars(RTC_ISR)

-----------------------------------------------------------------------------
(* Properties.                                                             *)

Labels == {"read_state", "take_short", "take_rpt", "take_long", "tick", "aux",
           "svc_main_proc", "clear_tick", "clear_aux", "LPM3", "asleep"}

TypeOK ==
    /\ button_state \subseteq Buttons /\ button_press \subseteq Buttons
    /\ button_rpt \subseteq Buttons
    /\ tick_event \in BOOLEAN /\ aux_timer_event \in BOOLEAN
    /\ pc \in Labels /\ btn \in Buttons /\ mask \subseteq Buttons
    /\ ev \in Events
    /\ confirmed \in BOOLEAN
    /\ unreported \subseteq Buttons /\ unserved \in BOOLEAN

\* A press is put into at most one event, short or long, and an event holds
\* only presses that happened: whatever button enters the event was pressed
\* after a press of it was last taken, for an event or on the reset screen,
\* wherever the debouncer's interrupt came between the six calls.
NoPhantomPress ==
    [][(ev'.short \ ev.short) \union (ev'.long \ ev.long) \subseteq unreported]_vars

\* Nor is it told of a tick that was not raised since the last one it was
\* told of: countdowns, prescaled from ticks, never run fast, although the
\* flag is cleared only after the event has been handled.
NoPhantomTick == At("svc_main_proc") /\ ev.tick => unserved

\* A press is not forgotten: as long as the RTC ticks it is reported, as a
\* short or a long one, once the button is released or repeats - even if the
\* debounce timer has stopped and its interrupt came just before the sleep.
PressReported ==
    \A b \in Buttons :
        b \in unreported /\ confirmed ~> b \notin unreported \/ b \in button_state

\* As long as ticks come each of them is served, alone or together with those
\* that came since the loop last looked: they share one flag.
TickServed == confirmed /\ unserved ~> ~unserved
=============================================================================
