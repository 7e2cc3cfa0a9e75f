------------------------------- MODULE Beepled -------------------------------
(***************************************************************************)
(* The tone generator and the backlight share one timer.  Sound says which *)
(* tone is asked for; this module adds common/svc/backlight.c, which asks  *)
(* for light, and the registers of target/hal/beepled.c that make both.    *)
(*                                                                         *)
(* The backlight looks at the events of a pass after the services have     *)
(* eaten the key and the auxiliary timer's handler has run, and before the *)
(* app: its step is part of the one that takes a key to the app.           *)
(***************************************************************************)
EXTENDS Sound

CONSTANTS
    Levels,       \* brightness of the backlight: 0..10
    LightTimes    \* how long it stays on, in ticks: 4*(1..10)

ASSUME BeepledAssumption == Levels \subseteq Nat /\ LightTimes \subseteq 1..255

VARIABLES
    level, light_time,   \* g_brightness and g_timeout*4 of svc/backlight.c
    timer,
    g_brightness,        \* of hal/beepled.c
    ta0                  \* the timer's registers and the pin of the light

light_vars == <<level, light_time, timer, g_brightness, ta0>>
all_vars == <<vars, light_vars>>

PWM == 0     \* the period that makes no tone: 100 Hz

LightInit ==
    /\ Init
    /\ level \in Levels /\ light_time \in LightTimes
    /\ timer = 0 /\ g_brightness = 0
    /\ ta0 = [up |-> FALSE, beep |-> FALSE, light |-> FALSE,
              ccr0 |-> PWM, ccr1 |-> <<PWM, 0>>, pin |-> FALSE]

-----------------------------------------------------------------------------
(* The registers.  The share of the period that the light is on is counted *)
(* in ccr1, which therefore belongs to one period.                         *)

NoBeepNoLight(t) ==
    [up |-> FALSE, beep |-> FALSE, light |-> FALSE,
     ccr0 |-> t.ccr0, ccr1 |-> t.ccr1, pin |-> FALSE]

BeepNoLight(t, freq) ==
    [up |-> TRUE, beep |-> TRUE, light |-> t.light,
     ccr0 |-> freq, ccr1 |-> t.ccr1, pin |-> FALSE]

NoBeepLight(t, brightness) ==
    [up |-> TRUE, beep |-> FALSE, light |-> TRUE,
     ccr0 |-> PWM, ccr1 |-> <<PWM, brightness>>, pin |-> TRUE]

BeepLight(t, freq, brightness) ==
    [up |-> TRUE, beep |-> TRUE, light |-> TRUE,
     ccr0 |-> freq, ccr1 |-> <<freq, brightness>>, pin |-> TRUE]

\* (mutant: the share is kept when only the tone changes)
beep_backlight_ShareKept(t, freq, brightness) ==
    IF freq = 0 /\ brightness = 0 THEN NoBeepNoLight(t)
    ELSE IF brightness = 0 THEN BeepNoLight(t, freq)
    ELSE IF freq = 0 THEN NoBeepLight(t, brightness)
    ELSE [BeepLight(t, freq, brightness) EXCEPT
             !.ccr1 = IF t.pin THEN t.ccr1 ELSE @]

beep_backlight(t, freq, brightness) ==
    IF freq = 0 /\ brightness = 0 THEN NoBeepNoLight(t)
    ELSE IF brightness = 0 THEN BeepNoLight(t, freq)
    ELSE IF freq = 0 THEN NoBeepLight(t, brightness)
    ELSE BeepLight(t, freq, brightness)

hal_backlight_set(brightness) ==
    /\ g_brightness' = brightness
    /\ ta0' = beep_backlight(ta0, g_freq, brightness)

\* The two calls of hal_beep that the auxiliary timer's handlers may make.
ByBeepHandler ==
    IF g_beep_enabled /\ "BEEP" \in aux_timer_req /\ (BeepDone \/ beep_start = 1)
    THEN beep_backlight(ta0, ToneAfterBeep, g_brightness) ELSE ta0

ByMelodyHandler ==
    IF g_beep_enabled /\ "MELODY" \in aux_timer_req /\ ~MelodyPaused
    THEN beep_backlight(ByBeepHandler, g_freq', g_brightness) ELSE ByBeepHandler

-----------------------------------------------------------------------------
(* svc_backlight_process.                                                  *)

\* A long press turns the light on, any key makes it last if it is on.
Armed(key, long) == IF long \/ (key /\ timer > 0) THEN light_time ELSE timer

\* (mutant: a tick with nothing left to count leaves the light alone)
svc_backlight_process_NotOut(key, long, tick) ==
    LET t == Armed(key, long) IN
    /\ timer' = IF tick /\ t > 0 THEN t - 1 ELSE t
    /\ \/ long /\ hal_backlight_set(level)
       \/ ~long /\ tick /\ t = 0 /\ UNCHANGED <<g_brightness, ta0>>
       \/ ~long /\ ~(tick /\ t = 0) /\ UNCHANGED <<g_brightness, ta0>>

\* A tick that finds the timer at zero turns it off, on or not.
svc_backlight_process(key, long, tick) ==
    LET t == Armed(key, long) IN
    /\ timer' = IF tick /\ t > 0 THEN t - 1 ELSE t
    /\ \/ long /\ hal_backlight_set(level)
       \/ ~long /\ tick /\ t = 0 /\ hal_backlight_set(0)
       \/ ~long /\ ~(tick /\ t = 0) /\ UNCHANGED <<g_brightness, ta0>>

\* The items of the settings menu; they take effect with the next key.
backlight_set ==
    /\ OtherKey
    /\ \/ level' \in Levels /\ UNCHANGED light_time
       \/ light_time' \in LightTimes /\ UNCHANGED level

KeyPass ==
    /\ \E long, tick \in BOOLEAN : svc_backlight_process(TRUE, long, tick)
    /\ \/ AppKey /\ UNCHANGED <<level, light_time>>
       \/ keyed /\ keyed' = FALSE /\ UNCHANGED ringing /\ backlight_set

\* A pass with a tick; its key, if there was one, was eaten.
TickPass ==
    /\ ~keyed /\ svc_backlight_process(FALSE, FALSE, TRUE)
    /\ UNCHANGED <<vars, level, light_time>>

AuxPass ==
    /\ svc_aux_timer_handler
    /\ ta0' = ByMelodyHandler
    /\ UNCHANGED <<level, light_time, timer, g_brightness>>

Requests == (Key \/ Ring \/ svc_beep_hour) /\ UNCHANGED light_vars

LightNext == KeyPass \/ TickPass \/ AuxPass \/ Requests

LightSpec ==
    /\ LightInit /\ [][LightNext]_all_vars
    /\ WF_all_vars(AuxPass) /\ WF_all_vars(KeyPass) /\ WF_all_vars(TickPass)

-----------------------------------------------------------------------------
(* Properties.                                                             *)

Heard == IF ta0.up /\ ta0.beep THEN ta0.ccr0 ELSE 0
Seen  == IF ta0.up /\ ta0.light /\ ta0.pin
         THEN IF ta0.ccr1[1] = ta0.ccr0 THEN ta0.ccr1[2] ELSE -1
         ELSE 0

\* What the shared timer makes is what was asked for last: a tone keeps its
\* pitch when the light comes or goes, the light its brightness when the tone
\* changes or ends, and neither is left on by the other's end.
AsAskedFor == Heard = g_freq /\ Seen = g_brightness

\* If keys stop coming the light goes out for good, however its settings were
\* changed while it was on and whatever beeps or rings meanwhile.
LightGoesOut == <>[][~KeyPass]_all_vars => <>[](g_brightness = 0 /\ Seen = 0)
==============================================================================
