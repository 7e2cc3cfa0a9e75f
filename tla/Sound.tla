-------------------------------- MODULE Sound --------------------------------
(***************************************************************************)
(* Everything that makes the watch beep: the requests on the auxiliary     *)
(* timer (common/svc/aux_timer.c), timed beeps (beep.c), melodies          *)
(* (melody.c) and the tone generator (target/hal/beepled.c).               *)
(*                                                                         *)
(* Nobody owns the tone generator.  It keeps sounding until someone calls  *)
(* hal_beep(0), and the two handlers that do so run only while the         *)
(* auxiliary timer is required, so each way of dropping a requirement has  *)
(* to leave the generator silent or leave a handler behind that will.      *)
(*                                                                         *)
(* Each call made by the main loop is a step.  A key reaches the app in    *)
(* the same pass that beeped for it; "keyed" stands for that part of the   *)
(* pass, in which the auxiliary timer's handler and an expiring countdown  *)
(* may still come first.                                                   *)
(***************************************************************************)
EXTENDS Integers, Sequences

CONSTANTS
    Melodies,           \* svc_melodies: melody -> sequence of notes, without
                        \* the terminating note of duration 0
    NoMelody,           \* the null note pointer
    RepeatDelay,        \* ticks between repetitions: 255
    Reps,               \* values of alarm_repetitions, 0 means forever
    BeepFreq,           \* frequency of key and hour beeps, never 0
    Durations           \* durations of key and hour beeps, in ticks, never 0

Note == [freq : Nat, duration : Nat \ {0}]

ASSUME MelodiesAssumption ==
    /\ \A m \in DOMAIN Melodies : Melodies[m] \in Seq(Note)
    /\ NoMelody \notin DOMAIN Melodies
ASSUME NumbersAssumption ==
    /\ RepeatDelay \in Nat
    /\ Reps \subseteq 0..200
    /\ BeepFreq \in Nat \ {0}
    /\ Durations \subseteq Nat \ {0}

VARIABLES
    aux_timer_req,    \* the requirements that keep the timer running
    beep_start, beep_duration,
    note_start,       \* the melody being played
    note_cur,         \* index of the note in it, one past the end: terminator
    note_timer, repeat, repeat_delay,
    g_freq,           \* what the tone generator sounds, 0 when silent
    g_beep_enabled, beep_key_enable,
    changed,          \* history: one of these two settings was changed
    ringing,          \* an alarm or a countdown waits to be acknowledged
    keyed             \* a key of this pass has still to reach the app

beepVars   == <<beep_start, beep_duration>>
melodyVars == <<note_start, note_cur, note_timer, repeat, repeat_delay>>
settings   == <<g_beep_enabled, beep_key_enable, changed>>
vars == <<aux_timer_req, beepVars, melodyVars, g_freq, settings, ringing, keyed>>

Init ==
    /\ aux_timer_req = {}
    /\ beep_start = 0 /\ beep_duration = 0
    /\ note_start = NoMelody /\ note_cur = 1 /\ note_timer = 0
    /\ repeat = 0 /\ repeat_delay = 0
    /\ g_freq = 0
    /\ g_beep_enabled \in BOOLEAN   \* off after a reset with a reason
    /\ beep_key_enable \in BOOLEAN /\ changed = FALSE   \* nonvolatile
    /\ ringing = FALSE /\ keyed = FALSE

-----------------------------------------------------------------------------
(* Requests.                                                               *)

\* The timer serves the latest request: svc_beep_timed overwrites a beep.
BeepRequest(duration) == beep_start' = 1 /\ beep_duration' = duration

FOREVER == 255

PlayRequest(melody, rep) ==
    /\ note_start' = melody /\ note_cur' = 1 /\ note_timer' = 0
    /\ repeat' = IF rep = 0 THEN FOREVER ELSE rep
    /\ repeat_delay' = 0

svc_beep_timed(duration) ==
    /\ BeepRequest(duration)
    /\ aux_timer_req' = aux_timer_req \union {"BEEP"}
    /\ UNCHANGED <<melodyVars, g_freq, settings>>

svc_melody_play_repeat(melody, rep) ==
    /\ PlayRequest(melody, rep)
    /\ aux_timer_req' = aux_timer_req \union {"MELODY"}
    /\ UNCHANGED <<beepVars, g_freq, settings>>

svc_beep_key ==
    /\ \/ /\ beep_key_enable
          /\ \E d \in Durations : BeepRequest(d)
          /\ aux_timer_req' = (aux_timer_req \ {"MELODY"}) \union {"BEEP"}
       \/ /\ ~beep_key_enable
          /\ aux_timer_req' = aux_timer_req \ {"MELODY"}
          /\ UNCHANGED beepVars
    /\ UNCHANGED <<melodyVars, g_freq, settings>>

\* svc_main_proc: a key acknowledges what rings, and is eaten if something
\* did; it stops the melody, then beeps.  The generator is not touched.
Key ==
    /\ ~keyed
    /\ keyed' = ~ringing
    /\ ringing' = FALSE
    /\ svc_beep_key

-----------------------------------------------------------------------------
(* What the app may do with the key, and what needs no key.                *)

\* play/app.c: ENTER plays once.
app_play == \E m \in DOMAIN Melodies : svc_melody_play_repeat(m, 1)

\* conf/app.c: the hour beep's test item.
hourbeep_test == \E d \in Durations : svc_beep_timed(d)

\* conf/app.c: a choice item moves on to the other of its two values.
keybeep_set ==
    /\ beep_key_enable' = ~beep_key_enable /\ changed' = TRUE
    /\ UNCHANGED <<aux_timer_req, beepVars, melodyVars, g_freq, g_beep_enabled>>

beep_enable_set ==
    /\ g_beep_enabled' = ~g_beep_enabled /\ changed' = TRUE
    /\ UNCHANGED <<aux_timer_req, beepVars, melodyVars, g_freq, beep_key_enable>>

\* The key means something else to the app, or does not reach it.
OtherKey == UNCHANGED <<aux_timer_req, beepVars, melodyVars, g_freq, settings>>

AppKey ==
    /\ keyed /\ keyed' = FALSE /\ UNCHANGED ringing
    /\ app_play \/ hourbeep_test \/ keybeep_set \/ beep_enable_set \/ OtherKey

\* An alarm or a countdown goes off.
Ring ==
    /\ \E m \in DOMAIN Melodies, rep \in Reps : svc_melody_play_repeat(m, rep)
    /\ ringing' = TRUE
    /\ UNCHANGED keyed

\* A new hour, outside the quiet interval, with the hour beep enabled.
svc_beep_hour ==
    /\ \E d \in Durations : svc_beep_timed(d)
    /\ UNCHANGED <<ringing, keyed>>

-----------------------------------------------------------------------------
(* The auxiliary timer's handler, about 128 times a second.                *)

\* What the generator sounds after hal_beep(f): nothing changes while beeps
\* are disabled, not even for f = 0.
hal_beep(f) == IF g_beep_enabled THEN f ELSE g_freq

BeepDone == "BEEP" \in aux_timer_req /\ beep_duration = 0

\* (mutant: the duration is not counted down)
svc_aux_timer_beep_handler_NoCount ==
    IF "BEEP" \in aux_timer_req /\ beep_duration > 0
    THEN beep_start' = 0 /\ UNCHANGED beep_duration
    ELSE UNCHANGED beepVars

\* svc_aux_timer_beep_handler, and what it leaves the generator sounding.
svc_aux_timer_beep_handler ==
    IF "BEEP" \in aux_timer_req /\ beep_duration > 0
    THEN beep_duration' = beep_duration - 1 /\ beep_start' = 0
    ELSE UNCHANGED beepVars

ToneAfterBeep ==
    IF BeepDone THEN hal_beep(0)
    ELSE IF "BEEP" \in aux_timer_req /\ beep_start = 1 THEN hal_beep(BeepFreq)
    ELSE g_freq

Terminator == Len(Melodies[note_start]) + 1

\* What is left of a uint8_t count of repetitions when one ends.
RepeatsLeft == IF repeat = FOREVER THEN FOREVER ELSE (repeat - 1) % 256

MelodyPaused == repeat_delay > 0

\* The melody has reached its terminator, or there is none to play.
MelodyAtEnd  == ~MelodyPaused /\ (note_start = NoMelody \/ note_cur = Terminator)

\* (mutant: the repetitions are tested before they are counted down)
MelodyDone_TestedFirst == "MELODY" \in aux_timer_req /\ MelodyAtEnd
                          /\ (note_start = NoMelody \/ repeat = 0)

MelodyDone   == "MELODY" \in aux_timer_req /\ MelodyAtEnd
                /\ (note_start = NoMelody \/ RepeatsLeft = 0)

WaitForRepeat ==
    /\ MelodyPaused
    /\ repeat_delay' = repeat_delay - 1
    /\ g_freq' = ToneAfterBeep
    /\ UNCHANGED <<note_start, note_cur, note_timer, repeat>>

\* (mutant: the melody's last note is left sounding)
EndOfMelody_NotSilenced ==
    /\ MelodyAtEnd
    /\ g_freq' = ToneAfterBeep
    /\ repeat' = IF note_start = NoMelody THEN repeat ELSE RepeatsLeft
    /\ IF MelodyDone
       THEN UNCHANGED <<note_cur, repeat_delay>>
       ELSE note_cur' = 1 /\ repeat_delay' = RepeatDelay
    /\ UNCHANGED <<note_start, note_timer>>

\* Silence, then start again after a pause or give the timer back.
EndOfMelody ==
    /\ MelodyAtEnd
    /\ g_freq' = hal_beep(0)
    /\ repeat' = IF note_start = NoMelody THEN repeat ELSE RepeatsLeft
    /\ IF MelodyDone
       THEN UNCHANGED <<note_cur, repeat_delay>>
       ELSE note_cur' = 1 /\ repeat_delay' = RepeatDelay
    /\ UNCHANGED <<note_start, note_timer>>

PlayNote ==
    /\ ~MelodyPaused /\ ~MelodyAtEnd
    /\ LET note == Melodies[note_start][note_cur] IN
       /\ g_freq' = hal_beep(note.freq)
       /\ IF note_timer + 1 >= note.duration
          THEN note_cur' = note_cur + 1 /\ note_timer' = 0
          ELSE note_timer' = note_timer + 1 /\ UNCHANGED note_cur
    /\ UNCHANGED <<note_start, repeat, repeat_delay>>

svc_aux_timer_melody_handler == WaitForRepeat \/ EndOfMelody \/ PlayNote

svc_aux_timer_handler ==
    /\ aux_timer_req # {}
    /\ svc_aux_timer_beep_handler
    /\ \/ "MELODY" \in aux_timer_req /\ svc_aux_timer_melody_handler
       \/ "MELODY" \notin aux_timer_req /\ g_freq' = ToneAfterBeep /\ UNCHANGED melodyVars
    /\ aux_timer_req' = aux_timer_req \ ((IF BeepDone THEN {"BEEP"} ELSE {})
                                         \union (IF MelodyDone THEN {"MELODY"} ELSE {}))
    /\ UNCHANGED <<settings, ringing, keyed>>

-----------------------------------------------------------------------------
Next ==
    \/ Key
    \/ AppKey
    \/ Ring
    \/ svc_beep_hour
    \/ svc_aux_timer_handler

\* The timer's interrupt wakes the main loop, which calls the handler; a key
\* is handed on in the pass that saw it.
Spec == Init /\ [][Next]_vars /\ WF_vars(svc_aux_timer_handler) /\ WF_vars(AppKey)

-----------------------------------------------------------------------------
(* Properties.                                                             *)

TypeOK ==
    /\ aux_timer_req \subseteq {"BEEP", "MELODY"}
    /\ beep_start \in {0, 1} /\ beep_duration \in Nat
    /\ note_start \in DOMAIN Melodies \union {NoMelody}
    /\ note_cur \in Nat \ {0} /\ note_timer \in Nat
    /\ repeat \in 0..255 /\ repeat_delay \in 0..RepeatDelay
    /\ g_freq \in Nat
    /\ g_beep_enabled \in BOOLEAN /\ beep_key_enable \in BOOLEAN /\ changed \in BOOLEAN
    /\ ringing \in BOOLEAN /\ keyed \in BOOLEAN

\* While the melody handler is required it has a melody, a note of it (or its
\* terminator) to play, and at least one repetition to count down: repeat--
\* never wraps from 0 to 255, which would mean "forever", and note_cur never
\* runs past the terminator into whatever follows the melody in memory.
MelodyWellFormed ==
    "MELODY" \in aux_timer_req =>
        /\ note_start # NoMelody
        /\ note_cur \in 1..Terminator
        /\ note_cur < Terminator => note_timer < Melodies[note_start][note_cur].duration
        /\ repeat > 0

\* Only a request to play raises the repetition count: a melody asked for
\* three times is never heard a fourth, nor forever.
NoExtraRepetition ==
    [][repeat' > repeat => note_cur' = 1 /\ note_timer' = 0 /\ repeat_delay' = 0
                           /\ "MELODY" \in aux_timer_req']_vars

\* A handler that will silence the generator is required, so the auxiliary
\* timer is running.
Owned == g_freq # 0 => aux_timer_req # {}

\* Whatever beeps, melodies, alarms, settings and resets coincide, a tone loses
\* its last handler in two ways only: a key cuts a melody off in mid-note while
\* key beeps are off (svc_beep_key), or the call that ends it is ignored because
\* beeps were disabled meanwhile (hal_beep).
ToneOwned ==
    [][Owned /\ ~Owned' => \/ Key /\ ~beep_key_enable
                           \/ svc_aux_timer_handler /\ ~g_beep_enabled]_vars

\* If from some time on only the timer runs, everything but a melody that is to
\* repeat forever ends, and the timer is given back.  The watch is silent then
\* for good, if key beeps are on and the beep settings were left alone.
EventuallySilent ==
    <>[][svc_aux_timer_handler \/ AppKey]_vars
        => \/ <>[]("MELODY" \in aux_timer_req /\ repeat = FOREVER)
           \/ <>[](aux_timer_req = {} /\ (g_freq = 0 \/ changed \/ ~beep_key_enable))

\* svc/main.c: a key pressed while an alarm rings is there for the alarm to
\* "be disabled".  The key that acknowledges it must leave the watch silent, or
\* something that will silence it.
AcknowledgedMeansSilent == [][ringing /\ ~ringing' => Owned']_vars
==============================================================================
