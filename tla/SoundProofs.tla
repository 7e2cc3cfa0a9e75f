------------------------------ MODULE SoundProofs ------------------------------
(***************************************************************************)
(* Proofs about Sound for every set of melodies, durations and settings,   *)
(* and about the light that shares its timer (Beepled).  The last section  *)
(* takes the theorems about Sound over to Beepled.                         *)
(***************************************************************************)
EXTENDS Beepled, TLAPS

-----------------------------------------------------------------------------
(* The inductive invariant.  At the terminator note_timer is zero, which   *)
(* the next repetition relies on; the rest is TypeOK and MelodyWellFormed. *)

TimerRewound ==
    "MELODY" \in aux_timer_req /\ note_cur = Terminator => note_timer = 0

MelodyInv == TypeOK /\ MelodyWellFormed /\ TimerRewound

\* A melody is a sequence of notes, each with a frequency and a duration.
LEMMA MelodyType ==
    ASSUME NEW m \in DOMAIN Melodies
    PROVE  /\ m # NoMelody
           /\ Len(Melodies[m]) \in Nat
           /\ \A n \in 1..Len(Melodies[m]) :
                /\ Melodies[m][n].freq \in Nat
                /\ Melodies[m][n].duration \in Nat \ {0}
<1>1. Melodies[m] \in Seq(Note) /\ m # NoMelody
  BY MelodiesAssumption
<1>2. Len(Melodies[m]) \in Nat
      /\ \A n \in 1..Len(Melodies[m]) : Melodies[m][n] \in Note
  BY <1>1
<1> QED BY <1>1, <1>2 DEF Note

\* Whatever hal_beep is asked for, the generator sounds a frequency.
LEMMA ToneType ==
    ASSUME TypeOK
    PROVE  /\ \A f \in Nat : hal_beep(f) \in Nat
           /\ ToneAfterBeep \in Nat
BY NumbersAssumption DEF TypeOK, hal_beep, ToneAfterBeep

\* Asking to play a melody makes it well formed.
LEMMA PlayStep ==
    ASSUME MelodyInv, NEW m \in DOMAIN Melodies, NEW rep \in 0..200,
           svc_melody_play_repeat(m, rep), ringing' \in BOOLEAN, keyed' \in BOOLEAN
    PROVE  MelodyInv'
<1> USE DEF svc_melody_play_repeat, PlayRequest, beepVars, settings, FOREVER
<1>1. /\ m # NoMelody
      /\ Len(Melodies[m]) \in Nat
      /\ \A n \in 1..Len(Melodies[m]) : Melodies[m][n].duration \in Nat \ {0}
  BY MelodyType
<1>2. TypeOK'
  BY NumbersAssumption DEF MelodyInv, TypeOK
<1>3. MelodyWellFormed'
  <2>1. /\ note_start' = m /\ note_cur' = 1 /\ note_timer' = 0
        /\ repeat' > 0
    OBVIOUS
  <2>2. Terminator' = Len(Melodies[m]) + 1
    BY <2>1 DEF Terminator
  <2>3. 1 < Len(Melodies[m]) + 1 => 0 < Melodies[m][1].duration
    BY <1>1
  <2>4. note_cur' \in 1..Terminator'
    BY <1>1, <2>1, <2>2
  <2>5. note_cur' < Terminator' => note_timer' < Melodies[note_start'][note_cur'].duration
    BY <2>1, <2>2, <2>3
  <2> QED BY <1>1, <2>1, <2>4, <2>5 DEF MelodyWellFormed
<1>4. TimerRewound'
  BY DEF TimerRewound
<1> QED BY <1>2, <1>3, <1>4 DEF MelodyInv

\* A beep leaves the melody alone.
LEMMA BeepStep ==
    ASSUME MelodyInv, NEW d \in Durations, svc_beep_timed(d),
           ringing' \in BOOLEAN, keyed' \in BOOLEAN
    PROVE  MelodyInv'
<1> USE DEF svc_beep_timed, BeepRequest, melodyVars, settings
<1>1. TypeOK'
  BY NumbersAssumption DEF MelodyInv, TypeOK
<1>2. MelodyWellFormed' /\ TimerRewound'
  BY DEF MelodyInv, MelodyWellFormed, TimerRewound, Terminator
<1> QED BY <1>1, <1>2 DEF MelodyInv

\* A key takes the timer away from the melody.
LEMMA KeyStep ==
    ASSUME MelodyInv, Key
    PROVE  MelodyInv' /\ repeat' = repeat
<1> USE DEF Key, svc_beep_key, BeepRequest, melodyVars, beepVars, settings
<1>1. TypeOK'
  BY NumbersAssumption DEF MelodyInv, TypeOK
<1>2. "MELODY" \notin aux_timer_req'
  OBVIOUS
<1> QED BY <1>1, <1>2 DEF MelodyInv, MelodyWellFormed, TimerRewound

\* One tick of the melody handler keeps the melody well formed, and never
\* raises the number of repetitions.
LEMMA MelodyHandlerStep ==
    ASSUME MelodyInv, "MELODY" \in aux_timer_req, svc_aux_timer_melody_handler,
           NEW req, aux_timer_req' = req,
           "MELODY" \in req => ~MelodyDone
    PROVE  /\ note_start' = note_start /\ note_cur' \in Nat \ {0}
           /\ note_timer' \in Nat /\ repeat' \in 0..255
           /\ repeat_delay' \in 0..RepeatDelay /\ g_freq' \in Nat
           /\ repeat' <= repeat
           /\ MelodyWellFormed' /\ TimerRewound'
<1> USE DEF MelodyInv, TypeOK, MelodyWellFormed, TimerRewound
<1>1. /\ note_start \in DOMAIN Melodies
      /\ Len(Melodies[note_start]) \in Nat
      /\ \A n \in 1..Len(Melodies[note_start]) :
            /\ Melodies[note_start][n].freq \in Nat
            /\ Melodies[note_start][n].duration \in Nat \ {0}
      /\ note_cur \in 1..Terminator /\ Terminator \in Nat \ {0}
      /\ repeat \in 1..255 /\ note_timer \in Nat
  BY MelodyType DEF Terminator
<1>2. CASE WaitForRepeat
  <2>1. /\ UNCHANGED <<note_start, note_cur, note_timer, repeat>>
        /\ repeat_delay' \in 0..RepeatDelay /\ g_freq' \in Nat
    BY <1>2, ToneType, NumbersAssumption DEF WaitForRepeat, MelodyPaused
  <2> QED BY <1>1, <2>1 DEF Terminator
<1>3. CASE EndOfMelody
  <2>1. note_start # NoMelody /\ note_cur = Terminator /\ note_timer = 0
    BY <1>3, <1>1, MelodyType DEF EndOfMelody, MelodyAtEnd
  <2>2. repeat' = RepeatsLeft /\ RepeatsLeft \in 0..255 /\ RepeatsLeft <= repeat
    <3>1. repeat' = RepeatsLeft
      BY <1>3, <2>1 DEF EndOfMelody
    <3>2. (repeat - 1) % 256 = repeat - 1
      BY <1>1
    <3>3. \/ RepeatsLeft = 255 /\ repeat = 255
          \/ RepeatsLeft = repeat - 1
      BY <3>2 DEF RepeatsLeft, FOREVER
    <3>4. repeat \in 1..255
      BY <1>1
    <3> QED BY <3>1, <3>3, <3>4
  <2>3. g_freq' \in Nat
    BY <1>3, ToneType DEF EndOfMelody
  <2>4. UNCHANGED <<note_start, note_timer>>
    BY <1>3 DEF EndOfMelody
  <2>5. CASE MelodyDone
    <3>1. UNCHANGED <<note_cur, repeat_delay>>
      BY <1>3, <2>5 DEF EndOfMelody
    <3>2. "MELODY" \notin aux_timer_req'
      BY <2>5
    <3> QED BY <1>1, <2>2, <2>3, <2>4, <3>1, <3>2
  <2>6. CASE ~MelodyDone
    <3>1. note_cur' = 1 /\ repeat_delay' = RepeatDelay
      BY <1>3, <2>6 DEF EndOfMelody
    <3>2. RepeatsLeft # 0
      BY <1>3, <2>6, <2>1 DEF MelodyDone, EndOfMelody
    <3>3. note_cur' < Terminator => Melodies[note_start][note_cur'].duration > 0
      BY <1>1, <3>1 DEF Terminator
    <3>4. Terminator' = Terminator
      BY <2>4 DEF Terminator
    <3> QED BY <1>1, <2>1, <2>2, <2>3, <2>4, <3>1, <3>2, <3>3, <3>4, NumbersAssumption
  <2> QED BY <2>5, <2>6
<1>4. CASE PlayNote
  <2> DEFINE note == Melodies[note_start][note_cur]
  <2>1. note_cur \in 1..Len(Melodies[note_start])
    BY <1>1, <1>4 DEF PlayNote, MelodyAtEnd, Terminator
  <2>2. note.duration \in Nat \ {0} /\ note.freq \in Nat
    BY <1>1, <2>1
  <2>3. g_freq' \in Nat
    BY <1>4, <2>2, ToneType DEF PlayNote
  <2>4. UNCHANGED <<note_start, repeat, repeat_delay>>
    BY <1>4 DEF PlayNote
  <2>5. Terminator' = Terminator
    BY <2>4 DEF Terminator
  <2>6. CASE note_timer + 1 >= note.duration
    <3>1. note_cur' = note_cur + 1 /\ note_timer' = 0
      BY <1>4, <2>6 DEF PlayNote
    <3>2. note_cur' \in 1..Terminator
      BY <2>1, <3>1, <1>1 DEF Terminator
    <3>3. note_cur' < Terminator => Melodies[note_start][note_cur'].duration > 0
      BY <1>1, <3>1, <3>2 DEF Terminator
    <3> QED BY <1>1, <2>3, <2>4, <2>5, <3>1, <3>2, <3>3
  <2>7. CASE ~(note_timer + 1 >= note.duration)
    <3>1. note_timer' = note_timer + 1 /\ note_cur' = note_cur
      BY <1>4, <2>7 DEF PlayNote
    <3>2. note_timer' < Melodies[note_start][note_cur].duration
      BY <1>1, <2>2, <2>7, <3>1
    <3>3. note_cur < Terminator
      BY <2>1, <1>1 DEF Terminator
    <3> QED BY <1>1, <2>3, <2>4, <2>5, <3>1, <3>2, <3>3
  <2> QED BY <2>6, <2>7
<1> QED BY <1>2, <1>3, <1>4 DEF svc_aux_timer_melody_handler

\* The handler as a whole: a beep tick, then a melody tick.
LEMMA HandlerStep ==
    ASSUME MelodyInv, svc_aux_timer_handler
    PROVE  MelodyInv' /\ repeat' <= repeat
<1> DEFINE req == aux_timer_req \ ((IF BeepDone THEN {"BEEP"} ELSE {})
                                  \union (IF MelodyDone THEN {"MELODY"} ELSE {}))
<1>1. aux_timer_req' = req /\ UNCHANGED <<settings, ringing, keyed>>
  BY DEF svc_aux_timer_handler
<1>2. req \subseteq {"BEEP", "MELODY"}
  BY DEF MelodyInv, TypeOK
<1>3. beep_start' \in {0, 1} /\ beep_duration' \in Nat
  BY DEF svc_aux_timer_handler, svc_aux_timer_beep_handler, beepVars, MelodyInv, TypeOK
<1>4. CASE "MELODY" \in aux_timer_req /\ svc_aux_timer_melody_handler
  <2>1. "MELODY" \in req => ~MelodyDone
    OBVIOUS
  <2> HIDE DEF req
  <2> QED BY <1>1, <1>2, <1>3, <1>4, <2>1, MelodyHandlerStep
          DEF MelodyInv, TypeOK, settings
<1>5. CASE "MELODY" \notin aux_timer_req /\ g_freq' = ToneAfterBeep /\ UNCHANGED melodyVars
  <2>1. "MELODY" \notin aux_timer_req'
    BY <1>1, <1>5
  <2>2. g_freq' \in Nat
    BY <1>5, ToneType DEF MelodyInv
  <2> HIDE DEF req
  <2> QED BY <1>1, <1>2, <1>3, <1>5, <2>1, <2>2
          DEF MelodyInv, TypeOK, MelodyWellFormed, TimerRewound, settings, melodyVars
<1> QED BY <1>4, <1>5 DEF svc_aux_timer_handler

\* What the app does with a key either starts a melody or leaves it alone.
LEMMA AppKeyStep ==
    ASSUME MelodyInv, AppKey
    PROVE  /\ MelodyInv'
           /\ \/ repeat' = repeat
              \/ \E m \in DOMAIN Melodies : svc_melody_play_repeat(m, 1)
<1>1. ringing' \in BOOLEAN /\ keyed' \in BOOLEAN
  BY DEF AppKey, MelodyInv, TypeOK
<1>2. CASE app_play
  BY <1>1, <1>2, PlayStep DEF app_play
<1>3. CASE hourbeep_test
  <2>1. PICK d \in Durations : svc_beep_timed(d)
    BY <1>3 DEF hourbeep_test
  <2>2. repeat' = repeat
    BY <2>1 DEF svc_beep_timed, melodyVars
  <2> QED BY <1>1, <2>1, <2>2, BeepStep
<1>4. CASE keybeep_set \/ beep_enable_set \/ OtherKey
  <2>1. UNCHANGED <<aux_timer_req, beepVars, melodyVars, g_freq>>
    BY <1>4 DEF keybeep_set, beep_enable_set, OtherKey
  <2>2. g_beep_enabled' \in BOOLEAN /\ beep_key_enable' \in BOOLEAN /\ changed' \in BOOLEAN
    BY <1>4 DEF keybeep_set, beep_enable_set, OtherKey, settings, MelodyInv, TypeOK
  <2>3. TypeOK'
    BY <1>1, <2>1, <2>2 DEF beepVars, melodyVars, MelodyInv, TypeOK
  <2>4. MelodyWellFormed' /\ TimerRewound' /\ repeat' = repeat
    BY <2>1 DEF melodyVars, MelodyInv, MelodyWellFormed, TimerRewound, Terminator
  <2> QED BY <2>3, <2>4 DEF MelodyInv
<1> QED BY <1>2, <1>3, <1>4 DEF AppKey

-----------------------------------------------------------------------------
LEMMA MelodyInvInit == Init => MelodyInv
<1> SUFFICES ASSUME Init PROVE MelodyInv
  OBVIOUS
<1>1. TypeOK
  <2>1. 0 \in 0..RepeatDelay
    BY NumbersAssumption
  <2>2. /\ g_beep_enabled \in BOOLEAN /\ beep_key_enable \in BOOLEAN /\ changed \in BOOLEAN
        /\ ringing \in BOOLEAN /\ keyed \in BOOLEAN
        /\ note_start \in DOMAIN Melodies \union {NoMelody}
    BY Zenon DEF Init
  <2>3. /\ aux_timer_req = {} /\ beep_start = 0 /\ beep_duration = 0 /\ note_cur = 1
        /\ note_timer = 0 /\ repeat = 0 /\ repeat_delay = 0 /\ g_freq = 0
    BY DEF Init
  <2> QED BY <2>1, <2>2, <2>3 DEF TypeOK
<1>2. MelodyWellFormed /\ TimerRewound
  BY DEF Init, MelodyWellFormed, TimerRewound
<1> QED BY <1>1, <1>2 DEF MelodyInv

LEMMA MelodyInvStep == MelodyInv /\ [Next]_vars => MelodyInv'
<1> SUFFICES ASSUME MelodyInv, [Next]_vars PROVE MelodyInv'
  OBVIOUS
<1>1. CASE Key
  BY <1>1, KeyStep
<1>2. CASE AppKey
  BY <1>2, AppKeyStep
<1>3. CASE Ring
  <2>1. PICK m \in DOMAIN Melodies, rep \in 0..200 : svc_melody_play_repeat(m, rep)
    BY <1>3, NumbersAssumption DEF Ring
  <2>2. ringing' \in BOOLEAN /\ keyed' \in BOOLEAN
    BY <1>3 DEF Ring, MelodyInv, TypeOK
  <2> QED BY <2>1, <2>2, PlayStep
<1>4. CASE svc_beep_hour
  <2>1. ringing' \in BOOLEAN /\ keyed' \in BOOLEAN
    BY <1>4 DEF svc_beep_hour, MelodyInv, TypeOK
  <2> QED BY <1>4, <2>1, BeepStep DEF svc_beep_hour
<1>5. CASE svc_aux_timer_handler
  BY <1>5, HandlerStep
<1>6. CASE UNCHANGED vars
  BY <1>6 DEF vars, beepVars, melodyVars, settings, MelodyInv, TypeOK,
     MelodyWellFormed, TimerRewound, Terminator
<1> QED BY <1>1, <1>2, <1>3, <1>4, <1>5, <1>6 DEF Next

\* Every variable of the sound services keeps its type.
THEOREM TypeCorrect == Spec => []TypeOK
<1>1. MelodyInv => TypeOK
  BY DEF MelodyInv
<1> QED BY <1>1, MelodyInvInit, MelodyInvStep, PTL DEF Spec

\* The melody handler (melody.c) never counts repetitions below zero and never
\* reads past a melody's terminator, for all melodies and repetition settings.
THEOREM MelodyStaysWellFormed == Spec => []MelodyWellFormed
<1>1. MelodyInv => MelodyWellFormed
  BY DEF MelodyInv
<1> QED BY <1>1, MelodyInvInit, MelodyInvStep, PTL DEF Spec

\* No tick, key, alarm or setting ever adds to the repetitions of a melody
\* that is playing; only a request to play sets the count.
THEOREM RepetitionsOnlyFall == Spec => NoExtraRepetition
<1> DEFINE Raised == repeat' > repeat =>
        /\ note_cur' = 1 /\ note_timer' = 0 /\ repeat_delay' = 0
        /\ "MELODY" \in aux_timer_req'
<1>1. ASSUME NEW m \in DOMAIN Melodies, NEW r, svc_melody_play_repeat(m, r) PROVE Raised
  BY <1>1 DEF svc_melody_play_repeat, PlayRequest
<1>2. MelodyInv /\ [Next]_vars => [Raised]_vars
  <2> SUFFICES ASSUME MelodyInv, Next PROVE Raised
    OBVIOUS
  <2>0. repeat \in Nat
    BY DEF MelodyInv, TypeOK
  <2>1. CASE Key
    BY <2>0, <2>1, KeyStep
  <2>2. CASE AppKey
    <3>1. CASE repeat' = repeat
      BY <2>0, <3>1
    <3>2. CASE \E m \in DOMAIN Melodies : svc_melody_play_repeat(m, 1)
      BY <1>1, <3>2
    <3> QED BY <2>2, <3>1, <3>2, AppKeyStep
  <2>3. CASE Ring
    BY <1>1, <2>3 DEF Ring
  <2>4. CASE svc_beep_hour
    BY <2>0, <2>4 DEF svc_beep_hour, svc_beep_timed, melodyVars
  <2>5. CASE svc_aux_timer_handler
    <3>1. repeat' \in Nat /\ repeat' <= repeat
      BY <2>5, HandlerStep DEF MelodyInv, TypeOK
    <3> QED BY <2>0, <3>1
  <2> QED BY <2>1, <2>2, <2>3, <2>4, <2>5 DEF Next
<1> QED BY <1>2, MelodyInvInit, MelodyInvStep, PTL DEF Spec, NoExtraRepetition

-----------------------------------------------------------------------------
(* Who silences the generator.  Every step but two leaves a handler that   *)
(* will: a key that makes no beep, and a handler whose call is ignored.    *)

\* Every other step leaves what sounds to somebody.
LEMMA OwnedStep ==
    ASSUME MelodyInv, Owned, [Next]_vars,
           ~(Key /\ ~beep_key_enable), ~(svc_aux_timer_handler /\ ~g_beep_enabled)
    PROVE  Owned'
<1> USE DEF Owned
<1>0. TypeOK'
  BY MelodyInvStep DEF MelodyInv
<1>1. CASE Key
  <2>1. "BEEP" \in aux_timer_req'
    BY <1>1 DEF Key, svc_beep_key
  <2> QED BY <1>0, <2>1
<1>2. ASSUME NEW m, NEW r, svc_melody_play_repeat(m, r) PROVE Owned'
  BY <1>0, <1>2 DEF svc_melody_play_repeat
<1>3. ASSUME NEW d, svc_beep_timed(d) PROVE Owned'
  BY <1>0, <1>3 DEF svc_beep_timed
<1>4. CASE keybeep_set \/ beep_enable_set
  BY <1>0, <1>4 DEF keybeep_set, beep_enable_set
<1>6. CASE OtherKey \/ UNCHANGED vars
  BY <1>0, <1>6 DEF OtherKey, vars
<1>7. CASE svc_aux_timer_handler
  <2>3. hal_beep(0) = 0
    BY <1>7 DEF hal_beep
  <2>5. CASE "MELODY" \in aux_timer_req
    <3>1. CASE MelodyDone
      <4>1. EndOfMelody
        BY <1>7, <2>5, <3>1 DEF svc_aux_timer_handler, svc_aux_timer_melody_handler,
           MelodyDone, WaitForRepeat, PlayNote, MelodyAtEnd
      <4>2. g_freq' = 0
        BY <4>1, <2>3 DEF EndOfMelody
      <4> QED BY <1>0, <4>2
    <3>2. CASE ~MelodyDone
      <4>1. "MELODY" \in aux_timer_req'
        BY <1>7, <2>5, <3>2 DEF svc_aux_timer_handler
      <4> QED BY <1>0, <4>1
    <3> QED BY <3>1, <3>2
  <2>6. CASE "MELODY" \notin aux_timer_req
    <3>1. "BEEP" \in aux_timer_req
      BY <1>7, <2>6 DEF svc_aux_timer_handler, TypeOK, MelodyInv
    <3>2. g_freq' = ToneAfterBeep
      BY <1>7, <2>6 DEF svc_aux_timer_handler
    <3>3. CASE BeepDone
      <4>1. g_freq' = 0
        BY <2>3, <3>2, <3>3 DEF ToneAfterBeep
      <4> QED BY <1>0, <4>1
    <3>4. CASE ~BeepDone
      <4>1. "BEEP" \in aux_timer_req'
        BY <1>7, <3>1, <3>4 DEF svc_aux_timer_handler
      <4> QED BY <1>0, <4>1
    <3> QED BY <3>3, <3>4
  <2> QED BY <2>5, <2>6
<1> QED BY <1>1, <1>2, <1>3, <1>4, <1>6, <1>7
        DEF Next, AppKey, app_play, hourbeep_test, Ring, svc_beep_hour

\* A tone loses its last handler in two ways only, whatever the settings are
\* when the watch starts and whatever keys, alarms and hours coincide
\* (svc_beep_key, hal_beep).
THEOREM TonesAreOwned == Spec => ToneOwned
<1>1. MelodyInv /\ [Next]_vars =>
         [Owned /\ ~Owned' => \/ Key /\ ~beep_key_enable
                              \/ svc_aux_timer_handler /\ ~g_beep_enabled]_vars
  BY OwnedStep
<1> QED BY <1>1, MelodyInvInit, MelodyInvStep, PTL DEF Spec, ToneOwned

-----------------------------------------------------------------------------
(* The light.  Whatever the registers held, the functions of beepled.c     *)
(* leave in them what they are asked for.                                  *)

TA0 == [up : BOOLEAN, beep : BOOLEAN, light : BOOLEAN,
        ccr0 : Nat, ccr1 : Nat \X Nat, pin : BOOLEAN]

Makes(t, freq, brightness) ==
    /\ t \in TA0
    /\ freq = IF t.up /\ t.beep THEN t.ccr0 ELSE 0
    /\ brightness = IF t.up /\ t.light /\ t.pin
                    THEN IF t.ccr1[1] = t.ccr0 THEN t.ccr1[2] ELSE -1
                    ELSE 0

LEMMA Registers ==
    ASSUME NEW t \in TA0, NEW freq \in Nat, NEW brightness \in Nat
    PROVE  Makes(beep_backlight(t, freq, brightness), freq, brightness)
<1>1. CASE freq = 0 /\ brightness = 0
  BY <1>1 DEF Makes, TA0, beep_backlight, NoBeepNoLight
<1>2. CASE freq # 0 /\ brightness = 0
  BY <1>2 DEF Makes, TA0, beep_backlight, BeepNoLight
<1>3. CASE freq = 0 /\ brightness # 0
  BY <1>3 DEF Makes, TA0, beep_backlight, NoBeepLight, PWM
<1>4. CASE freq # 0 /\ brightness # 0
  BY <1>4 DEF Makes, TA0, beep_backlight, BeepLight
<1> QED BY <1>1, <1>2, <1>3, <1>4

LightInv ==
    /\ level \in Nat /\ g_brightness \in Nat
    /\ Makes(ta0, g_freq, g_brightness)

\* A step of the light and its settings is one of Sound that leaves the
\* sound as it is: what holds of Sound holds of Sound with the light.
LEMMA LightStep == [LightNext]_all_vars => [Next]_vars
<1> SUFFICES ASSUME LightNext \/ UNCHANGED all_vars PROVE [Next]_vars
  OBVIOUS
<1>1. CASE KeyPass
  BY <1>1 DEF KeyPass, backlight_set, AppKey, Next
<1>2. CASE TickPass
  BY <1>2 DEF TickPass
<1>3. CASE AuxPass \/ Requests
  BY <1>3 DEF AuxPass, Requests, Next
<1>4. CASE UNCHANGED all_vars
  BY <1>4 DEF all_vars
<1> QED BY <1>1, <1>2, <1>3, <1>4 DEF LightNext

\* What a key does to the services is not heard before the timer's handler.
LEMMA OnlyAuxSounds ==
    ASSUME LightNext, ~AuxPass
    PROVE  g_freq' = g_freq
<1>1. ASSUME NEW m, NEW r, svc_melody_play_repeat(m, r) PROVE g_freq' = g_freq
  BY <1>1 DEF svc_melody_play_repeat
<1>2. ASSUME NEW d, svc_beep_timed(d) PROVE g_freq' = g_freq
  BY <1>2 DEF svc_beep_timed
<1>3. Key => g_freq' = g_freq
  BY DEF Key, svc_beep_key
<1>4. keybeep_set \/ beep_enable_set \/ OtherKey => g_freq' = g_freq
  BY DEF keybeep_set, beep_enable_set, OtherKey
<1>5. AppKey \/ Ring \/ svc_beep_hour => g_freq' = g_freq
  BY <1>1, <1>2, <1>4 DEF AppKey, app_play, hourbeep_test, Ring, svc_beep_hour
<1> QED BY <1>3, <1>4, <1>5
        DEF LightNext, KeyPass, TickPass, Requests, backlight_set, vars

\* The step of the backlight on its own.
LEMMA BacklightStep ==
    ASSUME LightInv, g_freq' = g_freq, g_freq \in Nat,
           NEW key, NEW long, NEW tick, svc_backlight_process(key, long, tick)
    PROVE  g_brightness' \in Nat /\ Makes(ta0', g_freq', g_brightness')
<1>1. CASE UNCHANGED <<g_brightness, ta0>>
  BY <1>1 DEF LightInv
<1>2. ASSUME NEW b \in Nat, hal_backlight_set(b)
      PROVE  g_brightness' \in Nat /\ Makes(ta0', g_freq', g_brightness')
  <2>1. ta0 \in TA0
    BY DEF LightInv, Makes
  <2> QED BY <1>2, <2>1, Registers DEF hal_backlight_set
<1> QED BY <1>1, <1>2 DEF svc_backlight_process, LightInv

\* The handlers' calls of hal_beep: the second one replaces the first.
LEMMA AuxStep ==
    ASSUME LightInv, MelodyInv, AuxPass
    PROVE  Makes(ta0', g_freq', g_brightness')
<1>0. /\ ta0 \in TA0 /\ g_brightness \in Nat /\ g_brightness' = g_brightness
      /\ ta0' = ByMelodyHandler /\ svc_aux_timer_handler
  BY DEF AuxPass, LightInv, Makes
<1>1. g_freq \in Nat /\ g_freq' \in Nat /\ ToneAfterBeep \in Nat
  BY <1>0, HandlerStep, ToneType DEF MelodyInv, TypeOK
<1>2. Makes(ByBeepHandler, ToneAfterBeep, g_brightness)
  <2>1. CASE g_beep_enabled /\ "BEEP" \in aux_timer_req /\ (BeepDone \/ beep_start = 1)
    BY <1>0, <1>1, <2>1, Registers DEF ByBeepHandler
  <2>2. CASE ~(g_beep_enabled /\ "BEEP" \in aux_timer_req /\ (BeepDone \/ beep_start = 1))
    <3>1. ByBeepHandler = ta0
      BY <2>2 DEF ByBeepHandler
    <3>2. ToneAfterBeep = g_freq
      BY <2>2 DEF ToneAfterBeep, hal_beep, BeepDone
    <3> QED BY <3>1, <3>2 DEF LightInv
  <2> QED BY <2>1, <2>2
<1>3. CASE g_beep_enabled /\ "MELODY" \in aux_timer_req /\ ~MelodyPaused
  <2>1. ByMelodyHandler = beep_backlight(ByBeepHandler, g_freq', g_brightness)
    BY <1>3 DEF ByMelodyHandler
  <2>2. ByBeepHandler \in TA0
    BY <1>2 DEF Makes
  <2> HIDE DEF ByBeepHandler
  <2> QED BY <1>0, <1>1, <2>1, <2>2, Registers
<1>4. CASE ~(g_beep_enabled /\ "MELODY" \in aux_timer_req /\ ~MelodyPaused)
  <2>1. ByMelodyHandler = ByBeepHandler
    BY <1>4 DEF ByMelodyHandler
  <2>2. g_freq' = ToneAfterBeep
    <3>1. CASE "MELODY" \notin aux_timer_req
      BY <1>0, <3>1 DEF svc_aux_timer_handler
    <3>2. CASE "MELODY" \in aux_timer_req /\ MelodyPaused
      BY <1>0, <3>2 DEF svc_aux_timer_handler, svc_aux_timer_melody_handler,
         WaitForRepeat, EndOfMelody, PlayNote, MelodyAtEnd
    <3>3. CASE "MELODY" \in aux_timer_req /\ ~MelodyPaused /\ ~g_beep_enabled
      <4>1. ToneAfterBeep = g_freq /\ \A f : hal_beep(f) = g_freq
        BY <3>3 DEF ToneAfterBeep, hal_beep
      <4> QED BY <1>0, <3>3, <4>1 DEF svc_aux_timer_handler,
              svc_aux_timer_melody_handler, WaitForRepeat, EndOfMelody, PlayNote
    <3> QED BY <1>4, <3>1, <3>2, <3>3
  <2> QED BY <1>0, <1>2, <2>1, <2>2
<1> QED BY <1>3, <1>4

LEMMA LightInvStep == LightInv /\ MelodyInv /\ [LightNext]_all_vars => LightInv'
<1> SUFFICES ASSUME LightInv, MelodyInv, [LightNext]_all_vars PROVE LightInv'
  OBVIOUS
<1>0. g_freq \in Nat
  BY DEF MelodyInv, TypeOK
<1>1. level' \in Nat
  BY BeepledAssumption DEF LightInv, LightNext, KeyPass, backlight_set, TickPass,
     AuxPass, Requests, light_vars, all_vars
<1>2. CASE KeyPass \/ TickPass
  <2>1. g_freq' = g_freq
    <3>1. CASE AuxPass
      <4>1. svc_aux_timer_handler /\ UNCHANGED keyed
        BY <3>1 DEF AuxPass, svc_aux_timer_handler
      <4> QED BY <1>2, <4>1 DEF KeyPass, TickPass, vars, AppKey, backlight_set
    <3> QED BY <1>2, <3>1, OnlyAuxSounds DEF LightNext
  <2> QED BY <1>0, <1>1, <1>2, <2>1, BacklightStep DEF KeyPass, TickPass, LightInv
<1>3. CASE AuxPass
  BY <1>1, <1>3, AuxStep DEF LightInv, AuxPass
<1>4. CASE Requests
  <2>1. g_freq' = g_freq
    BY <1>4 DEF Requests, Key, Ring, svc_beep_hour, svc_beep_key,
       svc_melody_play_repeat, svc_beep_timed
  <2> QED BY <1>1, <1>4, <2>1 DEF Requests, light_vars, LightInv
<1>5. CASE UNCHANGED all_vars
  BY <1>5 DEF all_vars, vars, light_vars, LightInv
<1> QED BY <1>2, <1>3, <1>4, <1>5 DEF LightNext

LEMMA LightInvInit == LightInit => LightInv
<1> SUFFICES ASSUME LightInit PROVE LightInv
  OBVIOUS
<1>1. g_freq = 0
  BY Zenon DEF LightInit, Init
<1>2. level \in Nat /\ g_brightness = 0
  BY BeepledAssumption DEF LightInit
<1>3. ta0 = [up |-> FALSE, beep |-> FALSE, light |-> FALSE,
             ccr0 |-> 0, ccr1 |-> <<0, 0>>, pin |-> FALSE]
  BY DEF LightInit, PWM
<1> QED BY <1>1, <1>2, <1>3 DEF LightInv, Makes, TA0

\* The shared timer makes the tone and the light that were asked for last,
\* for all melodies, levels and frequencies (beepled.c, beep_backlight).
THEOREM ToneAndLightAsAsked == LightSpec => []AsAskedFor
<1>1. LightInit => Init
  BY DEF LightInit
<1>2. LightInv => AsAskedFor
  BY DEF LightInv, Makes, AsAskedFor, Heard, Seen
<1> QED BY <1>1, <1>2, LightInvInit, LightInvStep, LightStep, MelodyInvInit,
        MelodyInvStep, PTL DEF LightSpec

\* With the light, melodies are as well formed and tones as owned as without.
THEOREM LightLeavesSoundSafe == LightSpec => []MelodyWellFormed /\ ToneOwned
<1>1. LightInit => Init
  BY DEF LightInit
<1>2. MelodyInv => MelodyWellFormed
  BY DEF MelodyInv
<1>3. MelodyInv /\ [Next]_vars =>
         [Owned /\ ~Owned' => \/ Key /\ ~beep_key_enable
                              \/ svc_aux_timer_handler /\ ~g_beep_enabled]_vars
  BY OwnedStep
<1> QED BY <1>1, <1>2, <1>3, LightStep, MelodyInvInit, MelodyInvStep, PTL
        DEF LightSpec, ToneOwned
================================================================================
