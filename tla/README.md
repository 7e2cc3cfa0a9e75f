# Verification of the pluto watch firmware

TLA+ models of the firmware in this repository, the TLC configurations that
check them on small instances, and proofs, checked by TLAPS, that the most
important properties hold for every value of the constants. Paths are relative
to the repository's root (`common/`, `target/`, `sim/`).

    tlc -workers 2 -config Chrono.cfg Chrono.tla     # model-check
    tlapm ChronoProofs.tla                           # check the proofs

A run has the name of its configuration; `MC*.tla` only give constants values.
The proofs about a module `X` are in `XProofs`; those about Debounce and Dispatch
are in `MainLoopProofs`, about Beepled in `SoundProofs`, HourBeep in `AlarmProofs`,
Otp in `MenuProofs`, I2c in `Mag3110Proofs`.

## 1. The system

The firmware of a wrist watch with an MSP430: one main loop, a handful of
interrupts, no operating system, no heap. Three layers: `svc_main_proc` calls
the services and the current app, apps call services, services call the
hardware layer (HAL).

| component | source | state | operations |
|---|---|---|---|
| main loop, interrupts | `target/main.c`, `target/hal/button.c`, `rtc.c`, `aux_timer.c` | latches of presses and repeats, `tick_event`, `aux_timer_event` | ISRs set, the loop samples, clears and sleeps in LPM3 |
| event dispatch | `common/svc/main.c`, `common/app/app.c` | current app and view, `app_view_changed`, prescaler, idle seconds | `svc_main_proc`, `app_launch`, `app_set_view`, the return home |
| menus | `common/svc/menu.c`, all apps | a cursor, adjust mode and digit for each of ten menus | `svc_menu_run`, the handlers of the items |
| countdowns | `common/svc/countdown.c` | 12 entries in FRAM, counter and pending index in RAM | start, stop, edit, once-a-second pass |
| alarms | `common/svc/alarm.c` | 10 entries in FRAM, two flags and the minute last looked at in RAM | edit, once-a-pass comparison |
| chronographs | `common/svc/chro.c` | two chronographs, `n_running` | start, stop, hold, reset, timer handler |
| sound | `common/svc/beep.c`, `melody.c`, `aux_timer.c`, `target/hal/beepled.c` | requests on the timer, beep and melody cursors, the tone generator | requests, handlers, settings |
| clock | `target/hal/rtc.c` | the chip, its copy, the calibration | copy each second, set, calibrate |
| time correction | `common/svc/rtc_adj.c`, `seconds_since_last_set.c`, `common/app/time/` | pending correction, seconds since set, measurement, time under edit | edit, hour keys, measure, correct |
| hour beep | `common/svc/beep.c` | last hour, quiet interval | once a pass |
| backlight | `common/svc/backlight.c` | timer, brightness | keys, ticks |
| one-time passwords | `common/svc/otp.c`, `common/app/otp/` | lock, timeout, time counter | unlock, lock, tokens |
| compass | `common/svc/compass.c`, `target/hal/mag3110.c` | power, timeout, calibration | measure, calibrate, power down |
| I2C master | `target/hal/i2c.c` | two lines, whether a transfer was started | write and read a byte, with start and stop |
| LCD | `common/svc/lcd.c`, `target/hal/lcd.c` | buffers, blink masks, mode | draw, update, blink |

How they interact. All services run in the main loop, one `svc_main_proc` after
the other: a service call is atomic towards other services, and shared state
between them is a matter of the order of calls. Concurrency is between the loop
and the interrupts: the latches and flags, and the copy of the clock. The
auxiliary timer (128 Hz) is switched on while anybody requires it; its users are
beeps, melodies and chronographs, and each must give it back. Entries in FRAM
(`SECTION_INFOMEM`) outlive a reset, their summaries in RAM do not.

What is hard about it, and the property that a team would want of each part:

- main loop: an interrupt between any two of its steps. No press or tick is
  handled that did not happen, none twice, none is forgotten.
- dispatch: several events in one pass, and a view flag shared by all views. A
  view is entered before it is run; the key that stops an alarm does nothing
  else; the watch comes home when it should.
- menus: a digit position that outlives the item it belongs to, edits cut short
  by the return home. A number stays in its range, an abandoned edit never
  writes an old value, there is always a way out.
- countdowns: a counter shared by twelve entries, a borrow over three fields,
  half of the state surviving a reset. What runs is counted down and ends.
- alarms: driven by changes of a copied minute while both alarms and clock are
  edited. None is missed, none rings twice.
- chronographs: a counter kept by some calls and not by others. No tick is
  lost, the timer is released.
- sound: two handlers and four kinds of request on one generator that nobody
  owns. Whatever sounds keeps somebody to silence it.
- time correction: read-modify-write of a copy, a correction that has to wait,
  a prescaler in any phase. A correction moves the time by what was measured.
- hour beep: an hour noted in one pass and compared in the next, while clock,
  settings and copy change; an interval that may go across midnight. Each hour
  is announced once, unless it is quiet.
- buttons: counters of two bits kept in bytes, a timer that stops itself and is
  started by another. Four equal samples make a press, whatever bounces.
- backlight: its timer is the tone generator's. Each change of one leaves the
  other as it was asked for, and the light goes out.
- one-time passwords: a timeout that a view starts again in every pass, and that
  outlives the view. An unlocked key is forgotten in time.
- compass and I2C: transfers cut short by a missing acknowledgement, a device
  that stretches the clock or loses its state. What is read is what was sent, and
  every read returns.

`PROJECT.json` has every component with what is left out of it, every hazard
with its line, and for each definition the lines it models.

## 2. The modules

One action is one call of a handler or one pass of the main loop, unless stated
otherwise; names are those of the source.

**MainLoop** has actions smaller than a pass: `Main` is
one step of the loop's body between two accesses to a flag that an ISR writes,
`ISR` comes between any two of them. `pc` is the point in the loop.
`read_state`, `take_short`, `take_rpt`, `take_long` are the halves of
`get_button_short` and `get_button_long`, which only disable interrupts inside.
`LPM3_EXIT` wakes a loop that sleeps and does nothing to one that does not.
A press is `unreported` from its latching until it is in an event. `unreported`,
`unserved` and `confirmed` are history.

**Debounce** extends it with what MainLoop takes for an interrupt that may find
any buttons down: the two-bit counters of `TimerA1_1_ISR`, a byte of bits being a
set of buttons, the repeat counter, the sampling timer that stops after a while
and the poll `TimerA3_1_ISR` that starts it. Here it is the loop that is
general: `LoopTakes` clears any latch at any time. Both timers count the same clock,
so that a poll comes 6 or 7 samples after the last (`PollDue`), or sooner if the
samples have stopped. `differs`, `held`, `seen` and `missed` are history.

**Dispatch** is `svc_main_proc`, every branch in its order: eating of keys,
prescaler, return home, launch, entering, main, alarms. Which service rings and
which view a key opens are choices. `quiet`, `outcome`, `mained`, `entered`,
`went_home` are history.

**Menu** has `svc_menu_run` with the tables of all ten menus: their items in
order, type, digits, bounds, the handlers that read and write, where leaving
leads. A behaviour visits the time app or one other app, because `svc_menu_state_t`
is per app and nothing else is shared but the lock, which Otp adds. The screens
that are no menus (the time display, the lists, the stopwatch, the player) have
the keys that lead to another screen (`other_main`); what those keys do otherwise
is in Chrono and Sound. One action is
a pass with the keys of its event, or the return home, which may come at any time
in any screen (`Dispatch` has when). A number being adjusted is found at one end of its range; the
calibration is followed through the chip.

**Otp** extends Menu with the lock: `pin_leave` unlocks, `loc` locks,
`svc_otp_process` counts the timeout down, the view of tokens starts it again in
every pass. `unused`, the seconds the key has been of no use, is history.

**Clock** has the chip, its copy, the correction, the seconds since the setting
and the views of the time app that use them. `TickPass` is the part of a pass
done with a tick, `Second` is the interrupt that copies the chip, the rest are
keys. `ref` is the reference the user compares with, `tracked` what was done
since, `elapsed` the true number of seconds since the setting.

**Countdown** has all calls of the service that the app's two views and
`svc_main_proc` make; `Reset` clears RAM and keeps FRAM. **CountdownAbs** is what
the service promises: running numbers of seconds. `MCCountdown` maps hours,
minutes, seconds to one number and checks that the one implements the other.

**Chrono** has the timer handler and the keys of both apps that drive the
chronographs, as the apps call the service. **Alarm** splits the pass in two,
`AppPass` and `svc_alarm_process`, because the clock interrupt may come between.
**HourBeep** extends it with the third part, `svc_beep_hour`, which reads the copy
again, and with the settings of the hour beep. An hour is `hour_due` from its
beginning until it is announced, if it is to be; `HourAlarms`, `HourAppPass`,
`HourSecond`, `HourMinute` and `HourReset` are Alarm's steps with what they mean
to the hour beep.

**Sound** has requests, both handlers, and `hal_beep` with the setting that makes
it ignore calls; `keyed` is the part of a pass in which the key's beep has been
made and the app not yet been called. The setting of key beeps is kept in FRAM and
that of beeps depends on the kind of reset, so either may be off from the start;
`changed` is history. **Beepled** extends it with the backlight
(`svc_backlight_process`) and the registers of the timer that tone and light
share: `beep_backlight` has the four cases of the function of that name. The
light's share of the period is kept as the pair of the period it was computed
for and the brightness, so that a share that belongs to another period shows.

**I2c** is the bit-banged master, a step for each change of a line and a guard for
each wait for the clock, and the device at the other end, which the sources do
not contain: a register file that follows the lines, may stretch the clock after
each falling edge, may lose its state (`Upset`) and comes up again. **Mag3110**
extends it with the driver, which is a list of calls of the master (`todo`) and
is given up at the first missing acknowledgement, and with `svc/compass.c`, which
powers the device when it is read and off after the timeout. `pure` says that the
device was up all through the access.

## 3. The runs

| run | states | what it shows |
|---|---|---|
| MCCountdown | 19 000 | only a reset makes the counter fall behind the entries that run; the service implements CountdownAbs until a reset finds one running; what runs ends |
| MCCountdown_frozen | | *violation*: a running countdown kept by a reset is not counted down |
| MCBeepled | 264 000 | melodies do not run past their end or repeat too often; a tone loses the last handler that would silence it only by a key with key beeps off, or when beeps are disabled while it sounds; the shared timer makes the tone and the light asked for last; all ends, in silence but for these two cases, and in darkness |
| MCSound_nokeybeep | | *violation*: an alarm rings with key beeps off since the start, and the key that acknowledges it leaves the tone on |
| MCDebounce | 198 000 | no phantom or double press or tick, none lost in the end; the fourth equal sample counts and no other; repetitions come in their time and at no other; the debouncer comes to rest at what the pins are, unless the last press was over before a poll could find it |
| Chrono | 13 000 | exact count, timer kept while needed and released after, no tick lost |
| MCAlarm | 2 514 000 | no alarm missed, none twice; an hour announced once unless quiet |
| MCDispatch | 16 000 | entered before main, not home early, a key that acknowledges does nothing else, home in the end |
| MCDispatch_lost | | *violation*: a key sharing a pass with the auxiliary timer reaches no app |
| MCMenu | 259 000 | digits that exist, an interrupted edit writes nothing stale, looking at the calibration is neutral, a key that leads home from every screen; an unlocked key is forgotten in time and in the end |
| MCMag3110 | 69 000 | starts on a free bus, an acknowledged write was made, what is read is what was sent, every read returns |
| Clock | 901 000 | a correction is exact and brings the watch in step, in any phase; seconds since set; it is made in the end |

MCAlarm takes about two minutes with two workers, the others one at most.

The three violations disagree with what `README.md` or a comment says; the
entries under "findings" quote the lines. Deadlock is checked in all runs.

### Bounds, and why they are enough

- *Sizes of fields.* Every carry and borrow tests for its limit alone, so a
  minute of 2 seconds and an hour of 2 minutes have all paths of 60 and 60
  (Countdown `Base`, Chrono `Secs`, Alarm `Minutes`, Clock). Clock has 4 seconds
  to a minute, the least that has a fast, a slow and an invalid measurement,
  and two ticks to a second, which gives two phases to the prescaler.
- *Numbers of entries.* Two countdowns interact through one counter and one
  pending index; the frozen one is one of three. Two alarms give the case that
  two match. There are two chronographs in the firmware as well.
- *MainLoop*: two buttons, because the loop treats the first and the later ones
  differently only in the reset screen and the order of sampling.
- *Sound, Beepled*: a melody with a rest and a longer note; a delay of 1 between
  repetitions; repetitions 0 (for ever) and 2; all settings of beeps at the start and
  their changes; the light off or on, for 1 or 2
  ticks. Melodies of one note are among those the proofs are about.
- *Debounce*: two buttons, times of 4, 2 and 12 samples instead of 50, 20 and 500.
  The four samples of the counters and the 6 or 7 from poll to poll are the real
  ones, and 12 samples are more than from one poll to the next, so that a press
  that is held keeps the samples going, and one that comes late in them may be
  missed by the polls. Contacts bounce without a bound. In MCDebounce a
  behaviour has either the loop in detail and buttons at will, or the debouncer in
  detail and a loop that takes any latch; the latches are the same variables.
- *HourBeep*: the user of a behaviour edits either the alarms or the settings of
  the hour beep, which share nothing but the clock and the pass; both users set
  the clock. Two hours have every comparison of the interval; all others are
  covered by the proof.
- *I2c*: bytes of 3 bits, two of address and one of direction, two bytes read at a
  time, so that there is a byte that is acknowledged and one that is not; the first,
  a middle and the last bit of a byte are what the code tells apart.
- *Otp*: a timeout of 2 seconds.
- *Dispatch*: two apps with and without enter handlers; two idle seconds, a
  counter of 4 values, so that it wraps.
- *Menu*: all nine apps and the launcher, the real menus with their real bounds,
  every key set of an event.
  `MaxSets = 1` allows one step of a number or one store of the calibration per
  behaviour: each digit is at either bound when it is stepped, and a second step
  starts from a number in range, as the first did. Calibrations at the ends of
  what the chip can hold.
- *SinceLimit* (Clock) caps the count of seconds and its history alike.

For what is proved the bounds do not matter.

### Fairness

Weak fairness of what the hardware drives: the once-a-second pass
(`svc_countdown_process`, Dispatch's tick), the timer handler
(`svc_aux_timer_handler`, `svc_aux_timer_chro_handler`), the rest of a pass that
has begun (Sound's `AppKey`, Beepled's `KeyPass`), the loop and the RTC tick
(MainLoop), `Second` and `TickPass` (Clock), the sampling timer and the poll
(MCDebounce), the tick of the backlight (`TickPass` of Beepled), the second of the
one-time passwords. For the compass: the driver goes on, the device frees the
clock after a while and comes up after it was powered; nothing makes it
acknowledge. The 4 Hz tick is never switched off, the
auxiliary timer is on while required, and each wakes the loop. Keys are never
fair. Where a user could prevent the goal for ever, the property says "from
some time on only ..." (`EventuallySilent`, `ComesHome`, `EventuallyCorrected`), for
`DebouncerSettles` that the pins keep still;
`MenuLeavable` is about a user who presses the leaving key again and again and
no other, so its premise has the fairness of that key and the specification
none. `PressReported` and `TickServed` need the tick that has been seen once
(`confirmed`).

## 4. The proofs

All assume only the named assumptions on the constants, which TLC evaluates.

- **CountdownProofs.** `CountInv` is the type invariant with `NeverOvercounts`:
  the guard `countdowns_running > 0` before the decrement is needed because a
  reset may have cleared the counter, and the bound by the running entries
  keeps the `uint8_t` from wrapping. `ExactInv` adds that the two are equal, and
  holds without resets. One lemma per call says how the set of running entries
  changes; the once-a-second pass, a loop in the code, removes a set of them.
- **SoundProofs.** `MelodyInv` strengthens `MelodyWellFormed` by
  `TimerRewound`: the note timer is zero where a note begins, without which
  the next note could be longer than its duration. `ToneOwned` is a property of
  steps: `OwnedStep` shows, action by action, that an owned tone stays owned but for
  the two ways named; that the handlers which give the timer back leave the generator
  silent needs `MelodyInv` for the melody's last note. `LightStep` shows every step of
  Beepled to be one of Sound or a stutter, so both carry over to the watch with a
  backlight. `ToneAndLightAsAsked` rests on `Registers`: whatever the registers
  were, `beep_backlight` leaves them making the tone and the light it is given.
- **MainLoopProofs.** `LatchedOnce` (what is latched is unreported) gives
  `NoPhantomPress`. For ticks, `TickInv` says when a flag that is still set has
  been served already: only at the point that is about to clear it. For Debounce,
  `CounterInv`: the two bits of a button's counter are the number of samples in a
  row that differed; `RepeatInv`: until the first repetition the repeat counter and
  the samples with a button down add up to the time to it, and between two
  repetitions to the time between them. The counter is one for all buttons, and so is
  what is proved of it: a button pressed while another is held is repeated with it.
- **ChronoProofs.** `IInv` couples the count to the set of running chronographs
  and the request to the count. `LaterIsNext`, by which no tick is lost, is the
  carry through three fields as arithmetic: the time in subseconds goes up by one
  modulo the range, for every size of the fields.
- **AlarmProofs.** `MinuteNoted` says that after the loop has looked, the minute
  last looked at is that of the copy, or none since a reset; so the next minute
  is a new one, and `DueRings` and `RungNoted` follow for all that match. For the
  hour beep `HourNoted` and `HourAwaited` say the same of the hour, and
  `IntervalIsQuietHours` that the comparisons of the code find the hours between
  the two ends, counted round the clock. `FlagIsExact`, that the flag which lets
  the loop look at the alarms is set exactly while one is enabled
  (`EnabledFlagExact`), has no run of its own.
- **ClockProofs.** For `InStep`: from the measurement to the correction the
  chip differs from the reference by the measurement, up to one minute because
  one of them may have passed it (`Ahead`); the correction has no carry, hence
  lands on the reference. For `SinceSetExact`: the count leads by one more once
  the tick that counts this second has come (`Counted`, `Phase`). The proof
  needs that a deviation is smaller than the largest correction `svc_rtc_adj_sec`
  takes (20 and 59).
- **MenuProofs.** `MenuInv`: each app shows a screen of its own (`WhereInv`); *in
  every menu*, not only the one shown, an item being adjusted has a digit of its own
  number selected (`StatesOK`), because the return home keeps cursor and digit and
  `svc_menu_run` goes on from there; a number being adjusted is in its range, and
  time, date and calibration have been loaded since their screen appeared
  (`NumberInv`). For these three it matters that their menu is entered with the
  cursor on an item that is no number. What the steps need of the tables are
  lemmas, by cases over the menus and their items. `LockInv`: while
  unlocked, what is left of the timeout and the seconds unused do not exceed the
  timeout. Every step with the lock is a step of Menu or a stutter
  (`LockKeepsMenus`), so all of it holds with both.
- **Mag3110Proofs.** `BusInv` says how master and device stand to each other at each
  step of the bit-banged transfer. `Order`: which byte of the access is under way
  and which are still to come. `Bits`: how many bits of it the master has moved.
  `Lines`: who pulls which line, by `pc`. `InStep`: a device that is in a transfer
  at all has seen the same START, is at the same bit of the same byte and has the
  bits that were sent; one that was powered, reset or not addressed in the middle
  of one is out of it until the next START. That is what makes START safe
  (`StartOnFreeBus`): a device that pulls the data line is one the master is
  listening to. `Remembered` adds what the device knows of a write, for
  `AckMeansWritten`. For reads, `Answer` says that the buffer and the bits so far
  are what the device has sent, `StaysUp` that a device that keeps its state never
  leaves the access, `AllSent` that at its end every byte was sent; they give
  `ReadExact` and `ReadIsAnswered`. All for any width of a byte, address, number of
  bytes, and order of stretching. The last has no run of its own.

Dispatch, in MainLoopProofs: `EnterInv`: the flag of a changed view is set, or the
current view is the one entered last, if it can be entered at all. `IdleInv`: the
idle counter is never ahead of the seconds since the last key, unless a key is still
remembered.

Countdown to CountdownAbs, in CountdownProofs: `RefInv` is that the counter is exact
until a reset finds a countdown running, when the mapping says that the promise has
ended. The once-a-second pass is the hard step: `SecondTaken` is the borrow over
three fields as arithmetic, one second less for every base, and the entries that
expire are those with none left. `RefinesCountdownAbs` is the safety part of
`ImplementsCountdownAbs`; its fairness, the second that is served again and again,
is checked by the run.

The inductive invariants were checked by TLC on the runs' instances first.

Only model-checked: liveness, which is out of the provers' reach
(`EventuallyStops`, `EventuallySilent`, `LightGoesOut`, `PressReported`,
`TickServed`, `DebouncerSettles`, `TimerReleased`, `ComesHome`, `MenuLeavable`,
`KeyForgotten`, `ReadReturns`, `EventuallyCorrected`, and the fairness in
`ImplementsCountdownAbs`). Every other property of a passing run is a theorem.

## 5. Observations

Met while modelling. Each is in its model, but nothing in the repository says
otherwise, so no run is about it.

- `target/main.c:117`: an interrupt after the last test of its flag and before
  LPM3 does not keep the loop awake; the press waits for the next tick, a
  quarter of a second at most. MainLoop has it, and `PressReported` holds.
- `target/hal/beepled.c:68`: disabling beeps while one sounds also disables the
  call that would end it; `ToneOwned` names this as one of two ways for a tone to
  lose its last handler. The other, a key with key beeps off, is the finding of
  MCSound_nokeybeep.
- `common/svc/rtc_adj.c:21`: a correction within the second after a setting
  starts from the old copy and undoes the setting. `CorrectionExact` and
  `InStep` are for a copy that is up to date. Two hour presses within a second
  (`common/app/time/adj.c:9`) likewise count as one.
- `common/app/time/acal.c:113`: a second request after a correction uses the
  same measurement and moves a right clock.
- `common/app/time/app.c:193`: the sign of the calibration writes the value last
  edited, 0 if there was none, not the one in the chip.
- `common/app/time/acal.c:100`, `target/hal/rtc.c:77`: repeated calibrations may
  pass 8 bits, and are masked.
- `common/app/conf/app.c:147`: the hour beep's duration of 100 has two digits.
- `common/svc/menu.c:90`: an edit that the return home interrupted goes on when
  the cursor is still on its item. For what is written at once that is harmless;
  the menus with an item that reads first (`ti`, `da`, `cal`) put the cursor
  elsewhere when entered, which is what `CommitLoaded` rests on.
- `common/svc/beep.c:62`: a quiet interval with equal ends is none, not one of an
  hour. After a reset the copy of the clock is zero until the next second, so that
  hour 0 may be announced, and an alarm at 0:00 ring.
- `common/svc/backlight.c:25`: in the last quarter of a second before the light goes
  out the timer is zero already, so that a key does not keep it on.
- `common/app/otp/items.c`: the view of tokens survives a lock, when the watch is
  locked while it is shown, and then makes tokens of a key of zeros; it starts the
  timeout again even so. `KeyNotKept` counts it as use and holds.
- `target/hal/button.c:53`: the repeat counter is one for all buttons, and is set
  again only while no button is down; a second button inherits the time of the first.
- `target/hal/button.c:33`: samples go on for five seconds after the last poll that
  found a button down. A tap of 40 to 60 ms that falls between two polls at the end
  of that time is debounced as down, and the samples stop before four of them have
  seen the release: the button stays down to the loop until it is pressed again,
  and that press is not noticed. `DebouncerSettles` excepts such a press (`missed`).
- `common/app/speed/app.c:32`: the distance is unsigned and the sum with a negative
  step wraps, so that stepping below 0 leads to 9999 (`DistanceSum`), where all other
  numbers stop at their lower end.
- `target/hal/i2c.c`: a missing acknowledgement leaves the transfer started. The
  second write of powering on is not tested; `hal_mag3110_reg_read` is not used.
- `common/svc/chro.c`: a chronograph started again past its end at 100 minutes goes
  on beyond it.
- `common/app/time/adj.c`, `common/app/chro/app.c:44`: the hour view is left by a
  short press and the stopwatch by up, where all other screens are left by a long
  press, which these two ignore; `MenuLeavable` is for the key that leaves the screen
  shown.

## 6. What is not modelled

Vendored cryptography (pure functions of bytes), start-up and pins (straight-line
register writes), the simulator (another program), generators (build time), the
LCD (strings, segment tables, blink masks: data, of which no other component
reads anything back). In the modules above: popups, melodies attached to an
entry, frequencies, and the value of settings other than the calibration, all
without influence on the control; the arithmetic of tokens, of the compass'
calibration and heading, of the deviation in ppm, and the calendar of dates. A
reset is between two calls, except on the bus, where it comes at any step: a
reset inside `svc_countdown_dec` could leave -1 in a field.

## 7. The plan

Built, in this order: Countdown with its abstract specification, Sound, MainLoop,
Chrono, Alarm, Dispatch, Menu, Clock; then Debounce, Beepled, Otp, I2c and
Mag3110, HourBeep. What is left, the most important first:

1. **Watch**: Dispatch composed with Menu, and with the sound requests that keys
   and expiries make.
2. A finer-grained `svc_countdown_dec` with a reset between its writes, and what
   repairs a field that is -1.
3. **Lcd**: the two modes of drawing and blinking.
4. Operators over bounded inputs: `wday`, `atani`, `isqrt`, `ipow`, `get_ppm` with
   its width, the hundredths of `chro.c:90`, the span of `compass.c:42`.
5. Proofs: all safety properties of the present modules are proved; those of Watch,
   of which the parts' theorems are the lemmas, come with it.

Runs stay one for each question; where a new module brings its own, related
small ones are merged.
