--------------------------------- MODULE Menu ---------------------------------
(***************************************************************************)
(* svc_menu_run (common/svc/menu.c) with the menus the apps give it: what  *)
(* the keys do to a menu's cursor, to the number being adjusted in it and  *)
(* to the screen that is shown.                                            *)
(*                                                                         *)
(* A behaviour goes back and forth between the time display and one app:   *)
(* the menus of the time app, or another app behind the launcher.  A       *)
(* screen is a view of an app; some are menus, the rest handle keys on     *)
(* their own.  One action is one pass of the main loop with the keys of    *)
(* its event, or the return to the time display.                           *)
(*                                                                         *)
(* The calibration of the clock is followed through its edits; what other  *)
(* items adjust is a value that is found in range when its adjusting       *)
(* begins.                                                                 *)
(***************************************************************************)
EXTENDS Integers, Sequences

CONSTANTS
    Apps,             \* the apps a behaviour may visit
    Calibrations,     \* what the clock chip may be calibrated to at first
    Deviations,       \* deviations that store_cal may find: -240..240
    MaxSets           \* bound: calls of handler_set and store_cal

\* The chip holds a sign and 8 bits.
ASSUME MenuAssumption ==
    /\ Apps \subseteq {"time", "countdown", "alarm", "chro", "play", "compass", "speed",
                     "conf", "otp"}
    /\ Calibrations \subseteq -255..255 /\ Deviations \subseteq Int
    /\ MaxSets \in Nat

\* The menus' items, in their order.
LauncherItems == <<"time", "countdown", "alarm", "chro", "play", "compass",
                   "speed", "conf", "otp">>
TimeItems == <<"base", "acal", "ti", "da", "lang", "adj", "cal", "scal">>
AcalItems == <<"meas", "ssls", "ppm", "calst", "correct">>
ConfItems == <<"keb", "kef", "ked", "ben", "hrb", "hrf", "hrd", "hrt", "hrq",
               "hiq", "bti", "bbri", "con", "mel", "arep", "t2ho", "debug">>
AlarmItems == <<"al", "en", "days", "mel">>
CountdownItems == <<"start_stop", "ct", "mel">>
OtpItems == <<"uloc", "items", "loc">>
CompassItems == <<"h", "x", "y", "z", "compass_cal">>
CompassCalItems == <<"xc", "yc", "zc", "xs", "ys", "zs", "store">>
SpeedItems == <<"di", "run", "kmh">>

Items == [launcher |-> LauncherItems, time_conf |-> TimeItems, acal |-> AcalItems,
          conf |-> ConfItems, alarm_edit |-> AlarmItems,
          countdown_edit |-> CountdownItems, otp |-> OtpItems,
          compass |-> CompassItems, compass_cal |-> CompassCalItems,
          speed |-> SpeedItems]

Menus == DOMAIN Items

Choices == {"keb", "ben", "hrb", "hrq", "mel", "base", "lang", "scal", "en"}

\* Items with a number: the bounds of its fields, and the field and the step
\* of each digit, from the right.
Number(digits, low, high) ==
    [bounds |-> << <<low, high>> >>, digit |-> [d \in 0..digits - 1 |-> <<1, 10^d>>]]
Pairs(bounds) ==
    [bounds |-> bounds,
     digit |-> [d \in 0..2 * Len(bounds) - 1 |-> <<1 + d \div 2, 10^(d % 2)>>]]
Date == [bounds |-> << <<1, 31>>, <<1, 12>>, <<2000, 9999>> >>,
         digit |-> [d \in 0..7 |-> IF d < 4 THEN <<1 + d \div 2, 10^(d % 2)>>
                                            ELSE <<3, 10^(d - 4)>>]]
Hms == Pairs(<< <<0, 59>>, <<0, 59>>, <<0, 23>> >>)

AlarmTime == Pairs(<< <<0, 59>>, <<0, 23>> >>)
Pin == Number(4, 0, 9999)
Distance == Number(4, 0, 9999)
Calibration == Number(4, 0, 240)
BeepSettings ==
    [kef |-> Number(4, 400, 9999), ked |-> Number(2, 1, 50),
     hrf |-> Number(4, 400, 9999), hrd |-> Number(2, 1, 100),
     hiq |-> Pairs(<< <<0, 23>>, <<0, 23>> >>)]
OtherSettings ==
    [bti |-> Number(2, 1, 10), bbri |-> Number(2, 0, 10), con |-> Number(2, 0, 15),
     arep |-> Number(3, 0, 200), t2ho |-> Number(3, 0, 200)]

OtherNumbers ==
    [ti |-> Hms, da |-> Date, cal |-> Calibration, al |-> AlarmTime,
     ct |-> Hms, uloc |-> Pin, di |-> Distance]

\* Every item that can be adjusted, with its number.
Adj == [item \in DOMAIN BeepSettings \union DOMAIN OtherSettings \union DOMAIN OtherNumbers |->
           IF item \in DOMAIN BeepSettings THEN BeepSettings[item]
           ELSE IF item \in DOMAIN OtherSettings THEN OtherSettings[item]
           ELSE OtherNumbers[item]]

Type(item) == IF item \in DOMAIN Adj THEN "ADJ"
              ELSE IF item \in Choices THEN "CHOICE" ELSE "TEXT"
Digits(item) == 1 + (CHOOSE d \in DOMAIN Adj[item].digit :
                        \A e \in DOMAIN Adj[item].digit : e <= d)

\* Items that read what they adjust when it begins, and write it at the end.
Loading == {"ti", "da", "cal"}

\* Where leaving a menu leads to, and which menus it sends back to their first
\* item; where the other screens' keys lead to.
ExitTo == [launcher |-> "home", time_conf |-> "home", acal |-> "time_conf",
           conf |-> "launcher", otp |-> "launcher", speed |-> "launcher",
           compass |-> "launcher", compass_cal |-> "compass",
           alarm_edit |-> "alarm", countdown_edit |-> "countdown"]
Rewinding == {"conf", "otp", "speed", "compass", "compass_cal", "alarm_edit",
              "countdown_edit"}
Opens == [acal |-> "acal", adj |-> "adj", debug |-> "debug", days |-> "days",
          items |-> "items", compass_cal |-> "compass_cal",
          start_stop |-> "countdown"]
LongTo == [countdown |-> "launcher", alarm |-> "launcher", days |-> "alarm_edit",
           debug |-> "conf", items |-> "otp", play |-> "launcher"]
ShortTo == [countdown |-> "countdown_edit", alarm |-> "alarm_edit", adj |-> "time_conf"]

Keys == {"UP", "DOWN", "ENTER", "ENTER_LONG"}

\* A press is short or long, not both.  A tick comes without keys.
Events == {K \in SUBSET Keys : ~({"ENTER", "ENTER_LONG"} \subseteq K)}

VARIABLES
    app,                            \* the app this behaviour visits
    app_current, view_current,
    st,                             \* svc_menu_state_t of each menu
    value,                          \* the fields of the number being adjusted
    cal,                            \* the chip's calibration
    cal_value, cal_sign,
    \* history:
    loaded,       \* the item whose handler_enter was called on this screen
    touched,      \* handler_set was called since
    sets          \* how often MaxSets was drawn upon

calibration == <<cal, cal_value, cal_sign, touched, sets>>
vars == <<app, app_current, view_current, st, value, loaded, calibration>>

screen == view_current[app_current]
State == st[screen]
ItemOf(menu, states) == Items[menu][states[menu].item + 1]
Item == ItemOf(screen, st)

Init ==
    /\ app \in Apps
    /\ app_current = "time"
    /\ view_current = [a \in {"time", "launcher", app} |-> IF a = "time" THEN "home" ELSE a]
    /\ st = [m \in Menus |-> [item |-> 0, adj |-> FALSE, digit |-> 0]]
    /\ value = <<>>
    /\ cal \in IF app = "time" THEN Calibrations ELSE {0}
    /\ cal_value = 0 /\ cal_sign = FALSE
    /\ loaded = "none" /\ touched = FALSE /\ sets = 0

-----------------------------------------------------------------------------
(* Screens.                                                                *)

Rewound(m) == [st EXCEPT ![m].item = 0]

\* (mutant: the cursor stays where it was)
EnterView_KeepsItem(view, states) == states

\* The enter handlers of the time app's menus put their cursor on the first item.
EnterView(view, states) ==
    IF view \in {"time_conf", "acal"} THEN [states EXCEPT ![view].item = 0] ELSE states

\* A number as it may be found: every field at one end of its range.  There is
\* one only while it is being adjusted.
Found(item) ==
    IF item = "cal" THEN {<<cal_value>>}
    ELSE {[f \in DOMAIN Adj[item].bounds |-> Adj[item].bounds[f][b]] : b \in 1..2}
NumberOn(s, states) ==
    IF s \in Menus /\ states[s].adj /\ Type(ItemOf(s, states)) = "ADJ"
    THEN Found(ItemOf(s, states)) ELSE {<<>>}

app_set_view(view, states) ==
    /\ view_current' = [view_current EXCEPT ![app_current] = view]
    /\ st' = EnterView(view, states)
    /\ loaded' = "none" /\ value' \in NumberOn(view, st')
    /\ UNCHANGED <<app, app_current>>

\* An app comes back with the view it was left with.
app_launch(a, states) ==
    /\ app_current' = a
    /\ st' = states
    /\ loaded' = "none" /\ value' \in NumberOn(view_current[a], st')
    /\ UNCHANGED <<app, view_current>>

Go(to, states) ==
    IF to = "launcher" THEN app_launch("launcher", states)
    ELSE IF app_current = "launcher" THEN app_launch("time", states)
    ELSE app_set_view(to, states)

\* svc_menu_process_timetohome.  Whatever is being adjusted stays so.
ReturnHome ==
    /\ screen # "home"
    /\ IF app_current = "time" THEN app_set_view("home", st) ELSE app_launch("time", st)
    /\ UNCHANGED calibration

OnScreen == UNCHANGED <<app, app_current, view_current, loaded>>
StayOn(states) == st' = states /\ UNCHANGED value /\ OnScreen

-----------------------------------------------------------------------------
(* A menu in which nothing is being adjusted.  Of several keys one counts. *)

INC_MOD(x, mod) == IF x = mod - 1 THEN 0 ELSE x + 1
DEC_MOD(x, mod) == IF x = 0 THEN mod - 1 ELSE x - 1

Move(K) ==
    /\ K \intersect {"UP", "DOWN"} # {}
    /\ StayOn([st EXCEPT ![screen].item =
                   IF "DOWN" \in K THEN INC_MOD(@, Len(Items[screen]))
                                   ELSE DEC_MOD(@, Len(Items[screen]))])
    /\ UNCHANGED calibration

Exit(K) ==
    /\ K = {"ENTER_LONG"}
    /\ Go(ExitTo[screen], IF screen \in Rewinding THEN Rewound(screen) ELSE st)
    /\ UNCHANGED calibration

\* The chip holds a sign and 8 bits.
hal_rtc_cal_set(c) == cal' = IF c < 0 THEN -((-c) % 256) ELSE c % 256

\* What store_cal computes from the measurement is left open.
store_cal ==
    \/ UNCHANGED calibration
    \/ /\ sets < MaxSets /\ sets' = sets + 1
       /\ \E ppm \in Deviations : hal_rtc_cal_set(cal - ppm)
       /\ UNCHANGED <<cal_value, cal_sign, touched>>

\* A text item: another app, another screen, or something outside the menus.
\* The tokens are shown only when unlocked.  A behaviour visits no third app:
\* its item does nothing.
Select(K) ==
    /\ K = {"ENTER"} /\ Type(Item) = "TEXT"
    /\ IF Item = "calst" THEN store_cal ELSE UNCHANGED calibration
    /\ \/ screen = "launcher" /\ Item \in {"time", app} /\ app_launch(Item, st)
       \/ /\ Item \in DOMAIN Opens
          /\ app_set_view(Opens[Item], IF Item \in {"start_stop", "compass_cal"}
                                       THEN Rewound(screen) ELSE st)
       \/ Item \notin (DOMAIN Opens \ {"items"}) \union {"time", app} /\ StayOn(st)

\* A choice: the next of them is taken, which for scal calls cal_leave.
Choose(K) ==
    /\ K = {"ENTER"} /\ Type(Item) = "CHOICE"
    /\ StayOn(st)
    /\ IF Item = "scal"
       THEN /\ cal_sign' = ~cal_sign
            /\ hal_rtc_cal_set(IF cal_sign' THEN -cal_value ELSE cal_value)
            /\ UNCHANGED <<cal_value, touched, sets>>
       ELSE UNCHANGED calibration

\* (mutant: the sign is only ever set)
CalSign_Kept == cal_sign \/ cal < 0

CalSign == cal < 0

\* The number as it is found: by cal_enter, adj_enter or with handler_get.
Load ==
    /\ IF Item = "cal"
       THEN /\ cal_value' = (IF cal < 0 THEN -cal ELSE cal) /\ cal_sign' = CalSign
            /\ value' = <<cal_value'>>
       ELSE value' \in Found(Item) /\ UNCHANGED <<cal_value, cal_sign>>
    /\ touched' = FALSE
    /\ UNCHANGED <<cal, sets>>

\* (mutant: past the last digit)
FirstDigit_OffByOne(item) == Digits(item)

FirstDigit(item) == Digits(item) - 1

Adjust(K) ==
    /\ K = {"ENTER"} /\ Type(Item) = "ADJ"
    /\ st' = [st EXCEPT ![screen] = [item |-> @.item, adj |-> TRUE, digit |-> FirstDigit(Item)]]
    /\ loaded' = IF Item \in Loading THEN Item ELSE loaded
    /\ Load
    /\ UNCHANGED <<app, app_current, view_current>>

-----------------------------------------------------------------------------
(* A menu in which a number is being adjusted: up or down is followed by   *)
(* the end of it, or by the step to the next digit, if the keys say so.    *)

Clamp(x, low, high) == IF x > high THEN high ELSE IF x < low THEN low ELSE x

Dir(K) == IF "UP" \in K THEN 1 ELSE IF "DOWN" \in K THEN -1 ELSE 0

\* The idle time is 0, that is never, or at least 5 seconds.
IdleTime(x, inc) ==
    IF x = 0 THEN 5 ELSE LET y == Clamp(x + inc, 4, 200) IN IF y < 5 THEN 0 ELSE y

\* The distance of speed is a uint16_t, and so is its sum with what is added.
DistanceSum(x, inc) == (x + inc) % 65536

Stepped(x, inc, bounds) ==
    IF Item = "t2ho" THEN IdleTime(x, inc)
    ELSE Clamp(IF Item = "di" THEN DistanceSum(x, inc) ELSE x + inc, bounds[1], bounds[2])

\* handler_set(digits - adj_digit - 1, dir); adj_digit counts from the left.
handler_set(dir) ==
    LET dig == Adj[Item].digit[Digits(Item) - State.digit - 1]
    IN  [value EXCEPT ![dig[1]] = Stepped(@, dir * dig[2], Adj[Item].bounds[dig[1]])]

\* cal_leave writes what is being shown; what the others write is not in here.
handler_leave ==
    IF Item = "cal" THEN hal_rtc_cal_set(IF cal_sign THEN -cal_value' ELSE cal_value')
    ELSE UNCHANGED cal

\* (mutant: the mode is left only from the first digit)
StillAdjusting_OnDigits(K) == "ENTER_LONG" \notin K \/ State.digit # Digits(Item) - 1
StillAdjusting(K) == "ENTER_LONG" \notin K

Adjusting(K) ==
    /\ Type(Item) = "ADJ"
    /\ Dir(K) # 0 => sets < MaxSets
    /\ sets' = IF Dir(K) = 0 THEN sets ELSE sets + 1
    /\ touched' = (touched \/ Dir(K) # 0)
    /\ LET number == IF Dir(K) = 0 THEN value ELSE handler_set(Dir(K))
       IN  /\ cal_value' = IF Item = "cal" THEN number[1] ELSE cal_value
           /\ value' = IF StillAdjusting(K) THEN number ELSE <<>>
    /\ IF StillAdjusting(K) THEN UNCHANGED cal ELSE handler_leave
    /\ st' = [st EXCEPT ![screen] =
                  [item  |-> @.item,
                   adj   |-> StillAdjusting(K),
                   digit |-> IF "ENTER" \in K THEN INC_MOD(@.digit, Digits(Item)) ELSE @.digit]]
    /\ OnScreen
    /\ UNCHANGED cal_sign

\* The cursor is not where the adjusting began: it is over, and keys are lost.
NotAdjustable ==
    /\ Type(Item) # "ADJ"
    /\ StayOn([st EXCEPT ![screen].adj = FALSE])
    /\ UNCHANGED calibration

svc_menu_run(K) ==
    /\ screen \in Menus
    /\ IF State.adj
       THEN Adjusting(K) \/ NotAdjustable
       ELSE Move(K) \/ Exit(K) \/ Select(K) \/ Choose(K) \/ Adjust(K)

-----------------------------------------------------------------------------
(* The other screens.                                                      *)

Sideways(K) == K \intersect {"UP", "DOWN"} # {}

app_app_time_display_main(K) ==
    /\ screen = "home"
    /\ IF "ENTER_LONG" \in K
       THEN IF app = "time" THEN app_set_view("time_conf", st) ELSE StayOn(st)
       ELSE IF "DOWN" \notin K /\ "UP" \in K /\ app # "time"
            THEN app_launch("launcher", st) ELSE StayOn(st)
    /\ UNCHANGED calibration

\* Lists, and the views that are left by a key.  The stopwatch looks for the
\* long press not at all, and for up only without the others.
other_main(K) ==
    /\ screen \notin Menus \union {"home"}
    /\ IF K = {"ENTER_LONG"} /\ screen \in DOMAIN LongTo THEN Go(LongTo[screen], st)
       ELSE IF screen = "chro" /\ K \ {"ENTER_LONG"} = {"UP"} THEN Go("launcher", st)
       ELSE IF "ENTER" \in K /\ screen \in DOMAIN ShortTo /\ ~(screen = "adj" /\ Sideways(K))
       THEN app_set_view(ShortTo[screen], st)
       ELSE StayOn(st)
    /\ UNCHANGED calibration

Press(K) == svc_menu_run(K) \/ app_app_time_display_main(K) \/ other_main(K)

Next == ReturnHome \/ \E K \in Events : Press(K)

Spec == Init /\ [][Next]_vars

-----------------------------------------------------------------------------
(* Properties.                                                             *)

Screens == Menus \union DOMAIN LongTo \union DOMAIN ShortTo \union {"home", "chro"}

\* A number is being adjusted.
Editing == screen \in Menus /\ State.adj /\ Type(Item) = "ADJ"

\* With the number being adjusted, each of its fields in its range.  A
\* calibration may be found past the range in which it can be set.
TypeOK ==
    /\ app \in Apps /\ app_current \in {"time", "launcher", app}
    /\ view_current \in [{"time", "launcher", app} -> Screens]
    /\ st \in [Menus -> [item : Nat, adj : BOOLEAN, digit : Int]]
    /\ \A m \in Menus : st[m].item < Len(Items[m])
    /\ cal \in -255..255 /\ cal_value \in 0..255 /\ cal_sign \in BOOLEAN
    /\ loaded \in Loading \union {"none"} /\ touched \in BOOLEAN
    /\ sets \in 0..MaxSets
    /\ Editing => \A f \in DOMAIN value :
          LET bounds == Adj[Item].bounds[f]
          IN  value[f] \in bounds[1]..bounds[2] \/ (Item = "cal" /\ ~touched)

\* A digit of the number is selected whenever handler_set may be called: the
\* cursor of a menu left in the middle of adjusting, by the return home, is
\* still on the item it was on, or on one that cannot be adjusted.
DigitValid == Editing => State.digit \in 0..Digits(Item) - 1

\* An edit of time, date or calibration writes only what it has read since its
\* screen appeared: one that the return home has interrupted is given up, and
\* never writes the time at which it began.  (The choice of the sign writes the
\* calibration too, and reads it not at all: Choose.)
CommitLoaded ==
    [][Editing /\ Item \in Loading /\ ~st'[screen].adj => loaded = Item]_vars

\* Looking at the calibration does not change it: read, split into value and
\* sign, shown, put together and written, it is the same.
CalEditNeutral ==
    [][Editing /\ Item = "cal" /\ ~touched' => cal' = cal]_vars

\* The watch can be brought to the time display from every screen of every app
\* and whatever is being adjusted, by the key that leaves the screen it shows: a
\* short press at the hour view, up at the stopwatch, a long press elsewhere.
LeavingKey == CASE screen = "adj" -> "ENTER" [] screen = "chro" -> "UP"
                [] OTHER -> "ENTER_LONG"
Leave == Press({LeavingKey})
MenuLeavable == WF_vars(Leave) /\ <>[][Leave]_vars => []<>(screen = "home")
=============================================================================
