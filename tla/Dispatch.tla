------------------------------ MODULE Dispatch ------------------------------
(***************************************************************************)
(* svc_main_proc (common/svc/main.c): what becomes of an event.  A key is  *)
(* eaten by what rings, everything else goes to the current view of the    *)
(* current app (common/app/app.c), and after a while without keys the      *)
(* watch returns to the time display (common/svc/menu.c).                  *)
(*                                                                         *)
(* One action is one call of svc_main_proc.  What the services and the     *)
(* apps decide is left open: whether a countdown expires or an alarm rings *)
(* in this pass, and what an app does with a key.                          *)
(***************************************************************************)
EXTENDS Integers

CONSTANTS
    Apps, Time,       \* the apps, the one that displays the time
    Views,            \* app -> set of its views
    Display,          \* the view of Time that displays it
    HasEnter,         \* the pairs of app and view that have an enter handler
    TimeToHome,       \* time_to_return_home, 0 if disabled: 42
    IdleValues        \* values of the uint8_t that counts idle seconds: 256

ASSUME AppsAssumption ==
    /\ Time \in Apps /\ Display \in Views[Time]
    /\ Views \in [Apps -> SUBSET UNION {Views[a] : a \in Apps}]
ASSUME TimesAssumption ==
    IdleValues \in Nat \ {0} /\ TimeToHome \in 0..IdleValues - 1

VARIABLES
    pending,                              \* who waits to be acknowledged
    keypress, div, time_idle,
    app_current, app_current_next,
    app_view_changed,
    view_current,                         \* app -> its view
    \* What the last call did:
    outcome,     \* what became of its key
    mained,      \* the app and view whose main was called, if any
    went_home,   \* the idle seconds had elapsed
    \* history:
    entered,     \* the app and view that was entered last
    quiet        \* seconds since the last key, up to TimeToHome

dispatch_vars ==
    <<pending, keypress, div, time_idle, app_current, app_current_next,
      app_view_changed, view_current, outcome, mained, went_home, entered, quiet>>

Sources == {"alarm", "countdown"}
Nobody == <<>>
Screens == UNION {{<<a, v>> : v \in Views[a]} : a \in Apps}
ASSUME EnterAssumption == HasEnter \subseteq Screens
DispatchEvents == [key : BOOLEAN, tick : BOOLEAN, aux : BOOLEAN]

DispatchInit ==
    /\ pending = {} /\ keypress = FALSE /\ div = 0 /\ time_idle = 0
    /\ app_current = Time /\ app_current_next = Time
    /\ app_view_changed = TRUE
    /\ view_current \in [Apps -> UNION {Views[a] : a \in Apps}]
    /\ \A a \in Apps : view_current[a] \in Views[a]
    /\ view_current[Time] = Display
    /\ outcome = "none" /\ mained = Nobody /\ went_home = FALSE
    /\ entered = Nobody /\ quiet = 0

-----------------------------------------------------------------------------
(* Keys.                                                                   *)

\* (mutant: the pending flags are cleared, then tested)
Eaten_ClearedFirst(ev) == FALSE

\* A key is eaten when somebody was pending, but it clears all of them.
Eaten(ev) == ev.key /\ pending # {}

-----------------------------------------------------------------------------
(* The prescaler: every fourth tick is a second.                           *)

Second(ev) == ev.tick /\ div = 0

Prescale(ev) == IF ev.tick THEN (div + 1) % 4 ELSE div

KeySeen(ev) == keypress \/ ev.key

\* (mutant: forgotten with every tick)
KeypressAfter_EveryTick(ev) == KeySeen(ev) /\ ~ev.tick
\* (mutant: never forgotten)
KeypressAfter_Kept(ev) == KeySeen(ev)

\* A key is remembered until the next second.
KeypressAfter(ev) == KeySeen(ev) /\ ~Second(ev)

\* svc_menu_process_timetohome.
IdleAfter(ev) ==
    IF ~Second(ev) \/ TimeToHome = 0 THEN time_idle
    ELSE IF KeySeen(ev) THEN 0
    ELSE (time_idle + 1) % IdleValues

GoHome(ev) == Second(ev) /\ TimeToHome # 0 /\ IdleAfter(ev) = TimeToHome

\* Which app comes next and which view Time shows, the watch having gone home.
NextApp(ev) == IF GoHome(ev) /\ app_current # Time THEN Time ELSE app_current_next
HomeView(ev) == GoHome(ev) /\ app_current = Time /\ view_current[Time] # Display
ViewsAfterHome(ev) ==
    IF HomeView(ev) THEN [view_current EXCEPT ![Time] = Display] ELSE view_current

-----------------------------------------------------------------------------
(* The app.                                                                *)

\* The app is left out of a call for the auxiliary timer, unless its handler
\* asks for it: only a running chronograph does.
Dispatched(ev, call_main) == ~ev.aux \/ call_main

\* (mutant: only a change of view is noted)
ViewChanged_NotOnLaunch(ev) == app_view_changed \/ HomeView(ev)

\* app_current_update, after app_set_view if the watch has gone home.
ViewChanged(ev) ==
    app_view_changed \/ HomeView(ev) \/ NextApp(ev) # app_current

\* What an app's main may do with a key: nothing, another view, another app.
HandleKey(app, views, changed) ==
    \/ /\ view_current' = views /\ app_view_changed' = changed
       /\ app_current_next' = app
    \/ /\ \E v \in Views[app] : view_current' = [views EXCEPT ![app] = v]
       /\ app_view_changed' = TRUE
       /\ app_current_next' = app
    \/ /\ view_current' = views /\ app_view_changed' = changed
       /\ app_current_next' \in Apps

\* The flag stays set while the view has no enter handler.
CallApp(ev) ==
    LET app    == NextApp(ev)
        views  == ViewsAfterHome(ev)
        screen == <<app, views[app]>>
        enters == ViewChanged(ev) /\ screen \in HasEnter
        changed == ViewChanged(ev) /\ ~enters
    IN  /\ app_current' = app
        /\ mained' = screen
        /\ entered' = IF enters THEN screen
                      ELSE IF entered = screen THEN entered ELSE Nobody
        /\ IF ev.key /\ ~Eaten(ev)
           THEN HandleKey(app, views, changed)
           ELSE /\ view_current' = views /\ app_view_changed' = changed
                /\ app_current_next' = app

SkipApp(ev) ==
    /\ app_current_next' = NextApp(ev)
    /\ view_current' = ViewsAfterHome(ev)
    /\ app_view_changed' = (app_view_changed \/ HomeView(ev))
    /\ mained' = Nobody
    /\ UNCHANGED <<app_current, entered>>

-----------------------------------------------------------------------------
(* The call.  A countdown expires with a second, before the app; an alarm  *)
(* rings after it.  What rings in this call was not there for its key.     *)

Capped(n) == IF n > TimeToHome THEN TimeToHome ELSE n

Acknowledge(ev) == IF ev.key THEN {} ELSE pending

svc_main_proc(ev) ==
    /\ \E rings \in SUBSET Sources :
           /\ "countdown" \in rings => Second(ev)
           /\ pending' = Acknowledge(ev) \union rings
    /\ keypress' = KeypressAfter(ev)
    /\ div' = Prescale(ev)
    /\ time_idle' = IdleAfter(ev)
    /\ went_home' = GoHome(ev)
    /\ quiet' = IF ev.key THEN 0 ELSE IF Second(ev) THEN Capped(quiet + 1) ELSE quiet
    /\ \E call_main \in BOOLEAN :
           /\ outcome' = IF ~ev.key THEN "none"
                         ELSE IF Eaten(ev) THEN "eaten"
                         ELSE IF Dispatched(ev, call_main) THEN "app" ELSE "lost"
           /\ IF Dispatched(ev, call_main) THEN CallApp(ev) ELSE SkipApp(ev)

DispatchNext == \E ev \in DispatchEvents : (ev.key \/ ev.tick \/ ev.aux) /\ svc_main_proc(ev)

Tick == [key |-> FALSE, tick |-> TRUE, aux |-> FALSE]

\* The RTC ticks.
DispatchSpec ==
    DispatchInit /\ [][DispatchNext]_dispatch_vars /\ WF_dispatch_vars(svc_main_proc(Tick))

-----------------------------------------------------------------------------
(* Properties.                                                             *)

DispatchTypeOK ==
    /\ pending \subseteq Sources /\ keypress \in BOOLEAN
    /\ div \in 0..3 /\ time_idle \in 0..IdleValues - 1
    /\ app_current \in Apps /\ app_current_next \in Apps
    /\ app_view_changed \in BOOLEAN
    /\ \A a \in Apps : view_current[a] \in Views[a]
    /\ outcome \in {"none", "eaten", "app", "lost"}
    /\ mained \in Screens \union {Nobody} /\ entered \in Screens \union {Nobody}
    /\ went_home \in BOOLEAN /\ quiet \in 0..TimeToHome

\* No view that has an enter handler is ever run without having been entered
\* since it became the current one: by a key, by a launch that the app's old
\* view survived, or by the return to the time display.
EnteredBeforeMain == mained \in HasEnter => entered = mained

\* The watch does not go home under the user's hands: when it does, that many
\* seconds have passed since the last key, delivered or not.
NotHomeEarly == went_home => quiet = TimeToHome

\* The key that acknowledges does nothing else: a key that comes while an alarm
\* or a countdown waits opens no view and launches no app, in this pass or with
\* the next, and only the return to the time display, when it is due in the same
\* pass, changes what is shown.
UnchangedOrHome(a) ==
    view_current'[a] = view_current[a]
    \/ (went_home' /\ a = Time /\ view_current'[a] = Display)
EatenKeyActsOnce ==
    [][pending # {} /\ outcome' # "none" =>
           /\ app_current_next' = app_current_next \/ (went_home' /\ app_current_next' = Time)
           /\ \A a \in Apps : UnchangedOrHome(a)]_dispatch_vars

\* Left alone, the watch returns to the time display and stays.
ComesHome ==
    (/\ TimeToHome # 0
     /\ <>[][\E ev \in DispatchEvents :
                ~ev.key /\ ~ev.aux /\ svc_main_proc(ev)]_dispatch_vars)
        => <>[](app_current = Time /\ view_current[Time] = Display)

\* README.md: after the services were handled the event is dispatched "to the
\* currently active app": a key that nobody ate is not lost.
KeyReachesApp == outcome # "lost"
=============================================================================
