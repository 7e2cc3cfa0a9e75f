------------------------------- MODULE Chrono -------------------------------
(***************************************************************************)
(* The two chronographs of common/svc/chro.c, the stopwatch app that       *)
(* drives the first (common/app/chro/app.c) and the speedometer that       *)
(* drives the second (common/app/speed/app.c).                             *)
(*                                                                         *)
(* n_running shadows the chronographs that are not stopped, and decides    *)
(* when the auxiliary timer is given back: were it ever short, a running   *)
(* chronograph would stand still; were it over, the timer would run until  *)
(* the battery is empty.  It is kept by start, stop and the end of the     *)
(* range, but neither by hold nor by reset, which rely on how the two apps *)
(* call them.                                                              *)
(***************************************************************************)
EXTENDS Integers, FiniteSets

CONSTANTS
    Subsecs,     \* auxiliary timer ticks of a second: 128
    Secs,        \* seconds of a minute: 60
    MaxMin,      \* the minute at which a chronograph stops: 100
    MinValues    \* values of the uint8_t that counts minutes: 256

ASSUME RangeAssumption ==
    /\ Subsecs \in Nat /\ Subsecs > 1
    /\ Secs \in Nat /\ Secs > 1
    /\ MaxMin \in Nat /\ MinValues \in Nat /\ 0 < MaxMin /\ MaxMin < MinValues

STOPWATCH == 0
SPEED == 1
Chronos == {STOPWATCH, SPEED}

VARIABLES chros, n_running,
          req_chro   \* the chronographs' bit of aux_timer_req

vars == <<chros, n_running, req_chro>>

Times == [min : 0..MinValues - 1, sec : 0..Secs - 1, subsec : 0..Subsecs - 1]
Zero == [min |-> 0, sec |-> 0, subsec |-> 0]
States == {"STOP", "HOLD", "RUN"}
Items == [t : Times, t_hold : Times, state : States]

Init ==
    /\ chros = [i \in Chronos |-> [t |-> Zero, t_hold |-> Zero, state |-> "STOP"]]
    /\ n_running = 0
    /\ req_chro = FALSE

State(i) == chros[i].state
Runs(i) == State(i) \in {"RUN", "HOLD"}
Running == {i \in Chronos : Runs(i)}

-----------------------------------------------------------------------------
(* The timer's handler.                                                    *)

\* The uint8_t of the minutes wraps.
Later(t) ==
    IF t.subsec + 1 < Subsecs THEN [t EXCEPT !.subsec = @ + 1]
    ELSE IF t.sec + 1 < Secs  THEN [min |-> t.min, sec |-> t.sec + 1, subsec |-> 0]
    ELSE [min |-> (t.min + 1) % MinValues, sec |-> 0, subsec |-> 0]

\* The end of the range is met when the minutes become MaxMin, not when they
\* are beyond: a chronograph started again there goes on.
Ends(t) == t.min # MaxMin /\ Later(t).min = MaxMin

\* (mutant: a chronograph that is held does not advance)
svc_chro_inc_NotHeld(it) ==
    IF it.state = "RUN"
    THEN [it EXCEPT !.t = Later(it.t), !.state = IF Ends(it.t) THEN "STOP" ELSE @]
    ELSE it

svc_chro_inc(it) ==
    IF it.state = "STOP" THEN it
    ELSE [it EXCEPT !.t = Later(it.t), !.state = IF Ends(it.t) THEN "STOP" ELSE @]

\* (mutant: the end of the range is not counted)
Minus_NotCounted(n, ended) == n

\* if(n_running > 0) n_running--, once for each of the ended.
Minus(n, ended) == IF n > Cardinality(ended) THEN n - Cardinality(ended) ELSE 0

\* (mutant: the timer is given back while a chronograph still runs)
svc_aux_timer_chro_handler_Early ==
    /\ req_chro
    /\ LET ended == {i \in Running : Ends(chros[i].t)} IN
           n_running' = Minus(n_running, ended)
    /\ chros' = [i \in Chronos |-> svc_chro_inc(chros[i])]
    /\ req_chro' = (n_running' > 1)

svc_aux_timer_chro_handler ==
    /\ req_chro
    /\ LET ended == {i \in Running : Ends(chros[i].t)} IN
           n_running' = Minus(n_running, ended)
    /\ chros' = [i \in Chronos |-> svc_chro_inc(chros[i])]
    /\ req_chro' = (n_running' # 0)

-----------------------------------------------------------------------------
(* The service's calls.                                                    *)

svc_chro_start(i) ==
    /\ req_chro' = TRUE
    /\ n_running' = IF State(i) = "STOP" THEN n_running + 1 ELSE n_running
    /\ chros' = [chros EXCEPT ![i].state = "RUN"]

\* (mutant: a chronograph that is held is not counted when it is stopped)
svc_chro_stop_HeldNotCounted(i) ==
    /\ n_running' = IF n_running > 0 /\ State(i) = "RUN" THEN n_running - 1 ELSE n_running
    /\ chros' = [chros EXCEPT ![i].state = "STOP"]
    /\ UNCHANGED req_chro

svc_chro_stop(i) ==
    /\ n_running' = IF n_running > 0 /\ Runs(i) THEN n_running - 1 ELSE n_running
    /\ chros' = [chros EXCEPT ![i].state = "STOP"]
    /\ UNCHANGED req_chro

svc_chro_hold(i) ==
    /\ chros' = [chros EXCEPT ![i].state = "HOLD", ![i].t_hold = chros[i].t]
    /\ UNCHANGED <<n_running, req_chro>>

svc_chro_reset(i) ==
    /\ chros' = [chros EXCEPT ![i].state = "STOP", ![i].t = Zero]
    /\ UNCHANGED <<n_running, req_chro>>

-----------------------------------------------------------------------------
(* The apps' keys.                                                         *)

stopwatch_enter ==
    \/ State(STOPWATCH) = "RUN" /\ svc_chro_hold(STOPWATCH)
    \/ State(STOPWATCH) # "RUN" /\ svc_chro_start(STOPWATCH)

stopwatch_down ==
    \/ Runs(STOPWATCH) /\ svc_chro_stop(STOPWATCH)
    \/ State(STOPWATCH) = "STOP" /\ svc_chro_reset(STOPWATCH)

\* Reset, then start; reset touches neither n_running nor the timer.
ResetAndStart(i) ==
    /\ req_chro' = TRUE /\ n_running' = n_running + 1
    /\ chros' = [chros EXCEPT ![i].state = "RUN", ![i].t = Zero]

time_startstop ==
    \/ State(SPEED) = "RUN" /\ svc_chro_stop(SPEED)
    \/ State(SPEED) = "STOP" /\ ResetAndStart(SPEED)

-----------------------------------------------------------------------------
Next ==
    \/ stopwatch_enter \/ stopwatch_down
    \/ time_startstop
    \/ svc_aux_timer_chro_handler

\* While it is required, the timer's interrupt keeps waking the main loop.
Spec == Init /\ [][Next]_vars /\ WF_vars(svc_aux_timer_chro_handler)

-----------------------------------------------------------------------------
(* Properties.                                                             *)

TypeOK ==
    /\ chros \in [Chronos -> Items]
    /\ n_running \in 0..Cardinality(Chronos)
    /\ req_chro \in BOOLEAN

\* n_running is the number of chronographs that are not stopped, whichever of
\* hold, stop, start, reset and the end of the range came in between.
CountExact == n_running = Cardinality(Running)

\* A chronograph that runs, held or not, has the timer.
TimerKept == Running # {} => req_chro

\* A tick of the timer reaches every chronograph that runs, moves it on by
\* exactly one subsecond through all the carries, held or not, and moves no
\* other: two chronographs never drift apart.
Subseconds(t) == (t.min * Secs + t.sec) * Subsecs + t.subsec
Advanced(i) ==
    /\ Runs(i) => Subseconds(chros[i].t') =
                     (Subseconds(chros[i].t) + 1) % (MinValues * Secs * Subsecs)
    /\ ~Runs(i) => chros[i]' = chros[i]
NoTickLost == [][svc_aux_timer_chro_handler => \A i \in Chronos : Advanced(i)]_vars

\* Once everything is stopped, by key or by the end of the range, the timer is
\* given back, unless something is started first.
TimerReleased == Running = {} ~> ~req_chro \/ Running # {}
=============================================================================
