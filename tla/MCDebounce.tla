----------------------------- MODULE MCDebounce -----------------------------
(***************************************************************************)
(* The main loop and the debouncer for TLC, each against anything that the *)
(* other may do: in a behaviour either the loop is detailed and any        *)
(* buttons may be found down, or the debouncer is detailed and the loop    *)
(* may take any latch at any time.  The latches are the same variables.    *)
(***************************************************************************)
EXTENDS Debounce

VARIABLE detailed

MCvars == <<vars, deb_vars, detailed>>

MCInit ==
    /\ Init /\ DebInit
    /\ \/ detailed = "loop"
       \/ detailed = "debouncer" /\ confirmed

Loop      == detailed = "loop" /\ UNCHANGED <<deb_vars, detailed>>
Debouncer == detailed = "debouncer" /\ UNCHANGED detailed

\* The debouncer never reads the two latches: it loses nothing to a loop that
\* takes them at once, and there are fewer states.
Taken_at_once == button_press = {} /\ button_rpt = {}

DebouncerNext ==
    \/ Taken_at_once /\ (Sample \/ TimerA3_1_ISR \/ Bounce)
    \/ ~Taken_at_once /\ LoopTakes(Buttons)

MCNext == \/ Loop /\ Next
          \/ Debouncer /\ DebouncerNext

MCSpec ==
    /\ MCInit /\ [][MCNext]_MCvars
    /\ WF_MCvars(Loop /\ Main) /\ WF_MCvars(Loop /\ RTC_ISR)
    /\ WF_MCvars(Debouncer /\ ~Taken_at_once /\ LoopTakes(Buttons))
    /\ WF_MCvars(Debouncer /\ Taken_at_once /\ Sample)
    /\ WF_MCvars(Debouncer /\ Taken_at_once /\ TimerA3_1_ISR)

\* The debouncer's part of Settles.
DebouncerSettles == detailed = "debouncer" => Settles
=============================================================================
