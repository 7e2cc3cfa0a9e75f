------------------------------ MODULE MCAlarm ------------------------------
(***************************************************************************)
(* HourBeep for TLC.  The alarms and the hour beep share nothing but the   *)
(* clock and the pass, so the user of a behaviour edits either the alarms, *)
(* with the hour beep off, or the settings of the hour beep, with alarms   *)
(* that are off; both users set the clock.                                 *)
(***************************************************************************)
EXTENDS HourBeep

VARIABLE user

Off == [h |-> 0, m |-> 0, enable |-> FALSE, days |-> {}]

MCInit ==
    /\ HourInit
    /\ \/ user = "alarms" /\ ~beep_hour_enable /\ ~beep_hour_quiet_enable
          /\ beep_hour_quiet = [from |-> 0, to |-> 0]
       \/ user = "hours" /\ \A i \in Alarms : svc_alarms[i] = Off

MCNext ==
    /\ HourNext
    /\ user = "alarms" => UNCHANGED settings
    /\ user = "hours" => UNCHANGED svc_alarms
    /\ UNCHANGED user

MCSpec == MCInit /\ [][MCNext]_<<pass_vars, user>>
============================================================================
