------------------------------- MODULE MCSound -------------------------------
(***************************************************************************)
(* Sound for TLC: one melody with two notes and a rest between them, one   *)
(* with a single note.                                                     *)
(***************************************************************************)
EXTENDS Sound

MCMelodies == [
    siren |-> << [freq |-> 1, duration |-> 2],
                 [freq |-> 0, duration |-> 1],
                 [freq |-> 2, duration |-> 1] >>,
    blip  |-> << [freq |-> 2, duration |-> 1] >> ]
==============================================================================
