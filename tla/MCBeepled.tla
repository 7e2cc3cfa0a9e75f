------------------------------ MODULE MCBeepled ------------------------------
(***************************************************************************)
(* Beepled for TLC, with a short melody.                                  *)
(***************************************************************************)
EXTENDS Beepled

MCMelodies == [
    siren |-> << [freq |-> 0, duration |-> 1], [freq |-> 2, duration |-> 2] >> ]
==============================================================================
