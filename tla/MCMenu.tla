-------------------------------- MODULE MCMenu --------------------------------
(***************************************************************************)
(* The menus with calibrations at the ends of their range, and the         *)
(* one-time passwords behind theirs.                                       *)
(***************************************************************************)
EXTENDS Otp

MCCalibrations == {7, 240, -255}
MCDeviations == {-240, 1}
=============================================================================
