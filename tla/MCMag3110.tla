----------------------------- MODULE MCMag3110 -----------------------------
(***************************************************************************)
(* Mag3110 for TLC: bytes of three bits, the lowest of a device address      *)
(* being the direction, and two of them read at a time.                    *)
(***************************************************************************)
EXTENDS Mag3110

MCDevice == <<TRUE, FALSE>>
MCCtrlReg1 == <<FALSE, TRUE, FALSE>>
MCCtrlReg2 == <<FALSE, TRUE, TRUE>>
MCOutX == <<TRUE, FALSE, FALSE>>
MCActive == <<TRUE, FALSE, TRUE>>
MCRaw == <<TRUE, TRUE, FALSE>>
=============================================================================
