--------------------------------- MODULE I2c ---------------------------------
(***************************************************************************)
(* The I2C master of target/hal/i2c.c, which moves the two lines bit by    *)
(* bit, and the device at their other end.                                 *)
(*                                                                         *)
(* A line is high unless somebody pulls it low.  The master makes the      *)
(* clock; the device follows its edges within I2C_delay, may keep the      *)
(* clock low for a while (the master waits without a timeout), and may     *)
(* lose its state at any time.  The device is not part of the sources: it  *)
(* is the register file that mag3110.c takes it for.                       *)
(***************************************************************************)
EXTENDS Integers, Sequences

CONSTANTS
    Width,      \* bits of a byte: 8
    Device      \* DEVICE_ADDR without its lowest bit, most significant bit first

ASSUME I2cAssumption ==
    Width \in Nat \ {0, 1} /\ Device \in [1..Width - 1 -> BOOLEAN]

VARIABLES
    sda_low, scl_low,   \* the master pulls the line: the pin is an output
    started,
    op,                 \* the call of hal_i2c_write_byte or _read_byte
    pc,                 \* how far it is
    cycle,              \* bits clocked
    byte,               \* bits read, the acknowledge bit of a write included
    slave               \* the device

i2c_vars == <<sda_low, scl_low, started, op, pc, cycle, byte, slave>>

Byte == [1..Width -> BOOLEAN]
Zero == [i \in 1..Width |-> FALSE]

\* The parameters of the two calls.  A bit that is not driven reads as TRUE.
hal_i2c_write_byte(start, stop, data) ==
    [write |-> TRUE, start |-> start, stop |-> stop, data |-> data, nack |-> TRUE]
hal_i2c_read_byte(nack, stop) ==
    [write |-> FALSE, start |-> FALSE, stop |-> stop, data |-> Zero, nack |-> nack]

\* What the device is doing: it has no power, is not up yet, waits for a START,
\* takes the address, a register number or a value, or sends values.
Off  == "off"
Boot == "boot"
Blank(mode) ==
    [mode |-> mode, n |-> 0, shift |-> <<>>, low |-> FALSE, stretch |-> FALSE,
     reg |-> Zero, written |-> <<>>, sent |-> <<>>]

-----------------------------------------------------------------------------
(* The lines, and the device that follows them.                            *)

SDA == ~sda_low /\ ~slave.low
SCL == ~scl_low /\ ~slave.stretch

\* A line as the device finds it after a step of the master.
SDA_next == ~sda_low' /\ ~slave.low
SCL_next == ~scl_low' /\ ~slave.stretch

Idle(s) == [s EXCEPT !.mode = "idle", !.low = FALSE]

\* The falling edge that follows does not end a bit.
Started(s) == [s EXCEPT !.mode = "addr", !.n = -1, !.shift = <<>>, !.low = FALSE]

\* Rising clock: a receiver takes the bit, a sender the acknowledge bit.
Sampled(s, bit) ==
    IF s.mode \in {"addr", "reg", "data"} /\ s.n < Width
    THEN [s EXCEPT !.shift = Append(@, bit)]
    ELSE IF s.mode = "send" /\ s.n = Width /\ bit THEN Idle(s) ELSE s

\* Eight bits are in: they are acknowledged, and taken, or the device drops out.
Acknowledged(s) ==
    IF s.mode = "addr" /\ SubSeq(s.shift, 1, Width - 1) # Device THEN Idle(s)
    ELSE [s EXCEPT !.n = Width, !.low = TRUE,
              !.reg = IF s.mode = "reg" THEN s.shift ELSE @,
              !.written = IF s.mode = "data" THEN <<s.reg, s.shift>> ELSE @]

Sends(s, value) ==
    [s EXCEPT !.mode = "send", !.n = 0, !.shift = value, !.low = ~value[1],
              !.sent = IF s.mode = "send" THEN Append(@, value) ELSE <<value>>]

Receives(s) ==
    [s EXCEPT !.mode = IF s.mode = "addr" THEN "reg" ELSE "data",
              !.n = 0, !.shift = <<>>, !.low = FALSE]

Addressed(s) == s.mode = "addr" /\ s.shift[Width]      \* for reading

\* Falling clock: the next bit, the acknowledge bit, or the next byte.
Shifted(s) ==
    IF s.mode = "idle" THEN {s}
    ELSE IF s.n < Width - 1 THEN
        {[s EXCEPT !.n = @ + 1, !.low = s.mode = "send" /\ ~s.shift[s.n + 2]]}
    ELSE IF s.n = Width - 1 THEN
        {IF s.mode = "send" THEN [s EXCEPT !.n = Width, !.low = FALSE]
         ELSE Acknowledged(s)}
    ELSE IF s.mode = "send" \/ Addressed(s)
    THEN {Sends(s, value) : value \in Byte} ELSE {Receives(s)}

Deaf == slave.mode \in {Off, Boot}

\* The device's part of a step that moves one of the lines.
Follow ==
    \/ Deaf /\ UNCHANGED slave
    \/ SCL = SCL_next /\ (~SCL \/ SDA = SDA_next) /\ UNCHANGED slave
    \/ /\ ~Deaf /\ SCL /\ SCL_next /\ SDA # SDA_next
       /\ slave' = IF SDA_next THEN Idle(slave) ELSE Started(slave)
    \/ ~Deaf /\ ~SCL /\ SCL_next /\ slave' = Sampled(slave, SDA_next)
    \/ /\ ~Deaf /\ SCL /\ ~SCL_next
       /\ \E s \in Shifted(slave), stretch \in BOOLEAN :
              slave' = [s EXCEPT !.stretch = stretch]

\* It lets the clock go, comes up, loses its state.
Release ==
    /\ slave.stretch
    /\ slave' = [(IF scl_low THEN slave ELSE Sampled(slave, SDA)) EXCEPT !.stretch = FALSE]
    /\ UNCHANGED <<sda_low, scl_low, started, op, pc, cycle, byte>>

Up ==
    /\ slave.mode = Boot /\ slave' = Blank("idle")
    /\ UNCHANGED <<sda_low, scl_low, started, op, pc, cycle, byte>>

Upset ==
    /\ ~Deaf /\ slave' = Blank(Boot)
    /\ UNCHANGED <<sda_low, scl_low, started, op, pc, cycle, byte>>

-----------------------------------------------------------------------------
(* The master, a step for each change of a line.                           *)

At(label) == pc = label
Goto(label) == pc' = label

SetSDA(high) == sda_low' = ~high /\ UNCHANGED scl_low /\ Follow
SetSCL(high) == scl_low' = ~high /\ UNCHANGED sda_low /\ Follow

Call(o) ==
    /\ At("ready") /\ Goto(IF o.start THEN "start" ELSE "bit")
    /\ op' = o /\ cycle' = 0 /\ byte' = <<>>
    /\ UNCHANGED <<sda_low, scl_low, started, slave>>

\* (mutant: started is not looked at)
ReleaseSDA_NoRestart ==
    /\ At("start") /\ Goto("start_sda")
    /\ SetSDA(TRUE)
    /\ UNCHANGED <<started, op, cycle, byte>>

\* i2c_start_cond.  Having started it makes a restart, and must release the
\* clock and wait for it; otherwise it trusts that both lines are high.
ReleaseSDA ==
    /\ At("start") /\ Goto(IF started THEN "restart" ELSE "start_sda")
    /\ SetSDA(TRUE)
    /\ UNCHANGED <<started, op, cycle, byte>>

\* (mutant: the clock is waited for and not released)
ReleaseSCL_OnlyRead ==
    /\ At("restart") /\ Goto("restart_wait")
    /\ UNCHANGED <<sda_low, scl_low, slave, started, op, cycle, byte>>

ReleaseSCL ==
    /\ At("restart") /\ Goto("restart_wait")
    /\ SetSCL(TRUE)
    /\ UNCHANGED <<started, op, cycle, byte>>

WaitSCL ==
    /\ At("restart_wait") /\ SCL /\ Goto("start_sda")
    /\ UNCHANGED <<sda_low, scl_low, started, op, cycle, byte, slave>>

StartCondition ==
    /\ At("start_sda") /\ Goto("start_scl")
    /\ SetSDA(FALSE)
    /\ UNCHANGED <<started, op, cycle, byte>>

StartDone ==
    /\ At("start_scl") /\ Goto("bit")
    /\ SetSCL(FALSE) /\ started' = TRUE
    /\ UNCHANGED <<op, cycle, byte>>

\* i2c_write_bit and i2c_read_bit: to read is to write a 1 and to look.
BitOut == IF op.write THEN cycle < Width => op.data[cycle + 1]
                      ELSE cycle = Width => op.nack

DriveBit ==
    /\ At("bit") /\ Goto("raise")
    /\ SetSDA(BitOut)
    /\ UNCHANGED <<started, op, cycle, byte>>

Raise ==
    /\ At("raise") /\ Goto("fall")
    /\ SetSCL(TRUE)
    /\ UNCHANGED <<started, op, cycle, byte>>

Looks == IF op.write THEN cycle = Width ELSE cycle < Width
AfterBit == IF cycle < Width THEN "bit" ELSE IF op.stop THEN "stop" ELSE "done"

\* (mutant: the clock is not waited for)
Fall_NoWait ==
    /\ At("fall") /\ Goto(AfterBit)
    /\ SetSCL(FALSE)
    /\ byte' = IF Looks THEN Append(byte, SDA) ELSE byte
    /\ cycle' = cycle + 1
    /\ UNCHANGED <<started, op>>

Fall ==
    /\ At("fall") /\ SCL /\ Goto(AfterBit)
    /\ SetSCL(FALSE)
    /\ byte' = IF Looks THEN Append(byte, SDA) ELSE byte
    /\ cycle' = cycle + 1
    /\ UNCHANGED <<started, op>>

\* i2c_stop_cond.
StopLow ==
    /\ At("stop") /\ Goto("stop_scl")
    /\ SetSDA(FALSE)
    /\ UNCHANGED <<started, op, cycle, byte>>

StopRaise ==
    /\ At("stop_scl") /\ Goto("stop_sda")
    /\ SetSCL(TRUE)
    /\ UNCHANGED <<started, op, cycle, byte>>

StopCondition ==
    /\ At("stop_sda") /\ SCL /\ Goto("done")
    /\ SetSDA(TRUE) /\ started' = FALSE
    /\ UNCHANGED <<op, cycle, byte>>

Nack == op.write /\ byte[1]

Transfer == \/ ReleaseSDA \/ ReleaseSCL \/ WaitSCL \/ StartCondition \/ StartDone
            \/ DriveBit \/ Raise \/ Fall \/ StopLow \/ StopRaise \/ StopCondition

External == Release \/ Up \/ Upset
=============================================================================
