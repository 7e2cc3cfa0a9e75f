------------------------------- MODULE Mag3110 -------------------------------
(***************************************************************************)
(* The compass: the driver target/hal/mag3110.c, which reads and writes    *)
(* registers over I2c, and the service common/svc/compass.c, which powers  *)
(* it when it is read and off when it was not for a while.                 *)
(*                                                                         *)
(* A transfer that is not acknowledged is given up without a STOP, and     *)
(* powering on repeats the first one until it is acknowledged.             *)
(***************************************************************************)
EXTENDS I2c

CONSTANTS
    CtrlReg1, CtrlReg2, OutX,    \* registers
    Active, Raw,                 \* what is written to the first two
    NBytes,                      \* bytes read: 6
    Timeout                      \* SVC_COMPASS_TIMEOUT*4: 40

ASSUME Mag3110Assumption ==
    /\ {CtrlReg1, CtrlReg2, OutX, Active, Raw} \subseteq Byte
    /\ NBytes \in Nat \ {0} /\ Timeout \in 1..255

VARIABLES
    timeout,    \* of svc/compass.c
    fn,         \* the register access being made, "none" when there is none
    todo,       \* the calls of the I2C master it has still to make
    buf,        \* bytes read so far
    ok,         \* what hal_mag3110_read said last: the buffer is good
    pure        \* history: the device was up all through the access

mag_vars == <<timeout, fn, todo, buf, ok, pure>>
vars == <<i2c_vars, mag_vars>>

Init ==
    /\ sda_low = TRUE /\ scl_low = TRUE /\ started = FALSE
    /\ op = hal_i2c_read_byte(FALSE, FALSE) /\ pc = "ready" /\ cycle = 0 /\ byte = <<>>
    /\ slave = Blank(Off)
    /\ timeout = 0 /\ fn = "none" /\ todo = <<>> /\ buf = <<>>
    /\ ok = FALSE /\ pure = FALSE

-----------------------------------------------------------------------------
(* Register accesses.                                                      *)

DEVICE_ADDR == Append(Device, FALSE)
DEVICE_ADDR_READ == Append(Device, TRUE)

hal_mag3110_reg_write(addr, value) ==
    <<hal_i2c_write_byte(TRUE, FALSE, DEVICE_ADDR),
      hal_i2c_write_byte(FALSE, FALSE, addr),
      hal_i2c_write_byte(FALSE, TRUE, value)>>

\* (mutant: no restart before reading)
hal_mag3110_reg_read_burst_NoRestart(addr) ==
    <<hal_i2c_write_byte(TRUE, FALSE, DEVICE_ADDR),
      hal_i2c_write_byte(FALSE, FALSE, addr),
      hal_i2c_write_byte(FALSE, FALSE, DEVICE_ADDR_READ)>>
    \o [i \in 1..NBytes |-> hal_i2c_read_byte(i = NBytes, i = NBytes)]

hal_mag3110_reg_read_burst(addr) ==
    <<hal_i2c_write_byte(TRUE, FALSE, DEVICE_ADDR),
      hal_i2c_write_byte(FALSE, FALSE, addr),
      hal_i2c_write_byte(TRUE, FALSE, DEVICE_ADDR_READ)>>
    \o [i \in 1..NBytes |-> hal_i2c_read_byte(i = NBytes, i = NBytes)]

Access(name, calls) == fn' = name /\ todo' = calls /\ buf' = <<>> /\ pure' = ~Deaf

WriteCtrlReg1 == Access("ctrl1", hal_mag3110_reg_write(CtrlReg1, Active))
WriteCtrlReg2 == Access("ctrl2", hal_mag3110_reg_write(CtrlReg2, Raw))
ReadOut       == Access("read", hal_mag3110_reg_read_burst(OutX))

InAccess == fn \in {"ctrl1", "ctrl2", "read"}

\* The next byte, unless the last was refused.
NextByte ==
    /\ InAccess /\ todo # <<>>
    /\ Call(Head(todo)) /\ todo' = Tail(todo)
    /\ UNCHANGED <<timeout, fn, buf, ok, pure>>

\* The access is given up at the first byte that is refused.
Refused == Nack

EndByte ==
    /\ At("done") /\ Goto("ready")
    /\ buf' = IF op.write THEN buf ELSE Append(buf, byte)
    /\ IF Refused THEN todo' = <<>> ELSE UNCHANGED todo
    /\ UNCHANGED <<sda_low, scl_low, started, op, cycle, byte, slave,
                   timeout, fn, ok, pure>>

-----------------------------------------------------------------------------
(* Power.                                                                  *)

Ended == At("ready") /\ InAccess /\ todo = <<>>

\* svc_compass_read: with the timeout run out, power comes first.
svc_compass_read ==
    /\ At("ready") /\ fn = "none"
    /\ timeout' = Timeout
    /\ IF timeout = 0
       THEN /\ fn' = "init_scl"
            /\ slave' = IF slave.mode = Off THEN Blank(Boot) ELSE slave
            /\ UNCHANGED <<todo, buf, pure>>
       ELSE ReadOut /\ UNCHANGED slave
    /\ UNCHANGED <<sda_low, scl_low, started, op, pc, cycle, byte, ok>>

\* hal_i2c_init makes inputs of the clock and of the data pin, in this order.
InitSCL ==
    /\ fn = "init_scl" /\ fn' = "init_sda"
    /\ SetSCL(TRUE)
    /\ UNCHANGED <<started, op, pc, cycle, byte, timeout, todo, buf, ok, pure>>

InitSDA ==
    /\ fn = "init_sda" /\ SetSDA(TRUE)
    /\ fn' = "init" /\ UNCHANGED <<todo, buf, pure>>
    /\ UNCHANGED <<started, op, pc, cycle, byte, timeout, ok>>

AfterCtrl1 == IF Nack THEN WriteCtrlReg1 ELSE WriteCtrlReg2

\* From one access to the next; the result of the second write is ignored.
NextAccess ==
    /\ \/ fn = "init" /\ WriteCtrlReg1
       \/ Ended /\ fn = "ctrl1" /\ AfterCtrl1
       \/ Ended /\ fn = "ctrl2" /\ ReadOut
    /\ UNCHANGED <<i2c_vars, timeout, ok>>

EndRead ==
    /\ Ended /\ fn = "read" /\ fn' = "none"
    /\ ok' = ~Nack
    /\ UNCHANGED <<i2c_vars, timeout, todo, buf, pure>>

\* Each tick.  hal_i2c_deinit pulls both lines low, then the power goes; with
\* the timeout run out this is done again and again.
svc_compass_process ==
    /\ At("ready") /\ fn = "none"
    /\ IF timeout > 0
       THEN timeout' = timeout - 1 /\ UNCHANGED <<sda_low, scl_low, slave>>
       ELSE /\ UNCHANGED timeout
            /\ sda_low' = TRUE /\ scl_low' = TRUE /\ slave' = Blank(Off)
    /\ UNCHANGED <<started, op, pc, cycle, byte, fn, todo, buf, ok, pure>>

\* A reset, at any point of a transfer: started is cleared, and
\* hal_mag3110_init takes the power away.
Reset ==
    /\ sda_low' = TRUE /\ scl_low' = TRUE /\ started' = FALSE
    /\ slave' = Blank(Off) /\ pc' = "ready"
    /\ timeout' = 0 /\ fn' = "none" /\ todo' = <<>> /\ buf' = <<>> /\ ok' = FALSE
    /\ UNCHANGED <<op, cycle, byte, pure>>

-----------------------------------------------------------------------------
Driver == NextByte \/ EndByte \/ InitSCL \/ InitSDA \/ NextAccess \/ EndRead

Bus == Transfer /\ UNCHANGED mag_vars

World ==
    /\ External
    /\ pure' = (pure /\ ~Upset)
    /\ UNCHANGED <<timeout, fn, todo, buf, ok>>

Next == Bus \/ Driver \/ World \/ svc_compass_read \/ svc_compass_process \/ Reset

\* The CPU goes on where it is not waiting; the device lets the clock go and
\* comes up.
Spec ==
    /\ Init /\ [][Next]_vars
    /\ WF_vars(Bus) /\ WF_vars(Driver)
    /\ WF_vars(Release /\ UNCHANGED mag_vars) /\ WF_vars(Up /\ UNCHANGED mag_vars)

-----------------------------------------------------------------------------
(* Properties.                                                             *)

\* When the master pulls the data line low to start or to start again, nobody
\* holds either line: the flag that lets i2c_start_cond skip the wait for the
\* clock tells the truth after every transfer that was given up without a STOP,
\* power cycle and reset, and a restart finds the data line let go.
StartOnFreeBus == At("start_sda") => SCL /\ SDA

\* When the last byte of a write is acknowledged the write has been made: a
\* device that lost its state, or came up, in the middle of a transfer does not
\* acknowledge what it did not take from its beginning.
LastByteTaken == op.write /\ cycle = Width /\ todo = <<>> /\ At("fall") /\ SCL /\ ~SDA
AckMeansWritten ==
    LastByteTaken =>
        /\ fn = "ctrl1" => slave.written = <<CtrlReg1, Active>>
        /\ fn = "ctrl2" => slave.written = <<CtrlReg2, Raw>>

\* What was read is what the device sent, beginning with the register asked
\* for, and it has sent no more than that: byte by byte, bit by bit, through
\* the restart, unless it has lost its state meanwhile (nothing tells).
ReadExact ==
    Ended /\ fn = "read" /\ ~Nack /\ pure =>
        buf = slave.sent /\ Len(buf) = NBytes /\ slave.reg = OutX

\* svc_compass_read returns, if the device does not lose its state for ever:
\* every wait for the clock ends, and the repeated write is acknowledged once.
ReadReturns == <>[][~Upset]_vars => (fn # "none" ~> fn = "none")
=============================================================================
